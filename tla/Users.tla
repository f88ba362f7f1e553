---------------------------------- MODULE Users --------------------------------
(***************************************************************************)
(* store.Users: the user list in memory and users.json                     *)
(* (src/internal/store/users.go, jsonfile.go).  The daemon opens the file   *)
(* once and works on its own copy under a lock, saving it after every       *)
(* change; a command such as `import` is another process, which opens the   *)
(* same file, replaces it and ends (src/internal/store/transfer.go); and an *)
(* operator may edit the file while nothing runs.                           *)
(*                                                                         *)
(* A save writes a temporary file and renames it, so it happens or fails;   *)
(* under the lock, an operation and its save are one step.  The limits, the *)
(* note and the timestamps of a user, Collector's subject, are one field    *)
(* here: whether the user is active.                                       *)
(***************************************************************************)
EXTENDS Integers, Sequences, Functions

CONSTANTS Id,      \* the ids there can be; they are random strings
          Name,    \* other strings
          Blank,   \* what strings of white space are trimmed to
          Fold,    \* strings.EqualFold holds of strings with the same Fold
          Lower,   \* strings.ToLower is the same for strings with the same Lower
          Trim,    \* strings.TrimSpace
          Uuid,    \* the UUIDs, as strings
          Token,   \* the subscription tokens there can be; they are random strings
          None,    \* no subscription token; a field that a patch leaves alone
          Dump     \* the lists of users that a dump or a text editor may hold

Text == Id \cup Name

User == [id : Id, name : Text, uuid : Uuid, token : Token \cup {None}, active : BOOLEAN]

ASSUME UsersAssumption ==
  /\ Blank \notin Text
  /\ DOMAIN Fold = Text /\ DOMAIN Lower = Text
  /\ Trim \in [Text -> Text \cup {Blank}]
  /\ None \notin Text \cup Uuid \cup Token
  /\ Dump \subseteq Seq(User)

VARIABLES
  file,    \* the list in users.json; a missing file is an empty list
  up,      \* the daemon: "down", "filling" (backfillSubTokens is due), or "up"
  list,    \* its list of users
  unread,  \* another process has written the file since the daemon read or wrote it
  cli,     \* a command: "closed", "filling", or open on an "empty" or "full" list
  read,    \* the list it has read and has tokens to add to
  dead     \* history: tokens that were rotated away or whose user was deleted

daemonVars == <<up, list>>
cliVars == <<cli, read>>
vars == <<file, daemonVars, unread, cliVars, dead>>

Init ==
  /\ file = <<>>
  /\ up = "down" /\ list = <<>>
  /\ unread = FALSE
  /\ cli = "closed" /\ read = <<>>
  /\ dead = {}

--------------------------------------------------------------------------------
(* What the operations look at.                                            *)

EqualFold(s, t) == Fold[s] = Fold[t]

\* indexOf: an id goes before a name, and the first of several before the others.
Hits(l, ref) ==
  LET ids == {j \in DOMAIN l : l[j].id = ref}
  IN  IF ids # {} THEN ids ELSE {j \in DOMAIN l : EqualFold(l[j].name, ref)}

Finds(l, ref, i) == i \in Hits(l, ref) /\ \A j \in Hits(l, ref) : i <= j

\* GetBySubToken.
FindsToken(l, t, i) ==
  /\ t # None
  /\ l[i].token = t
  /\ \A j \in DOMAIN l : l[j].token = t => i <= j

Known(l) == {i \in DOMAIN l : \E ref \in Text : Finds(l, ref, i)}

TokensOf(l) == {l[i].token : i \in DOMAIN l} \ {None}
IdsOf(l) == {l[i].id : i \in DOMAIN l}

\* validateLoaded.  An empty field, or a UUID that is none, is refused as a duplicate is;
\* the dumps have the duplicates.
Accepts(l) ==
  \A i, j \in DOMAIN l :
    i # j => /\ l[i].id # l[j].id
             /\ Lower[l[i].name] # Lower[l[j].name]
             /\ l[i].uuid # l[j].uuid
             /\ l[i].token # None => l[i].token # l[j].token

\* A random id or secret is nobody's.
FreshId == Id \ (IdsOf(list) \cup IdsOf(file) \cup IdsOf(read))
FreshToken == Token \ (dead \cup TokensOf(list) \cup TokensOf(file) \cup TokensOf(read))

\* Store.ActiveUsers, as Manager.render takes them from the daemon's list.
Rendered(l) == {<<l[i].id, l[i].uuid>> : i \in {j \in DOMAIN l : l[j].active}}

--------------------------------------------------------------------------------
(* The daemon's operations: each changes one user and saves.               *)

\* Fault: the save fails and the list is left as it is to be.
SaveUnrolled(new, gone) ==
  /\ list' = new
  /\ \/ file' = new /\ unread' = FALSE /\ dead' = dead \cup gone
     \/ UNCHANGED <<file, unread, dead>>
  /\ UNCHANGED <<up, cliVars>>

\* The new list is saved, and the tokens in gone are worth nothing from then on; or the
\* save fails and the list is put back as it was.
Save(new, gone) ==
  /\ \/ list' = new /\ file' = new /\ unread' = FALSE /\ dead' = dead \cup gone
     \/ UNCHANGED <<list, file, unread, dead>>
  /\ UNCHANGED <<up, cliVars>>

Changed(i, u) == [list EXCEPT ![i] = u]
Without(l, i) == SubSeq(l, 1, i - 1) \o SubSeq(l, i + 1, Len(l))

\* Fault: names are compared as they are written.
CreateCaseSensitive(name, uuid, active) ==
  /\ up = "up"
  /\ Trim[name] # Blank
  /\ \A i \in DOMAIN list : list[i].name # name /\ list[i].uuid # uuid
  /\ \E id \in FreshId, token \in FreshToken :
       Save(Append(list, [id |-> id, name |-> name, uuid |-> uuid, token |-> token,
                          active |-> active]), {})

\* Fault: the name is trimmed, and may be nothing.
CreateTrims(name, uuid, active) ==
  /\ up = "up"
  /\ \A i \in DOMAIN list : ~Finds(list, name, i)
  /\ \A i \in DOMAIN list : list[i].uuid # uuid
  /\ \E id \in FreshId, token \in FreshToken :
       Save(Append(list, [id |-> id, name |-> Trim[name], uuid |-> uuid, token |-> token,
                          active |-> active]), {})

\* Create stores the name as it was given.
Create(name, uuid, active) ==
  /\ up = "up"
  /\ Trim[name] # Blank
  /\ \A i \in DOMAIN list : ~Finds(list, name, i)
  /\ \A i \in DOMAIN list : list[i].uuid # uuid
  /\ \E id \in FreshId, token \in FreshToken :
       Save(Append(list, [id |-> id, name |-> name, uuid |-> uuid, token |-> token,
                          active |-> active]), {})

\* Fault: the new UUID is not compared with the others'.
UpdateUnchecked(i, name, uuid, active) ==
  LET u == [list[i] EXCEPT !.name = IF name = None THEN @ ELSE Trim[name],
                           !.uuid = IF uuid = None THEN @ ELSE uuid,
                           !.active = active]
  IN  /\ up = "up"
      /\ i \in Known(list)
      /\ name # None => Trim[name] # Blank /\ \A j \in DOMAIN list \ {i} : ~Finds(list, u.name, j)
      /\ u # list[i]
      /\ Save(Changed(i, u), {})

\* Update trims the name, and writes nothing if nothing changes.  A patch may leave the
\* name and the UUID alone.
Update(i, name, uuid, active) ==
  LET u == [list[i] EXCEPT !.name = IF name = None THEN @ ELSE Trim[name],
                           !.uuid = IF uuid = None THEN @ ELSE uuid,
                           !.active = active]
  IN  /\ up = "up"
      /\ i \in Known(list)
      /\ name # None => Trim[name] # Blank /\ \A j \in DOMAIN list \ {i} : ~Finds(list, u.name, j)
      /\ uuid # None => \A j \in DOMAIN list \ {i} : list[j].uuid # uuid
      /\ u # list[i]
      /\ Save(Changed(i, u), {})

\* Moving the window always writes; it makes a user active who was over quota.
ResetUsageWindow(i) ==
  /\ up = "up"
  /\ i \in Known(list)
  /\ \E active \in {list[i].active, TRUE} : Save(Changed(i, [list[i] EXCEPT !.active = active]), {})

\* Fault: the list is saved before the token is changed.
RotateSavesFirst(i) ==
  /\ up = "up"
  /\ i \in Known(list)
  /\ \E token \in FreshToken : list' = Changed(i, [list[i] EXCEPT !.token = token])
  /\ file' = list /\ unread' = FALSE
  /\ dead' = dead \cup {list[i].token}
  /\ UNCHANGED <<up, cliVars>>

RotateSubToken(i) ==
  /\ up = "up"
  /\ i \in Known(list)
  /\ \E token \in FreshToken :
       Save(Changed(i, [list[i] EXCEPT !.token = token]), {list[i].token})

\* Delete leaves the others in their order.
Delete(i) ==
  /\ up = "up"
  /\ i \in Known(list)
  /\ Save(Without(list, i), {list[i].token})

--------------------------------------------------------------------------------
(* OpenUsers: read and validate, and then give a token to whoever has none. *)

Lacking(l) == {i \in DOMAIN l : l[i].token = None}

Filled(l, tokens) ==
  [i \in DOMAIN l |-> IF i \in Lacking(l) THEN [l[i] EXCEPT !.token = tokens[i]] ELSE l[i]]

\* Fault: the tokens are not added.
OpenUnfilled ==
  /\ up = "down"
  /\ Accepts(file)
  /\ list' = file /\ unread' = FALSE
  /\ up' = "up"
  /\ UNCHANGED <<file, cliVars, dead>>

\* The daemon starts.  It does not if the file is refused.
Open ==
  /\ up = "down"
  /\ Accepts(file)
  /\ list' = file /\ unread' = FALSE
  /\ up' = IF Lacking(file) = {} THEN "up" ELSE "filling"
  /\ UNCHANGED <<file, cliVars, dead>>

BackfillSubTokens ==
  /\ up = "filling"
  /\ \E tokens \in Injection(Lacking(list), FreshToken) :
       list' = Filled(list, tokens) /\ file' = Filled(list, tokens)
  /\ unread' = FALSE
  /\ up' = "up"
  /\ UNCHANGED <<cliVars, dead>>

\* The daemon ends, in order, by a crash, or because its start fails.
Stop ==
  /\ up # "down"
  /\ up' = "down" /\ list' = <<>> /\ unread' = FALSE
  /\ UNCHANGED <<file, cliVars, dead>>

--------------------------------------------------------------------------------
(* Commands, and the text editor.                                          *)

Opened(l) == IF l = <<>> THEN "empty" ELSE "full"

\* `import`, `export`, `identity` or `render` opens the data directory.
CliOpens ==
  /\ cli = "closed"
  /\ Accepts(file)
  /\ IF Lacking(file) = {} THEN cli' = Opened(file) /\ read' = <<>>
                           ELSE cli' = "filling" /\ read' = file
  /\ UNCHANGED <<file, daemonVars, unread, dead>>

\* The command saves the list it has read, whatever the daemon has saved since.
CliBackfills ==
  /\ cli = "filling"
  /\ \E tokens \in Injection(Lacking(read), FreshToken) : file' = Filled(read, tokens)
  /\ cli' = "full" /\ read' = <<>>
  /\ unread' = (up # "down")
  /\ dead' = dead \ TokensOf(read)
  /\ UNCHANGED daemonVars

\* Store.Import calls Replace, which validates and saves.  A dump brings back the tokens
\* that are in it.
Import(dump, force) ==
  /\ cli \in {"empty", "full"}
  /\ cli = "empty" \/ force
  /\ Accepts(dump)
  /\ file' = dump
  /\ unread' = (up # "down")
  /\ dead' = dead \ TokensOf(dump)
  /\ cli' = "closed"
  /\ UNCHANGED <<daemonVars, read>>

\* Another command ends, an import is refused or fails, or is killed.
CliEnds ==
  /\ cli # "closed"
  /\ cli' = "closed" /\ read' = <<>>
  /\ UNCHANGED <<file, daemonVars, unread, dead>>

\* "Edit, then restart": the file is edited while no process has it open.
HandEdit(dump) ==
  /\ up = "down" /\ cli = "closed"
  /\ file' = dump
  /\ dead' = dead \ TokensOf(dump)
  /\ UNCHANGED <<daemonVars, unread, cliVars>>

--------------------------------------------------------------------------------

DaemonStep ==
  \/ \E name \in Text, uuid \in Uuid, active \in BOOLEAN : Create(name, uuid, active)
  \/ \E i \in DOMAIN list, name \in Text \cup {None}, uuid \in Uuid \cup {None}, active \in BOOLEAN :
       Update(i, name, uuid, active)
  \/ \E i \in DOMAIN list : ResetUsageWindow(i) \/ RotateSubToken(i) \/ Delete(i)
  \/ Open \/ BackfillSubTokens \/ Stop

CliStep ==
  \/ CliOpens \/ CliBackfills \/ CliEnds
  \/ \E dump \in Dump, force \in BOOLEAN : Import(dump, force)

Next == DaemonStep \/ CliStep \/ \E dump \in Dump : HandEdit(dump)

Spec == Init /\ [][Next]_vars

--------------------------------------------------------------------------------
(* Properties.                                                             *)

\* Every variable holds a value of its kind.
TypeOK ==
  /\ file \in Seq(User) /\ list \in Seq(User) /\ read \in Seq(User)
  /\ up \in {"down", "filling", "up"}
  /\ cli \in {"closed", "filling", "empty", "full"}
  /\ unread \in BOOLEAN
  /\ dead \subseteq Token

UrlsLead ==
  up = "up" => \A i \in DOMAIN list : FindsToken(list, list[i].token, i)

\* No two users share an id or a UUID string; an id leads to the user who has it, whatever
\* the others call themselves, and while the daemon is up every user has a subscription
\* URL that leads to them.
ToldApart ==
  /\ \A i, j \in DOMAIN list :
       /\ i # j => list[i].id # list[j].id /\ list[i].uuid # list[j].uuid
       /\ Finds(list, list[i].id, j) <=> i = j
  /\ UrlsLead

\* No two users have one name in different letters, unless one of them is named by their
\* own id: a reference is taken for an id first, and the comparison of a rename ends there.
NamesApart ==
  \A i, j \in DOMAIN list :
    i # j /\ EqualFold(list[i].name, list[j].name)
      => \E k \in {i, j} : EqualFold(list[k].name, list[k].id)

\* Memory and file agree after every operation, also when its save has failed, unless
\* another process has written the file.
MemoryIsFile == up # "down" /\ ~unread => list = file

\* Each operation concerns one user, and stays done through every end and start of the
\* daemon, or has not happened when its save fails, whoever else writes the file (module
\* Register).
Members(l) == {l[i] : i \in DOMAIN l}
InForce == Members(IF up = "down" THEN file ELSE list)

SameUser == {p \in User \X User : p[1].id = p[2].id}
Filling == {p \in User \X User : /\ p[1].token = None
                                 /\ p[2] = [p[1] EXCEPT !.token = p[2].token]}

Promise == INSTANCE Register WITH
  Member <- User, Same <- SameUser, Completion <- Filling,
  open <- up # "down", roster <- InForce, replaced <- unread

KeepsPromise == Promise!RegisterSpec

\* A subscription URL that was rotated away, or whose user was deleted, is never good
\* again, through restarts and failed saves, unless a dump, an editor, or a command that
\* read the file before and saves it after brings it back.
RotatedStaysDead ==
  \A t \in dead, i \in DOMAIN list : ~FindsToken(list, t, i)

\* Promised by CLI.md and by import's own output, and not so: once an import has ended,
\* what a reload of the daemon renders is the imported users.
ReloadAppliesImport ==
  up = "up" /\ cli = "closed" => Rendered(list) = Rendered(file)

================================================================================
