--------------------------------- MODULE Tokens ---------------------------------
(***************************************************************************)
(* The API's credentials: store.Tokens (src/internal/store/tokens.go), the *)
(* bearer check (src/internal/api/api.go) and the tokens of an import      *)
(* (src/internal/store/transfer.go).                                       *)
(*                                                                         *)
(* The daemon reads tokens.json once, when it starts, and answers from     *)
(* memory; every change saves the whole list or is taken back.  The last   *)
(* use of a token is kept in memory at every request and saved at most     *)
(* once in LastUsedResolution.  An import writes the file from a process   *)
(* of its own.                                                             *)
(*                                                                         *)
(* A token is known by its id; its secret, and so its hash, is as good as  *)
(* the id, as both are drawn at random.  Time is counted in ticks.         *)
(***************************************************************************)
EXTENDS Integers, Sequences

CONSTANTS Token,       \* ids
          Label,       \* what tokens are labelled with; may be somebody's id
          Dump,        \* the token lists that an import may bring
          LastTick,    \* the ticks modelled are 0 .. LastTick
          Resolution   \* LastUsedResolution

Never == LastTick + 1
Tick == 0 .. LastTick

Row == [id : Token, label : Label, used : Tick \cup {Never}, revoked : BOOLEAN]

ASSUME TokensAssumption ==
  /\ LastTick \in Nat /\ Resolution \in Nat \ {0}
  /\ Dump \subseteq Seq(Row)

VARIABLES
  up,       \* the daemon runs
  now,      \* the clock
  list,     \* Tokens.list
  flushed,  \* lastUsedFlushed[t]: the last use of t that counts as saved, or Never
  file,     \* tokens.json; no file is an empty list
  drawn,    \* the ids drawn so far: they are random, and none comes twice
  \* History, read by the properties only.
  valid,    \* the tokens whose owner was told they are, and not that they are no more
  unread,   \* another process has written the file since the daemon read or wrote it
  unsaved   \* the save of a last use has failed, and none has succeeded since

vars == <<up, now, list, flushed, file, drawn, valid, unread, unsaved>>

Ids(l) == {l[i].id : i \in DOMAIN l}
Active(l) == {l[i].id : i \in {j \in DOMAIN l : ~l[j].revoked}}
Without(l, i) == SubSeq(l, 1, i - 1) \o SubSeq(l, i + 1, Len(l))

\* OpenTokens refuses a list in which a hash comes twice.
Accepts(l) == \A i, j \in DOMAIN l : l[i].id = l[j].id => i = j

\* indexOf: the token with this id or, failing that, the first with this label.
Leads(ref, i) ==
  \/ list[i].id = ref
  \/ /\ ref \notin Ids(list) /\ list[i].label = ref
     /\ \A j \in DOMAIN list : list[j].label = ref => i <= j

Init ==
  /\ up = FALSE /\ now = 0
  /\ list = <<>> /\ file = <<>>
  /\ flushed = [t \in Token |-> Never]
  /\ drawn = {} /\ valid = {} /\ unread = FALSE /\ unsaved = {}

--------------------------------------------------------------------------------

Pass ==
  /\ now < LastTick
  /\ now' = now + 1
  /\ UNCHANGED <<up, list, flushed, file, drawn, valid, unread, unsaved>>

\* The last use of t in the list l.
UsedIn(l, t) ==
  IF t \in Ids(l) THEN l[CHOOSE i \in DOMAIN l : l[i].id = t].used ELSE Never

\* serve opens the store: what the file says was used last counts as saved.
Open ==
  /\ ~up /\ Accepts(file)
  /\ up' = TRUE
  /\ list' = file
  /\ flushed' = [t \in Token |-> UsedIn(file, t)]
  /\ valid' = IF unread THEN Active(file) ELSE valid
  /\ unread' = FALSE /\ unsaved' = {}
  /\ UNCHANGED <<now, file, drawn>>

\* The daemon ends, in order or not: the list in memory is lost.
Ends ==
  /\ up
  /\ up' = FALSE /\ list' = <<>> /\ flushed' = [t \in Token |-> Never]
  /\ UNCHANGED <<now, file, drawn, valid, unread, unsaved>>

\* Fault: the list is not put back when the save fails.
SaveUnrolled(new, told) ==
  /\ list' = new
  /\ \/ /\ file' = new
        /\ valid' = told /\ unread' = FALSE /\ unsaved' = {}
     \/ UNCHANGED <<file, valid, unread, unsaved>>
  /\ UNCHANGED <<up, now, flushed>>

\* The new list is saved and the caller told so, or the save fails and the list is put
\* back as it was.
Save(new, told) ==
  /\ \/ /\ list' = new /\ file' = new
        /\ valid' = told /\ unread' = FALSE /\ unsaved' = {}
     \/ UNCHANGED <<list, file, valid, unread, unsaved>>
  /\ UNCHANGED <<up, now, flushed>>

\* Fault: an id may be drawn again.
CreateAgain(t, label) ==
  /\ up
  /\ drawn' = drawn \cup {t}
  /\ Save(Append(list, [id |-> t, label |-> label, used |-> Never, revoked |-> FALSE]),
          valid \cup {t})

Create(t, label) ==
  /\ up
  /\ t \notin drawn
  /\ drawn' = drawn \cup {t}
  /\ Save(Append(list, [id |-> t, label |-> label, used |-> Never, revoked |-> FALSE]),
          valid \cup {t})

Delete(ref) ==
  /\ up
  /\ \E i \in DOMAIN list : Leads(ref, i) /\ Save(Without(list, i), valid \ {list[i].id})
  /\ UNCHANGED drawn

\* Revoke keeps the row; revoking twice is no change.  No handler calls it.
Revoke(ref) ==
  /\ up
  /\ \E i \in DOMAIN list :
       /\ Leads(ref, i) /\ ~list[i].revoked
       /\ Save([list EXCEPT ![i].revoked = TRUE], valid \ {list[i].id})
  /\ UNCHANGED drawn

Authenticates(t, i) == up /\ list[i].id = t /\ ~list[i].revoked

\* Fault: a token that has no saved use is taken for one just saved.
StaleOnlyLater(t) == flushed[t] # Never /\ now - flushed[t] >= Resolution

\* The last use saved is at least a resolution ago, or there is none.
Stale(t) == flushed[t] = Never \/ now - flushed[t] >= Resolution

\* Lookup: the use is noted in memory, and saved when the saved one is old.  The attempt
\* counts as saved, whatever becomes of it, and the request is answered all the same.
Lookup(t) ==
  /\ \E i \in DOMAIN list :
       /\ Authenticates(t, i)
       /\ list' = [list EXCEPT ![i].used = now]
  /\ \/ /\ Stale(t)
        /\ flushed' = [flushed EXCEPT ![t] = now]
        /\ \/ file' = list' /\ unread' = FALSE /\ unsaved' = {}
           \/ unsaved' = unsaved \cup {t} /\ UNCHANGED <<file, unread>>
     \/ ~Stale(t) /\ UNCHANGED <<flushed, file, unread, unsaved>>
  /\ UNCHANGED <<up, now, drawn, valid>>

\* Tokens.Replace in the process of an import, which does not look for duplicates.
\* Clocks agree: what a dump says was used was used before.
Import(dump) ==
  /\ \A i \in DOMAIN dump : dump[i].used \in 0 .. now \cup {Never}
  /\ file' = dump
  /\ drawn' = drawn \cup Ids(dump)
  /\ unread' = TRUE
  /\ UNCHANGED <<up, now, list, flushed, valid, unsaved>>

Next ==
  \/ Pass \/ Open \/ Ends
  \/ \E t \in Token : Lookup(t)
  \/ \E t \in Token, label \in Label : Create(t, label)
  \/ \E ref \in Token \cup Label : Delete(ref) \/ Revoke(ref)
  \/ \E dump \in Dump : Import(dump)

Spec == Init /\ [][Next]_vars

--------------------------------------------------------------------------------
(* Properties.                                                             *)

\* The variables keep to their kinds, and no token is in the daemon's list twice: the
\* next start would refuse it.
TypeOK ==
  /\ up \in BOOLEAN /\ unread \in BOOLEAN
  /\ now \in Tick
  /\ list \in Seq(Row) /\ Accepts(list)
  /\ file \in Seq(Row) /\ (unread \/ Accepts(file))
  /\ flushed \in [Token -> Tick \cup {Never}]
  /\ drawn \subseteq Token /\ Ids(list) \cup Ids(file) \cup valid \subseteq drawn
  /\ unsaved \subseteq Token

\* A token is good exactly if its owner was told that it was made and not that it was
\* deleted or revoked: in a running daemon, whatever else was saved or could not be, and,
\* unless another process has written it, in the file that the next start reads.
Credentials ==
  /\ up => Active(list) = valid
  /\ ~unread => Active(file) = valid

\* The file knows the last use of a token but for the last minute, unless saving it has
\* failed: also for a token used for the first time, and after a restart.
LastUseKept ==
  up /\ ~unread =>
    \A i \in DOMAIN list : list[i].used # Never =>
      \/ list[i].id \in unsaved
      \/ /\ i \in DOMAIN file /\ file[i].id = list[i].id
         /\ file[i].used # Never /\ list[i].used - file[i].used < Resolution

\* Each operation adds or removes one token, and stays done through every end and start of
\* the daemon, or has not happened, whoever else writes the file (module Register).
Promise == INSTANCE Register WITH
  Member <- Token, Same <- {}, Completion <- {},
  open <- up, roster <- Active(IF up THEN list ELSE file), replaced <- up /\ unread

KeepsPromise == Promise!RegisterSpec

================================================================================
