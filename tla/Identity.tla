-------------------------------- MODULE Identity --------------------------------
(***************************************************************************)
(* The server's Reality keypair: store.IdentityStore                       *)
(* (src/internal/store/identity.go), the order in which the data directory *)
(* is opened and an import replaces it (store.go, transfer.go), and the    *)
(* renders that take the key up (src/internal/singbox/manager.go).         *)
(*                                                                         *)
(* The daemon holds a key and a list of users in memory.  It reads the     *)
(* users when it starts and the key also before every render; the links it *)
(* hands out carry the key it holds, and sing-box the one that is          *)
(* installed.  Commands are processes of their own, one at a time: they    *)
(* open the directory, and some of them replace what is in it.  The file   *)
(* may get lost or be damaged.                                             *)
(*                                                                         *)
(* An identity, private key and short id, is one value.  Of the users only *)
(* matters where they come from.                                           *)
(***************************************************************************)
EXTENDS FiniteSets

CONSTANTS Key,      \* identities
          First,    \* the one in the file at first
          DumpKey,  \* the one in a dump that has one
          Absent,   \* there is no identity.json
          Corrupt   \* it cannot be parsed, or holds no valid key

ASSUME IdentityAssumption ==
  /\ First \in Key /\ DumpKey \in Key
  /\ Absent \notin Key /\ Corrupt \notin Key /\ Absent # Corrupt

\* Nobody; the users made here; those of a dump with its key; those of a dump without.
Users == {"none", "ours", "dump", "bare"}
Config == [key : Key, users : Users]

VARIABLES
  file,       \* identity.json
  users,      \* users.json
  at,         \* where the daemon stands
  mem,        \* the key it holds
  memUsers,   \* the users it holds
  installed,  \* the config in place for sing-box, or None
  failed,     \* lastErr is set
  cli,        \* where a command stands
  dump,       \* what it imports
  used,       \* keys somebody has ever had: a generated one is none of them
  \* History, read by the properties only.
  meddled     \* a key has been lost, generated, set or put there by hand

diskVars == <<file, users>>
daemonVars == <<at, mem, memUsers, installed, failed>>
cliVars == <<cli, dump>>
vars == <<diskVars, daemonVars, cliVars, used, meddled>>

Up == at \in {"idle", "rendering"}

Init ==
  /\ file = First /\ users \in {"none", "ours"}
  /\ at = "down" /\ mem = First /\ memUsers = "none"
  /\ installed = [key |-> First, users |-> "none"] /\ failed = FALSE
  /\ cli = "none" /\ dump = "bare"
  /\ used = {First, DumpKey}
  /\ meddled = FALSE

\* Reality keys are random: nobody has had a new one before.
Fresh == Key \ used

--------------------------------------------------------------------------------
(* The daemon: serve, Store.Open, Manager.Start and render.                *)

\* Store.Open reads the users before the identity.
OpenUsers ==
  /\ at = "down"
  /\ memUsers' = users
  /\ at' = "opening"
  /\ UNCHANGED <<diskVars, mem, installed, failed, cliVars, used, meddled>>

\* Fault: a new key is used although it could not be saved.
OpenIdentityUnsaved ==
  /\ at = "opening"
  /\ \/ /\ file \in Key
        /\ mem' = file
        /\ UNCHANGED <<file, used, meddled>>
     \/ /\ file = Absent
        /\ \E k \in Fresh : mem' = k /\ file' \in {k, Absent} /\ used' = used \cup {k}
        /\ meddled' = TRUE
  /\ at' = "starting"
  /\ UNCHANGED <<users, memUsers, installed, failed, cliVars>>

\* OpenIdentity: the key of the file, or a new one that is saved at once; it fails on a
\* file it cannot use, and if the save does.
OpenIdentity ==
  /\ at = "opening"
  /\ \/ /\ file \in Key
        /\ mem' = file /\ at' = "starting"
        /\ UNCHANGED <<file, used, meddled>>
     \/ /\ file = Absent
        /\ \E k \in Fresh : mem' = k /\ file' = k /\ used' = used \cup {k}
        /\ at' = "starting" /\ meddled' = TRUE
     \/ /\ file \in {Absent, Corrupt}
        /\ at' = "down"
        /\ UNCHANGED <<file, mem, used, meddled>>
  /\ UNCHANGED <<users, memUsers, installed, failed, cliVars>>

\* Fault: what was read is taken, whether there was a file or not.
TakenBlindly == file

\* render begins with IdentityStore.Reload: a missing file leaves the key as it is, a
\* corrupt one fails the render.
Taken == IF file = Absent THEN mem ELSE file

TakeKey ==
  /\ at \in {"starting", "idle"}
  /\ file # Corrupt
  /\ mem' = Taken
  /\ at' = IF at = "idle" THEN "rendering" ELSE "first"
  /\ UNCHANGED <<diskVars, memUsers, installed, failed, cliVars, used, meddled>>

\* The rest of render: the config with the daemon's key and users is checked and
\* installed.
Install ==
  /\ at \in {"first", "rendering"}
  /\ installed' = [key |-> mem, users |-> memUsers]
  /\ failed' = FALSE
  /\ at' = "idle"
  /\ UNCHANGED <<diskVars, mem, memUsers, cliVars, used, meddled>>

\* Fault: the error of a render is not kept for the status.
RenderFailsUnseen ==
  /\ \/ at \in {"starting", "idle"} /\ file = Corrupt
     \/ at \in {"first", "rendering"}
  /\ at' = IF Up THEN "idle" ELSE "down"
  /\ UNCHANGED <<diskVars, mem, memUsers, installed, failed, cliVars, used, meddled>>

\* A render fails, by the identity, the check or the write; serve returns if it is the
\* first, and goes on with what it has otherwise.
RenderFails ==
  /\ \/ at \in {"starting", "idle"} /\ file = Corrupt
     \/ at \in {"first", "rendering"}
  /\ failed' = Up
  /\ at' = IF Up THEN "idle" ELSE "down"
  /\ UNCHANGED <<diskVars, mem, memUsers, installed, cliVars, used, meddled>>

\* The API makes, changes and deletes users, and saves its own list.
ChangeUsers ==
  /\ Up
  /\ memUsers' \in IF memUsers = "none" THEN {"ours"} ELSE {memUsers, "none"}
  /\ users' = memUsers'
  /\ UNCHANGED <<file, at, mem, installed, failed, cliVars, used, meddled>>

Ends ==
  /\ at # "down"
  /\ at' = "down" /\ failed' = FALSE
  /\ UNCHANGED <<diskVars, mem, memUsers, installed, cliVars, used, meddled>>

--------------------------------------------------------------------------------
(* Commands, and what happens to the file.                                 *)

\* export, render, identity and import open the directory, and so generate a key that
\* is missing, whether they are about it or not.
CliOpens ==
  /\ cli = "none"
  /\ \/ /\ file \in Key
        /\ UNCHANGED <<file, used, meddled>>
     \/ /\ file = Absent
        /\ \E k \in Fresh : file' = k /\ used' = used \cup {k}
        /\ meddled' = TRUE
  /\ cli' = "open"
  /\ UNCHANGED <<users, daemonVars, dump>>

\* identity set, with a key at hand or a new one.
IdentitySet ==
  /\ cli = "open"
  /\ \E k \in Key : file' = k /\ used' = used \cup {k}
  /\ meddled' = TRUE
  /\ cli' = "none"
  /\ UNCHANGED <<users, daemonVars, dump>>

\* Fault: an import leaves the identity alone if there is one.
ImportKeepsIdentity ==
  /\ cli = "open"
  /\ dump' \in {"dump", "bare"}
  /\ meddled' = (meddled /\ (dump' = "bare" \/ at # "down"))
  /\ cli' = "users"
  /\ UNCHANGED <<file, users, daemonVars, used>>

\* Import replaces the identity first, if the dump has one, and refuses users to be
\* there unless it is forced to.
ImportIdentity ==
  /\ cli = "open"
  /\ \/ /\ dump' = "dump" /\ file' = DumpKey
        /\ meddled' = (meddled /\ at # "down")
     \/ /\ dump' = "bare"
        /\ UNCHANGED <<file, meddled>>
  /\ cli' = "users"
  /\ UNCHANGED <<users, daemonVars, used>>

\* Then the users; the tokens and the usage follow.
ImportUsers ==
  /\ cli = "users"
  /\ users' = dump
  /\ cli' = "none"
  /\ UNCHANGED <<file, daemonVars, dump, used, meddled>>

\* A command ends, or fails or is stopped where it stands.
CliEnds ==
  /\ cli # "none"
  /\ cli' = "none"
  /\ UNCHANGED <<diskVars, daemonVars, dump, used, meddled>>

\* The file is lost, damaged or restored by hand.
Mishap ==
  /\ file' \in {Absent, Corrupt, First}
  /\ meddled' = TRUE
  /\ UNCHANGED <<users, daemonVars, cliVars, used>>

--------------------------------------------------------------------------------

DaemonStep ==
  OpenUsers \/ OpenIdentity \/ TakeKey \/ Install \/ RenderFails \/ ChangeUsers \/ Ends
CliStep == CliOpens \/ IdentitySet \/ ImportIdentity \/ ImportUsers \/ CliEnds

Next == DaemonStep \/ CliStep \/ Mishap

Spec == Init /\ [][Next]_vars

--------------------------------------------------------------------------------
(* Properties.                                                             *)

\* Every variable holds a value of its kind.
TypeOK ==
  /\ file \in Key \cup {Absent, Corrupt} /\ users \in Users
  /\ at \in {"down", "opening", "starting", "first", "idle", "rendering"}
  /\ mem \in Key /\ memUsers \in Users
  /\ installed \in Config /\ failed \in BOOLEAN
  /\ cli \in {"none", "open", "users"} /\ dump \in {"dump", "bare"}
  /\ used \subseteq Key /\ meddled \in BOOLEAN

\* A link carries the key that is installed for sing-box, but during a render and after
\* one that failed, as the status then shows: a render that fails has taken the new key.
LinksMatch == at = "idle" /\ ~failed => installed.key = mem

\* Users of a dump that came with its key are never in the directory, in the daemon or
\* in the installed config next to another one, however import, start and renders cross
\* and wherever they end: unless somebody has set, lost or replaced the key otherwise.
RestoredTogether ==
  meddled \/ /\ users = "dump" => file = DumpKey
             /\ Up /\ memUsers = "dump" => mem = DumpKey
             /\ Up /\ installed.users = "dump" => installed.key = DumpKey

\* The daemon never goes over to a key that is not in identity.json, where the next
\* start will find it: neither by inventing one when the file is gone nor by using one
\* that it could not save.
KeysAreKept == [][mem' # mem => file' = mem']_vars

================================================================================
