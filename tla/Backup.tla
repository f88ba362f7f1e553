--------------------------------- MODULE Backup ---------------------------------
(***************************************************************************)
(* backup.Pusher: copies of the deployment posted to a backup agent        *)
(* (src/internal/backup/pusher.go, backup.go; Store.Snapshot,              *)
(* Usage.LastBackup and RecordBackup).                                     *)
(*                                                                         *)
(* A pass reads the files one by one to hash them, decides whether a copy  *)
(* is due, reads them again one by one into an archive, posts it and       *)
(* records what was sent.  Handlers, commands and an editor write the      *)
(* files meanwhile; the agent may refuse or its answer be lost; the daemon *)
(* may end between any two steps and start again, with the config of then. *)
(*                                                                         *)
(* Digests cover names and contents, so a digest is what was read of each  *)
(* file.  A tick of the clock is the common measure of Delay, Period and   *)
(* PushTimeout; times are kept as ages.  Traffic is not modelled: stats.db *)
(* is in no digest, and what keeps it fresh is the age of the last copy.   *)
(***************************************************************************)
EXTENDS Naturals, Sequences, FiniteSets

CONSTANTS Order,        \* the files of an archive, in the order they are read
          Config,       \* config.json, the first of them
          Contents,     \* Contents[f]: what f may hold
          Absent,       \* a file is missing, or config.json is and cannot be read
          Start,        \* Start[f]: what f holds at first
          Settings,     \* Settings[c]: the agent and the mode that config c names
          NoAgent,      \* no backup_url
          Delay,        \* between the end of a pass and the next, BackupDelay
          Period,       \* the floor of mode "all", BackupAllPeriod
          PushTimeout,  \* what a pass may take
          MaxWrites     \* writes modelled

Files == {Order[i] : i \in DOMAIN Order}
Content == UNION {Contents[f] : f \in Files}
Mode == {"state", "relaxed", "all"}

\* The age from which the last copy counts as very old.
Old == Period + Delay + 2 * PushTimeout

ASSUME BackupAssumption ==
  /\ Order \in Seq(Files) /\ Config \in Files
  /\ Start \in [Files -> Content] /\ \A f \in Files : Start[f] \in Contents[f]
  /\ Absent \in Content
  /\ Start[Config] # Absent
  /\ \A c \in Contents[Config] \ {Absent} : Settings[c].mode \in Mode
  /\ Delay \in Nat \ {0} /\ Period \in Nat \ {0} /\ PushTimeout \in Nat \ {0}
  /\ MaxWrites \in Nat

VARIABLES
  disk,    \* disk[f]: the content of file f
  writes,  \* how often the files have been written
  cfg,     \* the config the daemon was started with
  at,      \* where Once stands; "asleep", "off": between passes or without an agent
  wait,    \* what the timer still has to run
  spent,   \* what this pass has taken
  read,    \* read[f]: the files this phase of the pass has read
  last,    \* stats.db: the digest of the last recorded copy, Nothing if there is none
  age,     \* stats.db: how long ago that pass began, up to Old
  kept,    \* the agents' archives
  \* History, read by the properties only.
  seen,    \* seen[f]: what f has held since the archive was begun
  calm     \* since the last record no pass has failed and the daemon has not ended

passVars == <<at, wait, spent, read>>
stateVars == <<last, age>>
vars == <<disk, writes, cfg, passVars, stateVars, kept, seen, calm>>

Nothing == [f \in {} |-> Absent]

InPass == at \in {"probing", "deciding", "building", "packing", "pushing", "recording"}
Up == at # "down"

Init ==
  /\ disk = Start /\ writes = 0
  /\ cfg = Start[Config]
  /\ at = "down" /\ wait = 0 /\ spent = 0 /\ read = Nothing
  /\ last = Nothing /\ age = 0
  /\ kept = {}
  /\ seen = [f \in Files |-> {Start[f]}]
  /\ calm = FALSE

--------------------------------------------------------------------------------
(* The rest of the deployment: its files, its clock, its process.          *)

\* A handler, a command or an editor replaces a file.
Write(f) ==
  /\ writes < MaxWrites
  /\ \E c \in Contents[f] \ {disk[f]} :
       /\ disk' = [disk EXCEPT ![f] = c]
       /\ seen' = [seen EXCEPT ![f] = @ \cup {c}]
  /\ writes' = writes + 1
  /\ UNCHANGED <<cfg, passVars, stateVars, kept, calm>>

\* The timer and the deadline of a pass are not overslept.
Tick ==
  /\ at = "asleep" => wait > 0
  /\ InPass => spent < PushTimeout
  /\ wait' = IF at = "asleep" THEN wait - 1 ELSE wait
  /\ spent' = IF InPass THEN spent + 1 ELSE spent
  /\ age' = IF last # Nothing /\ age < Old THEN age + 1 ELSE age
  /\ UNCHANGED <<disk, writes, cfg, at, read, last, kept, seen, calm>>

\* serve loads the config and starts the pusher: its first pass is immediate.
Boot ==
  /\ at = "down"
  /\ disk[Config] # Absent
  /\ cfg' = disk[Config]
  /\ at' = IF Settings[cfg'].agent = NoAgent THEN "off" ELSE "asleep"
  /\ UNCHANGED <<disk, writes, wait, spent, read, stateVars, kept, seen, calm>>

\* The daemon ends, in the middle of a pass or not.
Ends ==
  /\ Up
  /\ at' = "down" /\ wait' = 0 /\ spent' = 0 /\ read' = Nothing
  /\ calm' = FALSE
  /\ UNCHANGED <<disk, writes, cfg, stateVars, kept, seen>>

--------------------------------------------------------------------------------
(* Pusher.Once.                                                            *)

\* Fault: every pass runs under the context of the first.
EndPassSameContext ==
  /\ at' = "asleep" /\ wait' = Delay /\ spent' = spent /\ read' = Nothing

EndPass ==
  /\ at' = "asleep" /\ wait' = Delay /\ spent' = 0 /\ read' = Nothing

\* The timer fires, and what was recorded last is read.
Begin ==
  /\ at = "asleep" /\ wait = 0
  /\ at' = "probing"
  /\ UNCHANGED <<disk, writes, cfg, wait, spent, read, stateVars, kept, seen, calm>>

\* The file to be read next.
Due(f) ==
  /\ f \notin DOMAIN read
  /\ \E i \in DOMAIN Order : /\ Order[i] = f
                             /\ \A j \in DOMAIN Order : j < i => Order[j] \in DOMAIN read

Reads(f) ==
  /\ Due(f)
  /\ read' = [g \in DOMAIN read \cup {f} |-> IF g = f THEN disk[f] ELSE read[g]]

AllRead == DOMAIN read = Files

\* Source.Probe: the files, to be hashed.
ProbeFile(f) ==
  /\ at = "probing"
  /\ Reads(f)
  /\ at' = IF DOMAIN read' = Files THEN "deciding" ELSE at
  /\ UNCHANGED <<disk, writes, cfg, wait, spent, stateVars, kept, seen, calm>>

\* Fault: the floor is passed over by a pass that comes exactly at it.
FloorReachedLate ==
  /\ Settings[cfg].mode = "all"
  /\ last # Nothing
  /\ age - spent > Period

\* Only mode "all" has a floor, and only once a copy has been recorded.
FloorReached ==
  /\ Settings[cfg].mode = "all"
  /\ last # Nothing
  /\ age - spent >= Period

NothingToSend ==
  /\ at = "deciding"
  /\ last = read /\ ~FloorReached
  /\ EndPass
  /\ UNCHANGED <<disk, writes, cfg, stateVars, kept, seen, calm>>

CopyIsDue ==
  /\ at = "deciding"
  /\ last # read \/ FloorReached
  /\ at' = "building" /\ read' = Nothing
  /\ seen' = [f \in Files |-> {disk[f]}]
  /\ UNCHANGED <<disk, writes, cfg, wait, spent, stateVars, kept, calm>>

\* Source.Build: the files again, for the archive.
BuildFile(f) ==
  /\ at = "building"
  /\ Reads(f)
  /\ at' = IF DOMAIN read' = Files THEN "packing" ELSE at
  /\ UNCHANGED <<disk, writes, cfg, wait, spent, stateVars, kept, seen, calm>>

\* stats.db is added when the mode carries it: VACUUM INTO heeds the deadline.
Pack ==
  /\ at = "packing"
  /\ Settings[cfg].mode # "state" => spent < PushTimeout
  /\ at' = "pushing"
  /\ UNCHANGED <<disk, writes, cfg, wait, spent, read, stateVars, kept, seen, calm>>

\* The agent takes the archive and says so in time.
Accepted ==
  /\ at = "pushing" /\ spent < PushTimeout
  /\ kept' = kept \cup {[agent |-> Settings[cfg].agent, files |-> read]}
  /\ at' = "recording"
  /\ UNCHANGED <<disk, writes, cfg, wait, spent, read, stateVars, seen, calm>>

\* The agent takes it and the answer does not come: the deadline, the connection.
AnswerLost ==
  /\ at = "pushing"
  /\ kept' = kept \cup {[agent |-> Settings[cfg].agent, files |-> read]}
  /\ EndPass
  /\ calm' = FALSE
  /\ UNCHANGED <<disk, writes, cfg, stateVars, seen>>

\* Fault: the row of the first copy is never replaced.
RecordInsertsOnly ==
  /\ at = "recording" /\ spent < PushTimeout
  /\ last' = IF last = Nothing THEN read ELSE last
  /\ age' = IF last = Nothing THEN spent ELSE age
  /\ EndPass
  /\ calm' = TRUE
  /\ UNCHANGED <<disk, writes, cfg, kept, seen>>

\* Usage.RecordBackup: the digest of the archive and the time the pass began.
Record ==
  /\ at = "recording" /\ spent < PushTimeout
  /\ last' = read /\ age' = spent
  /\ EndPass
  /\ calm' = TRUE
  /\ UNCHANGED <<disk, writes, cfg, kept, seen>>

\* Fault: a refused archive is recorded as sent.
FailsRecorded ==
  /\ InPass /\ at # "deciding"
  /\ last' = IF at = "pushing" THEN read ELSE last
  /\ EndPass
  /\ calm' = FALSE
  /\ UNCHANGED <<disk, writes, cfg, age, kept, seen>>

\* A file, stats.db or the agent returns an error, or the deadline has passed:
\* the pass ends and the next one looks again.
Fails ==
  /\ InPass /\ at # "deciding"
  /\ EndPass
  /\ calm' = FALSE
  /\ UNCHANGED <<disk, writes, cfg, stateVars, kept, seen>>

--------------------------------------------------------------------------------

PassStep ==
  \/ Begin \/ NothingToSend \/ CopyIsDue \/ Pack \/ Accepted \/ Record
  \/ \E f \in Files : ProbeFile(f) \/ BuildFile(f)

Next ==
  \/ Tick \/ Boot \/ Ends
  \/ \E f \in Files : Write(f)
  \/ PassStep \/ AnswerLost \/ Fails

InTime == spent < PushTimeout

\* Time passes, the pusher's goroutine runs, and the deadline ends a pass.
Fairness ==
  /\ WF_vars(Tick)
  /\ WF_vars(PassStep)
  /\ WF_vars(~InTime /\ Fails)

Spec == Init /\ [][Next]_vars
FairSpec == Spec /\ Fairness

--------------------------------------------------------------------------------
(* Properties.                                                             *)

Archive == [Files -> Content]

\* The variables keep to their kinds: what has been read is of each file what it
\* may hold, a complete reading is needed to decide, to send and to record, and no
\* time runs past its bound.
TypeOK ==
  /\ disk \in [Files -> Content] /\ \A f \in Files : disk[f] \in Contents[f]
  /\ writes \in 0 .. MaxWrites
  /\ cfg \in Contents[Config] \ {Absent}
  /\ at \in {"down", "off", "asleep", "probing", "deciding", "building", "packing",
             "pushing", "recording"}
  /\ at \in {"deciding", "packing", "pushing", "recording"} => AllRead
  /\ wait \in 0 .. Delay /\ (wait > 0 => at = "asleep")
  /\ spent \in 0 .. PushTimeout /\ (spent > 0 => InPass)
  /\ DOMAIN read \subseteq Files /\ \A f \in DOMAIN read : read[f] \in Contents[f]
  /\ last \in Archive \cup {Nothing}
  /\ age \in 0 .. Old
  /\ \A k \in kept : k.files \in Archive
  /\ seen \in [Files -> SUBSET Content]
  /\ calm \in BOOLEAN

\* The pusher implements BackupStore: what it has recorded as sent was accepted, no
\* matter what failed or ended where, and each file of an archive is one that the
\* disk has held since the archive was begun, while the handlers were writing.
Promise == INSTANCE BackupStore
             WITH File <- Files, Nobody <- Nothing, known <- last,
                  kept <- {k.files : k \in kept}
KeepsPromise == Promise!StoreSpec

\* While nothing fails, mode "all" never lets the last copy grow older than its
\* period, the pass that came just too early, the delay after it and the pass that
\* sends: "at least every 30 minutes", give or take those.
Floor ==
  (calm /\ Settings[cfg].mode = "all") => age < Old

\* Once the files rest, the daemon stays up and passes fail no more, the state of
\* the files gets recorded as sent and stays so: no change is overlooked because it
\* came between the probe and the archive, or because an earlier try failed.
Copied ==
  (<>[](at \notin {"down", "off"}) /\ <>[][~(Fails \/ AnswerLost)]_vars)
    => <>[](last = disk)

================================================================================
