------------------------------ MODULE BackupStore ------------------------------
(***************************************************************************)
(* What automatic backups promise, with no pass, digest or clock in it.    *)
(*                                                                         *)
(* A deployment is a few files that change at any time.  Copies of it are  *)
(* kept by somebody else.  A copy holds each file as it was at some moment *)
(* since the copy was begun, though not all of one moment; and what the    *)
(* deployment believes to be kept is one of the copies that are.           *)
(***************************************************************************)

CONSTANTS File,      \* the files of a deployment
          Content,   \* what a file may hold, absence included
          Start,     \* Start[f]: what f holds at first
          Nobody     \* no copy

VARIABLES disk,   \* disk[f]: what f holds
          seen,   \* seen[f]: what f has held since a copy was begun
          kept,   \* the copies somebody else holds
          known   \* the copy the deployment believes is held, or Nobody

storeVars == <<disk, seen, kept, known>>

StoreInit ==
  /\ disk = Start
  /\ seen = [f \in File |-> {Start[f]}]
  /\ kept = {}
  /\ known = Nobody

Change ==
  /\ disk' \in [File -> Content]
  /\ seen' = [f \in File |-> seen[f] \cup {disk'[f]}]
  /\ UNCHANGED <<kept, known>>

BeginCopy ==
  /\ seen' = [f \in File |-> {disk[f]}]
  /\ UNCHANGED <<disk, kept, known>>

Keep ==
  /\ \E copy \in [File -> Content] :
       /\ \A f \in File : copy[f] \in seen[f]
       /\ kept' = kept \cup {copy}
  /\ UNCHANGED <<disk, seen, known>>

Learn ==
  /\ known' \in kept
  /\ UNCHANGED <<disk, seen, kept>>

StoreNext == Change \/ BeginCopy \/ Keep \/ Learn

StoreSpec == StoreInit /\ [][StoreNext]_storeVars

================================================================================
