--------------------------- MODULE Supervisor_proofs ---------------------------
(***************************************************************************)
(* The supervisor is correct for any configs and any backoff bounds.       *)
(*                                                                         *)
(* What Stop and Reload may conclude from s.cmd and s.exited depends on    *)
(* where supervise stands and on what has become of the process; HandleInv *)
(* relates the three.  With it the properties of Supervisor are inductive. *)
(***************************************************************************)
EXTENDS Supervisor, TLAPS

\* s.cmd, s.exited and the process at each place of supervise.
HandleInv ==
  /\ sup = "waiting" =>
       cmd = "child" /\ ~exited /\ proc \in Alive \cup {"zombie"} /\ main # "starting"
  /\ sup = "reaped" => cmd = "child" /\ ~exited /\ proc = "reaped" /\ main # "starting"
  /\ sup = "spawned" =>
       /\ cmd # "child" /\ proc \in Alive \cup {"zombie"}
       /\ main # "starting" => exited
  /\ sup = "spawning" => proc = IF main = "starting" THEN "none" ELSE "reaped"
  /\ sup \in {"spawning", "backoff"} /\ main # "starting" => exited
  /\ sup = "backoff" => proc = "reaped" /\ main # "starting"
  /\ sup = "done" =>
       \/ exited /\ proc = "reaped" /\ main # "starting"
       \/ cmd = "nil" /\ proc = "none" /\ main \in {"failed", "exited"} /\ stopped = "no"

\* Where serve stands.
ServeInv ==
  /\ main = "starting" => cmd = "nil" /\ ~exited
  /\ main = "failed" => sup = "done" /\ cmd = "nil" /\ proc = "none"
  /\ stopped # "no" => main \in {"returned", "exited"}

IInv ==
  /\ TypeOK
  /\ HandleInv
  /\ ServeInv
  /\ ServesInstalled
  /\ CleanStop

--------------------------------------------------------------------------------

LEMMA InitIInv == Init => IInv
<1>. SUFFICES ASSUME Init PROVE IInv
  OBVIOUS
<1>1. TypeOK
  <2>1. ProcTypeOK
    BY DEF Init, ProcTypeOK
  <2>2. SupTypeOK
    <3>1. backoff \in MinBackoff .. MaxBackoff
      BY SupervisorAssumption DEF Init
    <3>2. /\ cmd \in Handles
          /\ exited \in BOOLEAN
          /\ sup \in {"spawning", "spawned", "waiting", "reaped", "backoff", "done"}
      BY DEF Init, Handles
    <3>. QED
      BY <3>1, <3>2 DEF SupTypeOK
  <2>3. MainTypeOK
    BY DEF Init, MainTypeOK, Handles
  <2>. QED
    BY <2>1, <2>2, <2>3 DEF TypeOK
<1>2. HandleInv /\ ServeInv
  BY DEF Init, HandleInv, ServeInv
<1>3. ServesInstalled /\ CleanStop
  BY DEF Init, ServesInstalled, CleanStop
<1>. QED
  BY <1>1, <1>2, <1>3 DEF IInv

\* The steps of sing-box.
LEMMA ChildIInv == ASSUME IInv, ChildStep PROVE IInv'
<1>. USE DEF IInv, TypeOK, procVars, supVars, mainVars, reloadVars
<1>1. CASE ChildNotify
  <2>. USE <1>1 DEF ChildNotify
  <2>1. ProcTypeOK'
    BY DEF ProcTypeOK, Alive
  <2>2. SupTypeOK'
    BY DEF SupTypeOK, Handles
  <2>3. MainTypeOK'
    BY DEF MainTypeOK, Handles, Stopping
  <2>4. HandleInv'
    BY DEF HandleInv, ServeInv, Alive, Stopping
  <2>5. ServeInv' /\ CleanStop'
    BY DEF ServeInv, HandleInv, CleanStop, Alive, Stopping
  <2>6. ServesInstalled'
    BY DEF ServesInstalled, HandleInv, Alive
  <2>. QED
    BY <2>1, <2>2, <2>3, <2>4, <2>5, <2>6
<1>2. CASE ChildLoad
  <2>. USE <1>2 DEF ChildLoad
  <2>1. ProcTypeOK'
    BY DEF ProcTypeOK, Alive
  <2>2. SupTypeOK'
    BY DEF SupTypeOK, Handles
  <2>3. MainTypeOK'
    BY DEF MainTypeOK, Handles, Stopping
  <2>4. HandleInv'
    BY DEF HandleInv, ServeInv, Alive, Stopping
  <2>5. ServeInv' /\ CleanStop'
    BY DEF ServeInv, HandleInv, CleanStop, Alive, Stopping
  <2>6. ServesInstalled'
    BY DEF ServesInstalled, HandleInv, Alive
  <2>. QED
    BY <2>1, <2>2, <2>3, <2>4, <2>5, <2>6
<1>3. CASE ChildReload
  <2>. USE <1>3 DEF ChildReload
  <2>1. ProcTypeOK'
    BY DEF ProcTypeOK, Alive
  <2>2. SupTypeOK'
    BY DEF SupTypeOK, Handles
  <2>3. MainTypeOK'
    BY DEF MainTypeOK, Handles, Stopping
  <2>4. HandleInv'
    BY DEF HandleInv, ServeInv, Alive, Stopping
  <2>5. ServeInv' /\ CleanStop'
    BY DEF ServeInv, HandleInv, CleanStop, Alive, Stopping
  <2>6. ServesInstalled'
    BY DEF ServesInstalled, HandleInv, Alive
  <2>. QED
    BY <2>1, <2>2, <2>3, <2>4, <2>5, <2>6
<1>4. CASE ChildExit
  <2>. USE <1>4 DEF ChildExit
  <2>1. ProcTypeOK'
    BY DEF ProcTypeOK, Alive
  <2>2. SupTypeOK'
    BY DEF SupTypeOK, Handles
  <2>3. MainTypeOK'
    BY DEF MainTypeOK, Handles, Stopping
  <2>4. HandleInv'
    BY DEF HandleInv, ServeInv, Alive, Stopping
  <2>5. ServeInv' /\ CleanStop'
    BY DEF ServeInv, HandleInv, CleanStop, Alive, Stopping
  <2>6. ServesInstalled'
    BY DEF ServesInstalled, HandleInv, Alive
  <2>. QED
    BY <2>1, <2>2, <2>3, <2>4, <2>5, <2>6
<1>. QED
  BY <1>1, <1>2, <1>3, <1>4 DEF ChildStep, SuperviseStep, ReloadStep, StopStep

\* The steps of supervise.
LEMMA SuperviseIInv == ASSUME IInv, SuperviseStep PROVE IInv'
<1>. USE DEF IInv, TypeOK, procVars, supVars, mainVars, reloadVars
<1>1. CASE Wait
  <2>. USE <1>1 DEF Wait
  <2>1. ProcTypeOK'
    BY DEF ProcTypeOK, Alive
  <2>2. SupTypeOK'
    BY DEF SupTypeOK, Handles
  <2>3. MainTypeOK'
    BY DEF MainTypeOK, Handles, Stopping
  <2>4. HandleInv'
    BY DEF HandleInv, ServeInv, Alive, Stopping
  <2>5. ServeInv' /\ CleanStop'
    BY DEF ServeInv, HandleInv, CleanStop, Alive, Stopping
  <2>6. ServesInstalled'
    BY DEF ServesInstalled, HandleInv, Alive
  <2>. QED
    BY <2>1, <2>2, <2>3, <2>4, <2>5, <2>6
<1>2. CASE NoteExit
  <2>. USE <1>2 DEF NoteExit
  <2>1. ProcTypeOK'
    BY DEF ProcTypeOK, Alive
  <2>2. SupTypeOK'
    BY SupervisorAssumption DEF SupTypeOK, Handles
  <2>3. MainTypeOK'
    BY DEF MainTypeOK, Handles, Stopping
  <2>4. HandleInv'
    BY DEF HandleInv, ServeInv, Alive, Stopping
  <2>5. ServeInv' /\ CleanStop'
    BY DEF ServeInv, HandleInv, CleanStop, Alive, Stopping
  <2>6. ServesInstalled'
    BY DEF ServesInstalled, HandleInv, Alive
  <2>. QED
    BY <2>1, <2>2, <2>3, <2>4, <2>5, <2>6
<1>3. CASE BackoffCancelled
  <2>. USE <1>3 DEF BackoffCancelled
  <2>1. ProcTypeOK'
    BY DEF ProcTypeOK, Alive
  <2>2. SupTypeOK'
    BY DEF SupTypeOK, Handles
  <2>3. MainTypeOK'
    BY DEF MainTypeOK, Handles, Stopping
  <2>4. HandleInv'
    BY DEF HandleInv, ServeInv, Alive, Stopping
  <2>5. ServeInv' /\ CleanStop'
    BY DEF ServeInv, HandleInv, CleanStop, Alive, Stopping
  <2>6. ServesInstalled'
    BY DEF ServesInstalled, HandleInv, Alive
  <2>. QED
    BY <2>1, <2>2, <2>3, <2>4, <2>5, <2>6
<1>4. CASE BackoffExpires
  <2>. USE <1>4 DEF BackoffExpires
  <2>1. ProcTypeOK'
    BY DEF ProcTypeOK, Alive
  <2>2. SupTypeOK'
    BY SupervisorAssumption DEF SupTypeOK, Handles
  <2>3. MainTypeOK'
    BY DEF MainTypeOK, Handles, Stopping
  <2>4. HandleInv'
    BY DEF HandleInv, ServeInv, Alive, Stopping
  <2>5. ServeInv' /\ CleanStop'
    BY DEF ServeInv, HandleInv, CleanStop, Alive, Stopping
  <2>6. ServesInstalled'
    BY DEF ServesInstalled, HandleInv, Alive
  <2>. QED
    BY <2>1, <2>2, <2>3, <2>4, <2>5, <2>6
<1>5. CASE SpawnOk
  <2>. USE <1>5 DEF SpawnOk
  <2>1. ProcTypeOK'
    BY DEF ProcTypeOK, Alive
  <2>2. SupTypeOK'
    BY DEF SupTypeOK, Handles
  <2>3. MainTypeOK'
    BY DEF MainTypeOK, Handles, Stopping
  <2>4. HandleInv'
    BY DEF HandleInv, ServeInv, Alive, Stopping
  <2>5. ServeInv' /\ CleanStop'
    BY DEF ServeInv, HandleInv, CleanStop, Alive, Stopping
  <2>6. ServesInstalled'
    BY DEF ServesInstalled, HandleInv, Alive
  <2>. QED
    BY <2>1, <2>2, <2>3, <2>4, <2>5, <2>6
<1>6. CASE SpawnFails
  <2>. USE <1>6 DEF SpawnFails
  <2>1. ProcTypeOK'
    BY DEF ProcTypeOK, Alive
  <2>2. SupTypeOK'
    BY DEF SupTypeOK, Handles
  <2>3. MainTypeOK'
    BY DEF MainTypeOK, Handles, Stopping
  <2>4. HandleInv'
    BY DEF HandleInv, ServeInv, Alive, Stopping
  <2>5. ServeInv' /\ CleanStop'
    BY DEF ServeInv, HandleInv, CleanStop, Alive, Stopping
  <2>6. ServesInstalled'
    BY DEF ServesInstalled, HandleInv, Alive
  <2>. QED
    BY <2>1, <2>2, <2>3, <2>4, <2>5, <2>6
<1>7. CASE Record
  <2>. USE <1>7 DEF Record
  <2>1. ProcTypeOK'
    BY DEF ProcTypeOK, Alive
  <2>2. SupTypeOK'
    BY DEF SupTypeOK, Handles
  <2>3. MainTypeOK'
    BY DEF MainTypeOK, Handles, Stopping
  <2>4. HandleInv'
    BY DEF HandleInv, ServeInv, Alive, Stopping
  <2>5. ServeInv' /\ CleanStop'
    BY DEF ServeInv, HandleInv, CleanStop, Alive, Stopping
  <2>6. ServesInstalled'
    BY DEF ServesInstalled, HandleInv, Alive
  <2>. QED
    BY <2>1, <2>2, <2>3, <2>4, <2>5, <2>6
<1>. QED
  BY <1>1, <1>2, <1>3, <1>4, <1>5, <1>6, <1>7 DEF ChildStep, SuperviseStep, ReloadStep, StopStep

\* The manager's install and Reload.
LEMMA ReloadIInv == ASSUME IInv, Install \/ ReloadStep PROVE IInv'
<1>. USE DEF IInv, TypeOK, procVars, supVars, mainVars, reloadVars
<1>1. CASE Install
  <2>. USE <1>1 DEF Install
  <2>1. ProcTypeOK'
    BY DEF ProcTypeOK, Alive
  <2>2. SupTypeOK'
    BY DEF SupTypeOK, Handles
  <2>3. MainTypeOK'
    BY DEF MainTypeOK, Handles, Stopping
  <2>4. HandleInv'
    BY DEF HandleInv, ServeInv, Alive, Stopping
  <2>5. ServeInv' /\ CleanStop'
    BY DEF ServeInv, HandleInv, CleanStop, Alive, Stopping
  <2>6. ServesInstalled'
    BY DEF ServesInstalled, HandleInv, Alive
  <2>. QED
    BY <2>1, <2>2, <2>3, <2>4, <2>5, <2>6
<1>2. CASE ReloadFails
  <2>. USE <1>2 DEF ReloadFails, PassedOver
  <2>1. ProcTypeOK'
    BY DEF ProcTypeOK, Alive
  <2>2. SupTypeOK'
    BY DEF SupTypeOK, Handles
  <2>3. MainTypeOK'
    BY DEF MainTypeOK, Handles, Stopping, ProcTypeOK, PassedOver
  <2>4. HandleInv'
    BY DEF HandleInv, ServeInv, Alive, Stopping
  <2>5. ServeInv' /\ CleanStop'
    BY DEF ServeInv, HandleInv, CleanStop, Alive, Stopping
  <2>6. ServesInstalled'
    BY DEF ServesInstalled, HandleInv, SupTypeOK, Alive
  <2>. QED
    BY <2>1, <2>2, <2>3, <2>4, <2>5, <2>6
<1>3. CASE ReloadSkips
  <2>. USE <1>3 DEF ReloadSkips, PassedOver
  <2>1. ProcTypeOK'
    BY DEF ProcTypeOK, Alive
  <2>2. SupTypeOK'
    BY DEF SupTypeOK, Handles
  <2>3. MainTypeOK'
    BY DEF MainTypeOK, Handles, Stopping, ProcTypeOK, PassedOver
  <2>4. HandleInv'
    BY DEF HandleInv, ServeInv, Alive, Stopping
  <2>5. ServeInv' /\ CleanStop'
    BY DEF ServeInv, HandleInv, CleanStop, Alive, Stopping
  <2>6. ServesInstalled'
    BY DEF ServesInstalled, HandleInv, SupTypeOK, Alive
  <2>. QED
    BY <2>1, <2>2, <2>3, <2>4, <2>5, <2>6
<1>4. CASE ReloadSignals
  <2>. USE <1>4 DEF ReloadSignals, Deliver
  <2>1. ProcTypeOK'
    BY DEF ProcTypeOK, Alive
  <2>2. SupTypeOK'
    BY DEF SupTypeOK, Handles
  <2>3. MainTypeOK'
    BY DEF MainTypeOK, Handles, Stopping
  <2>4. HandleInv'
    BY DEF HandleInv, ServeInv, Alive, Stopping
  <2>5. ServeInv' /\ CleanStop'
    BY DEF ServeInv, HandleInv, CleanStop, Alive, Stopping
  <2>6. ServesInstalled'
    BY DEF ServesInstalled, HandleInv, Alive
  <2>. QED
    BY <2>1, <2>2, <2>3, <2>4, <2>5, <2>6
<1>. QED
  BY <1>1, <1>2, <1>3, <1>4 DEF ChildStep, SuperviseStep, ReloadStep, StopStep

\* The steps of serve and Stop.
LEMMA StopIInv == ASSUME IInv, StartAborted \/ Signal \/ LeaveServe \/ StopStep PROVE IInv'
<1>. USE DEF IInv, TypeOK, procVars, supVars, mainVars, reloadVars
<1>1. CASE StartAborted
  <2>. USE <1>1 DEF StartAborted
  <2>1. ProcTypeOK'
    BY DEF ProcTypeOK, Alive
  <2>2. SupTypeOK'
    BY DEF SupTypeOK, Handles
  <2>3. MainTypeOK'
    BY DEF MainTypeOK, Handles, Stopping
  <2>4. HandleInv'
    BY DEF HandleInv, ServeInv, Alive, Stopping
  <2>5. ServeInv' /\ CleanStop'
    BY DEF ServeInv, HandleInv, CleanStop, Alive, Stopping
  <2>6. ServesInstalled'
    BY DEF ServesInstalled, HandleInv, Alive
  <2>. QED
    BY <2>1, <2>2, <2>3, <2>4, <2>5, <2>6
<1>2. CASE Signal
  <2>. USE <1>2 DEF Signal
  <2>1. ProcTypeOK'
    BY DEF ProcTypeOK, Alive
  <2>2. SupTypeOK'
    BY DEF SupTypeOK, Handles
  <2>3. MainTypeOK'
    BY DEF MainTypeOK, Handles, Stopping
  <2>4. HandleInv'
    BY DEF HandleInv, ServeInv, Alive, Stopping
  <2>5. ServeInv' /\ CleanStop'
    BY DEF ServeInv, HandleInv, CleanStop, Alive, Stopping
  <2>6. ServesInstalled'
    BY DEF ServesInstalled, HandleInv, Alive
  <2>. QED
    BY <2>1, <2>2, <2>3, <2>4, <2>5, <2>6
<1>3. CASE LeaveServe
  <2>. USE <1>3 DEF LeaveServe
  <2>1. ProcTypeOK'
    BY DEF ProcTypeOK, Alive
  <2>2. SupTypeOK'
    BY DEF SupTypeOK, Handles
  <2>3. MainTypeOK'
    BY DEF MainTypeOK, Handles, Stopping
  <2>4. HandleInv'
    BY DEF HandleInv, ServeInv, Alive, Stopping
  <2>5. ServeInv' /\ CleanStop'
    BY DEF ServeInv, HandleInv, CleanStop, Alive, Stopping
  <2>6. ServesInstalled'
    BY DEF ServesInstalled, HandleInv, Alive
  <2>. QED
    BY <2>1, <2>2, <2>3, <2>4, <2>5, <2>6
<1>4. CASE StopRead
  <2>. USE <1>4 DEF StopRead
  <2>1. ProcTypeOK'
    BY DEF ProcTypeOK, Alive
  <2>2. SupTypeOK'
    BY DEF SupTypeOK, Handles
  <2>3. MainTypeOK'
    BY DEF MainTypeOK, Handles, Stopping, SupTypeOK
  <2>4. HandleInv'
    BY DEF HandleInv, ServeInv, Alive, Stopping
  <2>5. ServeInv' /\ CleanStop'
    BY DEF ServeInv, HandleInv, CleanStop, Alive, Stopping
  <2>6. ServesInstalled'
    BY DEF ServesInstalled, HandleInv, Alive
  <2>. QED
    BY <2>1, <2>2, <2>3, <2>4, <2>5, <2>6
<1>5. CASE StopTerm
  <2>. USE <1>5 DEF StopTerm, Deliver
  <2>1. ProcTypeOK'
    BY DEF ProcTypeOK, Alive
  <2>2. SupTypeOK'
    BY DEF SupTypeOK, Handles
  <2>3. MainTypeOK'
    BY DEF MainTypeOK, Handles, Stopping
  <2>4. HandleInv'
    BY DEF HandleInv, ServeInv, Alive, Stopping
  <2>5. ServeInv' /\ CleanStop'
    BY DEF ServeInv, HandleInv, CleanStop, Alive, Stopping
  <2>6. ServesInstalled'
    BY DEF ServesInstalled, HandleInv, Alive
  <2>. QED
    BY <2>1, <2>2, <2>3, <2>4, <2>5, <2>6
<1>6. CASE StopKill
  <2>. USE <1>6 DEF StopKill
  <2>1. ProcTypeOK'
    BY DEF ProcTypeOK, Alive
  <2>2. SupTypeOK'
    BY DEF SupTypeOK, Handles
  <2>3. MainTypeOK'
    BY DEF MainTypeOK, Handles, Stopping
  <2>4. HandleInv'
    BY DEF HandleInv, ServeInv, Alive, Stopping
  <2>5. ServeInv' /\ CleanStop'
    BY DEF ServeInv, HandleInv, CleanStop, Alive, Stopping
  <2>6. ServesInstalled'
    BY DEF ServesInstalled, HandleInv, Alive
  <2>. QED
    BY <2>1, <2>2, <2>3, <2>4, <2>5, <2>6
<1>7. CASE StopDone
  <2>. USE <1>7 DEF StopDone
  <2>1. ProcTypeOK'
    BY DEF ProcTypeOK, Alive
  <2>2. SupTypeOK'
    BY DEF SupTypeOK, Handles
  <2>3. MainTypeOK'
    BY DEF MainTypeOK, Handles, Stopping
  <2>4. HandleInv'
    BY DEF HandleInv, ServeInv, Alive, Stopping
  <2>5. ServeInv' /\ CleanStop'
    BY DEF ServeInv, HandleInv, CleanStop, Alive, Stopping
  <2>6. ServesInstalled'
    BY DEF ServesInstalled, HandleInv, Alive
  <2>. QED
    BY <2>1, <2>2, <2>3, <2>4, <2>5, <2>6
<1>8. CASE Exit
  <2>. USE <1>8 DEF Exit
  <2>1. ProcTypeOK'
    BY DEF ProcTypeOK, Alive
  <2>2. SupTypeOK'
    BY DEF SupTypeOK, Handles
  <2>3. MainTypeOK'
    BY DEF MainTypeOK, Handles, Stopping
  <2>4. HandleInv'
    BY DEF HandleInv, ServeInv, Alive, Stopping
  <2>5. ServeInv' /\ CleanStop'
    BY DEF ServeInv, HandleInv, CleanStop, Alive, Stopping
  <2>6. ServesInstalled'
    BY DEF ServesInstalled, HandleInv, Alive
  <2>. QED
    BY <2>1, <2>2, <2>3, <2>4, <2>5, <2>6
<1>9. CASE StopRefused
  <2>. USE <1>9 DEF StopRefused
  <2>1. ProcTypeOK'
    BY DEF ProcTypeOK, Alive
  <2>2. SupTypeOK'
    BY DEF SupTypeOK, Handles
  <2>3. MainTypeOK'
    BY DEF MainTypeOK, Handles, Stopping
  <2>4. HandleInv'
    BY DEF HandleInv, ServeInv, Alive, Stopping
  <2>5. ServeInv' /\ CleanStop'
    BY DEF ServeInv, HandleInv, CleanStop, Alive, Stopping
  <2>6. ServesInstalled'
    BY DEF ServesInstalled, HandleInv, Alive
  <2>. QED
    BY <2>1, <2>2, <2>3, <2>4, <2>5, <2>6
<1>. QED
  BY <1>1, <1>2, <1>3, <1>4, <1>5, <1>6, <1>7, <1>8, <1>9 DEF ChildStep, SuperviseStep, ReloadStep, StopStep

LEMMA NextIInv == ASSUME IInv, [Next]_vars PROVE IInv'
<1>1. CASE UNCHANGED vars
  <2>. USE <1>1 DEF IInv, vars, procVars, supVars, mainVars, reloadVars
  <2>1. TypeOK'
    BY DEF TypeOK, ProcTypeOK, SupTypeOK, MainTypeOK
  <2>2. HandleInv' /\ ServeInv'
    BY DEF HandleInv, ServeInv
  <2>3. ServesInstalled' /\ CleanStop'
    BY DEF ServesInstalled, CleanStop
  <2>. QED
    BY <2>1, <2>2, <2>3
<1>. QED
  BY <1>1, ChildIInv, SuperviseIInv, ReloadIInv, StopIInv DEF Next, Ended

\* The inductive invariant holds in every reachable state.
THEOREM Invariance == Spec => []IInv
<1>1. IInv /\ [Next]_vars => IInv'
  BY NextIInv
<1>. QED
  BY InitIInv, <1>1, PTL DEF Spec

\* The variables of Supervisor keep their types, and the backoff its bounds.
THEOREM TypeCorrect == Spec => []TypeOK
<1>1. IInv => TypeOK
  BY DEF IInv
<1>. QED
  BY <1>1, Invariance, PTL

\* A sing-box with no signal waiting serves the installed config, but for the
\* process Reload passed over in the moment between its start and its record.
THEOREM ServingIsCurrent == Spec => []ServesInstalled
<1>1. IInv => ServesInstalled
  BY DEF IInv
<1>. QED
  BY <1>1, Invariance, PTL

\* What Running and PID report is the latest process.
THEOREM RunningIsRight == Spec => []RunningIsTheChild
<1>1. IInv => RunningIsTheChild
  BY DEF IInv, TypeOK, SupTypeOK, HandleInv, RunningIsTheChild
<1>. QED
  BY <1>1, Invariance, PTL

\* A Stop that waited leaves no sing-box and no supervise to start one.
THEOREM StopIsClean == Spec => []CleanStop
<1>1. IInv => CleanStop
  BY DEF IInv
<1>. QED
  BY <1>1, Invariance, PTL

\* Two sing-box processes never run at once.
THEOREM NeverTwo == Spec => OneAtATime
<1>1. IInv /\ [Next]_vars => [sup' = "spawned" /\ sup # "spawned" => proc \in {"none", "reaped"}]_vars
  <2>1. SUFFICES ASSUME IInv, Next, sup' = "spawned", sup # "spawned"
                 PROVE  proc \in {"none", "reaped"}
    BY DEF vars
  <2>2. CASE SuperviseStep
    BY <2>1, <2>2 DEF IInv, HandleInv, SuperviseStep, Wait, NoteExit, BackoffCancelled,
       BackoffExpires, SpawnOk, SpawnFails, Record
  <2>3. CASE ~SuperviseStep
    BY <2>1, <2>3 DEF Next, ChildStep, ChildNotify, ChildLoad, ChildReload, ChildExit,
       ReloadStep, Install, ReloadFails, ReloadSkips, ReloadSignals, StopStep, StartAborted,
       Signal, LeaveServe, StopRead, StopTerm, StopKill, StopRefused, StopDone, Exit, Ended,
       vars, procVars, supVars, mainVars
  <2>. QED
    BY <2>2, <2>3
<1>. QED
  BY <1>1, Invariance, PTL DEF Spec, OneAtATime

================================================================================
