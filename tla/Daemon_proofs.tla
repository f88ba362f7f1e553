------------------------------ MODULE Daemon_proofs ----------------------------
(***************************************************************************)
(* The daemon is correct end to end, for any calls, changes and backoff    *)
(* bounds.                                                                 *)
(*                                                                         *)
(* A step of the daemon is a step of the reload loop or leaves it alone,   *)
(* so the loop's invariant holds in it.  It is a step of the supervisor as *)
(* well, with one exception: the first config is installed before there is *)
(* a sing-box to tell of it.  Link says that there is none; with it the    *)
(* supervisor's invariant holds too, and from the two follows what was     *)
(* confirmed to a caller.                                                  *)
(***************************************************************************)
EXTENDS Daemon, TLAPS

MP == INSTANCE Manager_proofs
SP == INSTANCE Supervisor_proofs WITH disk <- installed,
                                      owed <- loop = "signalling",
                                      Config <- SUBSET (Calls \cup Offline)

\* There is a sing-box only once Start has installed its config.
Link == proc # "none" => loop = "launching" \/ started

\* What was confirmed is served; while the loop is about to call Reload the config in
\* place may be newer than that.
Kept ==
  Serving /\ ~missed =>
    \A c \in Calls : "ok" \in {done[c], result[c]} => need[c] \subseteq cfg

DInv ==
  /\ MP!IInv
  /\ SP!IInv
  /\ Link
  /\ Kept
  /\ NeverStale

--------------------------------------------------------------------------------

LEMMA Assumptions == MP!ManagerAssumption /\ SP!SupervisorAssumption
BY DaemonAssumption DEF MP!ManagerAssumption, SP!SupervisorAssumption

LEMMA InitDInv == Init => DInv
<1>. SUFFICES ASSUME Init PROVE DInv
  OBVIOUS
<1>1. MP!Init
  BY DEF Init, M!Init, MP!Init
<1>2. MP!IInv
  BY <1>1, MP!InitIInv, Assumptions
<1>3. SP!Init
  BY DEF Init, M!Init, SP!Init
<1>4. SP!IInv
  BY <1>3, SP!InitIInv, Assumptions
<1>5. Link /\ Kept /\ NeverStale
  BY DEF Init, Link, Kept, Serving, NeverStale
<1>. QED
  BY <1>2, <1>4, <1>5 DEF DInv

(* Every step of the daemon is one of the reload loop, or leaves it alone. *)

LEMMA ManagerStep == ASSUME [Next]_vars PROVE [MP!Next]_(MP!vars)
<1>. USE DEF vars, mgrOnly, MP!vars, MP!Next
<1>1. CASE CallAlone
  <2>. PICK c \in Calls : M!Save(c) \/ M!Ask(c) \/ M!Enter(c) \/ M!Withdraw(c) \/ M!Receive(c)
    BY <1>1 DEF CallAlone
  <2>. USE DEF M!loopVars, MP!loopVars
  <2>1. CASE M!Save(c)
    BY <2>1 DEF M!Save, MP!Save
  <2>2. CASE M!Ask(c)
    BY <2>2 DEF M!Ask, MP!Ask
  <2>3. CASE M!Enter(c)
    BY <2>3 DEF M!Enter, MP!Enter
  <2>4. CASE M!Withdraw(c)
    BY <2>4 DEF M!Withdraw, MP!Withdraw
  <2>5. CASE M!Receive(c)
    BY <2>5 DEF M!Receive, MP!Receive
  <2>. QED
    BY <2>1, <2>2, <2>3, <2>4, <2>5
<1>2. CASE LoopAlone
  <2>. USE DEF MP!LoopStep, M!callVars, MP!callVars
  <2>1. CASE M!CloseWindow \/ M!Exit \/ M!ExitWindow
    BY <2>1 DEF M!CloseWindow, MP!CloseWindow, M!Exit, MP!Exit, M!ExitWindow, MP!ExitWindow
  <2>2. CASE M!ReadUsers \/ M!Install \/ M!Answer
    BY <2>2 DEF M!ReadUsers, MP!ReadUsers, M!Install, MP!Install, M!Answer, MP!Answer
  <2>3. CASE M!RenderFails
    BY <2>3 DEF M!RenderFails, MP!RenderFails
  <2>4. ASSUME NEW c \in Calls, M!Accept(c) PROVE MP!Next
    BY <2>4 DEF M!Accept, MP!Accept
  <2>. QED
    BY <1>2, <2>1, <2>2, <2>3, <2>4 DEF LoopAlone
<1>3. CASE ChildAlone \/ SuperviseAlone \/ StopAlone \/ StartSpawns
  BY <1>3 DEF ChildAlone, SuperviseAlone, StopAlone, StartSpawns
<1>4. CASE StartEnds \/ StartFails
  BY <1>4 DEF StartEnds, StartFails, MP!LoopStep, M!callVars, MP!callVars, M!Launch, MP!Launch,
              M!RenderFails, MP!RenderFails, M!LaunchFails, MP!LaunchFails
<1>5. CASE Signal
  BY <1>5 DEF Signal, MP!LoopStep, M!callVars, MP!callVars, M!SignalOk, MP!SignalOk,
              M!SignalFails, MP!SignalFails
<1>6. CASE Cancel
  BY <1>6 DEF Cancel, M!Cancel, MP!Cancel, M!callVars, MP!callVars, M!loopVars, MP!loopVars
<1>7. CASE Exit
  BY <1>7 DEF Exit, S!Exit, MP!Cancel, MP!callVars, MP!loopVars
<1>8. CASE Ended \/ UNCHANGED vars
  BY <1>8 DEF Ended
<1>. QED
  BY <1>1, <1>2, <1>3, <1>4, <1>5, <1>6, <1>7, <1>8 DEF Next

LEMMA ManagerIInv == ASSUME MP!IInv, [Next]_vars PROVE MP!IInv'
BY ManagerStep, MP!NextIInv, Assumptions

(* And one of the supervisor, but for the install of the first config.     *)

\* A step of the loop or of a call that calls the supervisor with nothing.
LEMMA SupervisorStutter ==
  ASSUME SP!IInv, UNCHANGED <<installed, supOnly, ctxDone>>,
         loop' = "signalling" <=> loop = "signalling"
  PROVE  SP!IInv'
<1>1. UNCHANGED SP!vars
  BY DEF supOnly, SP!vars, SP!procVars, SP!supVars, SP!mainVars, SP!reloadVars
<1>. QED
  BY <1>1, SP!NextIInv, Assumptions

LEMMA InstallIInv ==
  ASSUME MP!IInv', SP!IInv, Link, M!Install, UNCHANGED supOnly
  PROVE  SP!IInv'
<1>. USE DEF SP!IInv, M!Install, supOnly
<1>1. SP!TypeOK'
  <2>1. installed' \in SUBSET (Calls \cup Offline)
    BY DEF MP!IInv, MP!TypeOK, MP!Changes
  <2>. QED
    BY <2>1 DEF SP!TypeOK, SP!ProcTypeOK, SP!SupTypeOK, SP!MainTypeOK
<1>2. SP!HandleInv' /\ SP!ServeInv' /\ SP!CleanStop'
  BY DEF SP!HandleInv, SP!ServeInv, SP!CleanStop
<1>3. SP!ServesInstalled'
  BY DEF SP!ServesInstalled, Link
<1>. QED
  BY <1>1, <1>2, <1>3

LEMMA SupervisorIInv == ASSUME DInv, MP!IInv', [Next]_vars PROVE SP!IInv'
<1>. USE DEF DInv
<1>1. CASE CallAlone
  <2>1. UNCHANGED <<installed, supOnly, ctxDone, loop>>
    BY <1>1 DEF CallAlone, M!Save, M!Ask, M!Enter, M!Withdraw, M!Receive, M!loopVars
  <2>. QED
    BY <2>1, SupervisorStutter
<1>2. CASE LoopAlone
  <2>1. CASE M!Install
    BY <1>2, <2>1, InstallIInv DEF LoopAlone
  <2>2. CASE ~M!Install
    <3>1. UNCHANGED <<installed, supOnly, ctxDone>> /\ "signalling" \notin {loop, loop'}
      BY <1>2, <2>2 DEF LoopAlone, M!CloseWindow, M!Exit, M!ExitWindow, M!ReadUsers, M!Answer,
                        M!RenderFails, M!Accept
    <3>. QED
      BY <3>1, SupervisorStutter
  <2>. QED
    BY <2>1, <2>2
<1>3. CASE ChildAlone
  <2>1. SP!ChildStep
    BY <1>3 DEF ChildAlone, S!ChildStep, SP!ChildStep, S!ChildNotify, SP!ChildNotify,
                S!ChildLoad, SP!ChildLoad, S!ChildReload, SP!ChildReload,
                S!ChildExit, SP!ChildExit, S!Alive, SP!Alive,
                S!supVars, SP!supVars, S!mainVars, SP!mainVars, S!reloadVars, SP!reloadVars
  <2>. QED
    BY <2>1, SP!ChildIInv, Assumptions
<1>4. CASE SuperviseAlone
  <2>1. SP!SuperviseStep
    BY <1>4 DEF SuperviseAlone, S!SuperviseStep, SP!SuperviseStep, S!Runs, SP!Runs,
                S!Wait, SP!Wait, S!NoteExit, SP!NoteExit,
                S!BackoffCancelled, SP!BackoffCancelled, S!BackoffExpires, SP!BackoffExpires,
                S!SpawnOk, SP!SpawnOk, S!SpawnFails, SP!SpawnFails, S!Record, SP!Record,
                S!procVars, SP!procVars, S!mainVars, SP!mainVars, S!reloadVars, SP!reloadVars
  <2>. QED
    BY <2>1, SP!SuperviseIInv, Assumptions
<1>5. CASE StopAlone \/ Exit
  <2>1. SP!LeaveServe \/ SP!StopStep
    BY <1>5 DEF StopAlone, Exit, SP!StopStep, S!LeaveServe, SP!LeaveServe, S!StopRead, SP!StopRead,
                S!StopTerm, SP!StopTerm, S!StopKill, SP!StopKill,
                S!StopRefused, SP!StopRefused, S!StopDone, SP!StopDone,
                S!Exit, SP!Exit, S!Deliver, SP!Deliver, S!Alive, SP!Alive,
                S!procVars, SP!procVars, S!supVars, SP!supVars, S!reloadVars, SP!reloadVars
  <2>. QED
    BY <2>1, SP!StopIInv, Assumptions
<1>6. CASE StartSpawns \/ StartEnds
  <2>1. SP!SuperviseStep
    BY <1>6 DEF StartSpawns, StartEnds, SP!SuperviseStep, S!Runs, SP!Runs,
                S!SpawnOk, SP!SpawnOk, S!Record, SP!Record,
                S!procVars, SP!procVars, S!reloadVars, SP!reloadVars
  <2>. QED
    BY <2>1, SP!SuperviseIInv, Assumptions
<1>7. CASE StartFails
  <2>1. SP!StartAborted \/ SP!SuperviseStep
    BY <1>7 DEF StartFails, SP!SuperviseStep, S!Runs, SP!Runs,
                S!StartAborted, SP!StartAborted, S!SpawnFails, SP!SpawnFails,
                S!procVars, SP!procVars, S!reloadVars, SP!reloadVars
  <2>. QED
    BY <2>1, SP!StopIInv, SP!SuperviseIInv, Assumptions
<1>8. CASE Signal
  <2>1. SP!ReloadStep
    BY <1>8 DEF Signal, SP!ReloadStep, S!Runs, SP!Runs, S!PassedOver, SP!PassedOver,
                S!ReloadFails, SP!ReloadFails, S!ReloadSkips, SP!ReloadSkips,
                S!ReloadSignals, SP!ReloadSignals, S!Deliver, SP!Deliver,
                S!procVars, SP!procVars, S!supVars, SP!supVars, S!mainVars, SP!mainVars
  <2>. QED
    BY <2>1, SP!ReloadIInv, Assumptions
<1>9. CASE Cancel
  <2>1. SP!Signal
    BY <1>9 DEF Cancel, M!Cancel, M!loopVars, S!Runs, SP!Runs, SP!Signal, supOnly,
                SP!procVars, SP!supVars, SP!mainVars, SP!reloadVars
  <2>. QED
    BY <2>1, SP!StopIInv, Assumptions
<1>10. CASE Ended \/ UNCHANGED vars
  <2>1. UNCHANGED <<installed, supOnly, ctxDone, loop>>
    BY <1>10 DEF Ended, vars, mgrOnly
  <2>. QED
    BY <2>1, SupervisorStutter
<1>. QED
  BY <1>1, <1>2, <1>3, <1>4, <1>5, <1>6, <1>7, <1>8, <1>9, <1>10 DEF Next

--------------------------------------------------------------------------------
(* What only the two together keep.                                        *)

\* sing-box is started by Start, after the install, and later only by supervise.
LEMMA LinkKept == ASSUME DInv, [Next]_vars PROVE Link'
<1>. USE DEF DInv, Link
<1>1. CASE CallAlone
  BY <1>1 DEF CallAlone, supOnly, M!Save, M!Ask, M!Enter, M!Withdraw, M!Receive, M!loopVars
<1>2. CASE LoopAlone
  BY <1>2 DEF LoopAlone, supOnly, M!CloseWindow, M!Exit, M!ExitWindow, M!ReadUsers, M!Install,
              M!Answer, M!RenderFails, M!Accept
<1>3. CASE ChildAlone
  BY <1>3 DEF ChildAlone, mgrOnly, S!ChildStep, S!ChildNotify, S!ChildLoad, S!ChildReload,
              S!ChildExit, S!Alive
<1>4. CASE SuperviseAlone
  <2>1. sup = "spawning" => proc # "none"
    BY <1>4 DEF SuperviseAlone, SP!IInv, SP!HandleInv
  <2>. QED
    BY <1>4, <2>1 DEF SuperviseAlone, mgrOnly, S!SuperviseStep, S!procVars, S!Wait, S!NoteExit,
       S!BackoffCancelled, S!BackoffExpires, S!SpawnOk, S!SpawnFails, S!Record
<1>5. CASE StopAlone \/ Exit
  BY <1>5 DEF StopAlone, Exit, mgrOnly, S!procVars, S!LeaveServe, S!StopRead, S!StopTerm,
              S!StopKill, S!StopRefused, S!StopDone, S!Exit, S!Deliver, S!Alive
<1>6. CASE StartSpawns \/ StartEnds
  BY <1>6 DEF StartSpawns, StartEnds, mgrOnly, M!Launch, S!SpawnOk, S!Record, S!procVars
<1>7. CASE StartFails
  <2>1. sup = "spawning" => proc = "none"
    BY <1>7 DEF StartFails, SP!IInv, SP!HandleInv
  <2>. QED
    BY <1>7, <2>1 DEF StartFails, M!RenderFails, M!LaunchFails, S!StartAborted, S!SpawnFails,
       S!procVars
<1>8. CASE Signal
  BY <1>8 DEF Signal, M!SignalOk, M!SignalFails, S!ReloadFails, S!ReloadSkips, S!ReloadSignals,
              S!Deliver, S!procVars
<1>9. CASE Cancel \/ Ended \/ UNCHANGED vars
  BY <1>9 DEF Cancel, M!Cancel, M!loopVars, supOnly, Ended, vars, mgrOnly
<1>. QED
  BY <1>1, <1>2, <1>3, <1>4, <1>5, <1>6, <1>7, <1>8, <1>9 DEF Next

\* cfg changes when sing-box is started, which has read nothing then, and when it loads.
LEMMA Loads ==
  ASSUME [Next]_vars, cfg' # cfg
  PROVE  \/ cfg' = NoConfig /\ proc' = "booting"
         \/ ChildAlone /\ proc = "loading" /\ proc' = "serving" /\ cfg' = installed
<1>1. CASE ChildAlone
  BY <1>1 DEF ChildAlone, S!ChildStep, S!ChildNotify, S!ChildLoad, S!ChildReload, S!ChildExit
<1>2. CASE SuperviseAlone \/ StartSpawns \/ StartEnds \/ StartFails
  BY <1>2 DEF SuperviseAlone, StartSpawns, StartEnds, StartFails, S!SuperviseStep, S!procVars,
     S!Wait, S!NoteExit, S!BackoffCancelled, S!BackoffExpires, S!SpawnOk, S!SpawnFails, S!Record,
     S!StartAborted
<1>3. CASE StopAlone \/ Exit
  BY <1>3 DEF StopAlone, Exit, S!procVars, S!LeaveServe, S!StopRead, S!StopTerm, S!StopKill,
     S!StopRefused, S!StopDone, S!Exit
<1>4. CASE Signal
  BY <1>4 DEF Signal, S!ReloadFails, S!ReloadSkips, S!ReloadSignals, S!procVars
<1>5. CASE CallAlone \/ LoopAlone \/ Cancel \/ Ended \/ UNCHANGED vars
  BY <1>5 DEF CallAlone, LoopAlone, Cancel, Ended, supOnly, vars
<1>. QED
  BY <1>1, <1>2, <1>3, <1>4, <1>5 DEF Next

LEMMA StaleKept == ASSUME DInv, [Next]_vars PROVE NeverStale'
<1>1. CASE cfg' # cfg
  <2>1. proc = "loading" => Offline \subseteq installed
    BY DEF DInv, Link, MP!IInv, MP!PlaceInv, MP!CurrentAtStart
  <2>. QED
    BY <1>1, <2>1, Loads DEF NeverStale
<1>2. CASE cfg' = cfg
  BY <1>2 DEF DInv, NeverStale
<1>. QED
  BY <1>1, <1>2

\* A sing-box that comes to serve with no signal waiting, or whose being passed over is
\* made good, has just loaded; but for Reload, which leaves "signalling".
LEMMA ServingBegins ==
  ASSUME DInv, [Next]_vars, Serving', ~missed', ~(Serving /\ ~missed), loop' = "signalling"
  PROVE  cfg' = installed /\ UNCHANGED <<installed, need, done, result>>
<1>. USE DEF Serving
<1>1. CASE ChildAlone
  BY <1>1 DEF ChildAlone, mgrOnly, S!ChildStep, S!ChildNotify, S!ChildLoad, S!ChildReload,
              S!ChildExit, S!reloadVars
<1>2. CASE SuperviseAlone \/ StartSpawns
  BY <1>2 DEF SuperviseAlone, StartSpawns, S!SuperviseStep, S!procVars, S!reloadVars,
     S!Wait, S!NoteExit, S!BackoffCancelled, S!BackoffExpires, S!SpawnOk, S!SpawnFails, S!Record
<1>3. CASE StopAlone \/ Exit
  BY <1>3 DEF StopAlone, Exit, S!procVars, S!reloadVars, S!LeaveServe, S!StopRead, S!StopTerm,
     S!StopKill, S!StopRefused, S!StopDone, S!Exit, S!Deliver
<1>4. CASE StartEnds \/ StartFails \/ Signal
  BY <1>4 DEF StartEnds, StartFails, Signal, M!Launch, M!RenderFails, M!LaunchFails,
     M!SignalOk, M!SignalFails
<1>5. CASE CallAlone \/ LoopAlone \/ Cancel \/ Ended \/ UNCHANGED vars
  BY <1>5 DEF CallAlone, LoopAlone, Cancel, Ended, supOnly, vars
<1>. QED
  BY <1>1, <1>2, <1>3, <1>4, <1>5 DEF Next

\* A call is answered "ok" by Answer only, and asks before it is answered.
LEMMA AnswersKept ==
  ASSUME DInv, [Next]_vars, loop' = "signalling",
         NEW c \in Calls, "ok" \in {done'[c], result'[c]}
  PROVE  "ok" \in {done[c], result[c]} /\ need'[c] = need[c]
<1>0. MP!TypeOK /\ (pc[c] = "idle" => done[c] = "none" /\ result[c] = "none")
  BY DEF DInv, MP!IInv, MP!PlaceInv, MP!TypeOK
<1>. USE <1>0 DEF MP!TypeOK
<1>1. CASE CallAlone
  <2>. PICK d \in Calls : M!Save(d) \/ M!Ask(d) \/ M!Enter(d) \/ M!Withdraw(d) \/ M!Receive(d)
    BY <1>1 DEF CallAlone
  <2>1. CASE M!Save(d)
    BY <2>1 DEF M!Save
  <2>2. CASE M!Ask(d)
    BY <2>2 DEF M!Ask
  <2>3. CASE M!Enter(d)
    BY <2>3 DEF M!Enter
  <2>4. CASE M!Withdraw(d)
    BY <2>4 DEF M!Withdraw
  <2>5. CASE M!Receive(d)
    BY <2>5 DEF M!Receive
  <2>. QED
    BY <2>1, <2>2, <2>3, <2>4, <2>5
<1>2. CASE LoopAlone
  BY <1>2 DEF LoopAlone, M!callVars, M!CloseWindow, M!Exit, M!ExitWindow, M!ReadUsers, M!Install,
              M!Answer, M!RenderFails, M!Accept
<1>3. CASE ChildAlone \/ SuperviseAlone \/ StopAlone \/ StartSpawns \/ Exit
  BY <1>3 DEF ChildAlone, SuperviseAlone, StopAlone, StartSpawns, Exit, mgrOnly
<1>4. CASE StartEnds \/ StartFails \/ Signal
  BY <1>4 DEF StartEnds, StartFails, Signal, M!Launch, M!RenderFails, M!LaunchFails,
     M!SignalOk, M!SignalFails
<1>5. CASE Cancel \/ Ended \/ UNCHANGED vars
  BY <1>5 DEF Cancel, M!Cancel, M!callVars, Ended, vars, mgrOnly
<1>. QED
  BY <1>1, <1>2, <1>3, <1>4, <1>5 DEF Next

LEMMA KeptKept == ASSUME DInv, MP!IInv', SP!IInv', [Next]_vars PROVE Kept'
<1>. SUFFICES ASSUME Serving', ~missed', NEW c \in Calls, "ok" \in {done'[c], result'[c]}
              PROVE  need'[c] \subseteq cfg'
  BY DEF Kept
<1>1. CASE loop' # "signalling"
  <2>1. cfg' = installed'
    BY <1>1 DEF SP!IInv, SP!ServesInstalled, Serving
  <2>. QED
    BY <2>1 DEF MP!IInv, MP!Committed
<1>2. CASE loop' = "signalling"
  <2>1. CASE Serving /\ ~missed
    <3>1. CASE cfg' = cfg
      BY <1>2, <2>1, <3>1, AnswersKept DEF DInv, Kept
    <3>2. CASE cfg' # cfg
      <4>1. cfg' = installed'
        BY <3>2, Loads DEF Serving, ChildAlone, mgrOnly
      <4>. QED
        BY <4>1 DEF MP!IInv, MP!Committed
    <3>. QED
      BY <3>1, <3>2
  <2>2. CASE ~(Serving /\ ~missed)
    BY <1>2, <2>2, ServingBegins DEF MP!IInv, MP!Committed
  <2>. QED
    BY <2>1, <2>2
<1>. QED
  BY <1>1, <1>2

--------------------------------------------------------------------------------

THEOREM Invariance == Spec => []DInv
<1>1. DInv /\ [Next]_vars => DInv'
  BY ManagerIInv, SupervisorIInv, LinkKept, KeptKept, StaleKept DEF DInv
<1>. QED
  BY <1>1, InitDInv, PTL DEF Spec

\* From the answer on, a sing-box that serves with no signal waiting serves what was
\* confirmed to the caller: for any number of calls, changes and restarts.
THEOREM ConfirmedIsReal == Spec => []ConfirmedIsServed
<1>1. DInv => ConfirmedIsServed
  BY DEF DInv, Kept, ConfirmedIsServed
<1>. QED
  BY <1>1, Invariance, PTL

\* No sing-box ever serves the config that an earlier run of the daemon left behind.
THEOREM NothingStale == Spec => []NeverStale
<1>1. DInv => NeverStale
  BY DEF DInv
<1>. QED
  BY <1>1, Invariance, PTL

\* The daemon as a whole implements the promise of its reload path.
THEOREM Refinement == Spec => MP!KeepsPromise
<1>1. Init => MP!Promise!PubInit
  <2>1. Init => MP!Init
    BY DEF Init, M!Init, MP!Init
  <2>. QED
    BY <2>1, MP!InitPromise, Assumptions
<1>2. DInv /\ [Next]_vars => [MP!Promise!PubNext]_(MP!Promise!pubVars)
  BY ManagerStep, MP!StepPromise, Assumptions DEF DInv
<1>. QED
  BY <1>1, <1>2, Invariance, PTL DEF Spec, MP!KeepsPromise, MP!Promise!PubSpec

================================================================================
