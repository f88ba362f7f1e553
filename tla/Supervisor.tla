------------------------------- MODULE Supervisor ------------------------------
(***************************************************************************)
(* singbox.Supervisor: the goroutine that runs sing-box and restarts it,   *)
(* Reload and Stop called from other goroutines, and the end of serve      *)
(* (src/internal/singbox/supervise.go, src/internal/cli/serve.go).         *)
(*                                                                         *)
(* The sing-box process is external.  It starts with no handler for        *)
(* signals, so one that comes too early kills it; then it has a channel of *)
(* one signal, reads its config, serves, and on SIGHUP closes and reads    *)
(* the config again.  It can exit at any time.  A config is an opaque      *)
(* value, and only configs `sing-box check` accepted are ever installed.   *)
(*                                                                         *)
(* Only the latest process can be alive, so a handle (s.cmd, or the cmd    *)
(* Stop holds) is "child", the latest process, or "past", an earlier one.  *)
(***************************************************************************)
EXTENDS Integers

CONSTANTS Config,      \* what the config file can hold
          NoConfig,    \* loaded by a process that has not read it yet
          MinBackoff,  \* minBackoff and maxBackoff, in units of minBackoff
          MaxBackoff

ASSUME SupervisorAssumption ==
  /\ NoConfig \notin Config
  /\ MinBackoff \in Nat \ {0}
  /\ MaxBackoff \in Nat
  /\ MinBackoff <= MaxBackoff

VARIABLES
  disk,     \* the config at configPath
  proc,     \* the latest sing-box process
  cfg,      \* the config it serves
  sig,      \* the signal waiting in its channel
  cmd,      \* s.cmd
  exited,   \* s.exited
  sup,      \* where Start's spawn, then supervise, stands; "done": s.done closed
  backoff,  \* supervise's backoff
  main,     \* where serve stands
  target,   \* the cmd that Stop read
  ctxDone,  \* the context of Start is cancelled
  \* History, read by the properties only.
  owed,     \* the manager has installed a config and not called Reload yet
  answer,   \* what the last Reload returned
  missed,   \* that Reload left alone a process that serves an older config
  stopped   \* whether Stop waited for supervise

procVars == <<proc, cfg, sig>>
supVars == <<cmd, exited, sup, backoff>>
mainVars == <<main, target, stopped>>
reloadVars == <<owed, answer, missed>>
vars == <<disk, procVars, supVars, mainVars, ctxDone, reloadVars>>

Handles == {"nil", "past", "child"}
Alive == {"booting", "loading", "serving"}
Stopping == {"stopping", "terming", "awaiting", "killed"}

Init ==
  /\ disk \in Config
  /\ proc = "none" /\ cfg = NoConfig /\ sig = "none"
  /\ cmd = "nil" /\ exited = FALSE
  /\ sup = "spawning" /\ backoff = MinBackoff
  /\ main = "starting" /\ target = "nil" /\ stopped = "no"
  /\ ctxDone = FALSE
  /\ owed = FALSE /\ answer = "none" /\ missed = FALSE

--------------------------------------------------------------------------------
(* The sing-box process (external).                                        *)

\* sing-box has asked for SIGHUP and SIGTERM; from here on they are queued.
ChildNotify ==
  /\ proc = "booting"
  /\ proc' = "loading"
  /\ UNCHANGED <<disk, cfg, sig, supVars, mainVars, ctxDone, reloadVars>>

\* It reads the config and serves it.
ChildLoad ==
  /\ proc = "loading"
  /\ proc' = "serving"
  /\ cfg' = disk
  /\ missed' = FALSE
  /\ UNCHANGED <<disk, sig, supVars, mainVars, ctxDone, owed, answer>>

\* SIGHUP: the instance is closed and made again.
ChildReload ==
  /\ proc = "serving" /\ sig = "hup"
  /\ proc' = "loading"
  /\ sig' = "none"
  /\ UNCHANGED <<disk, cfg, supVars, mainVars, ctxDone, reloadVars>>

\* It exits: on SIGTERM, when it cannot serve its config, or by a crash.
ChildExit ==
  /\ proc \in Alive
  /\ proc' = "zombie"
  /\ UNCHANGED <<disk, cfg, sig, supVars, mainVars, ctxDone, reloadVars>>

\* What signal s does to the latest process: it kills one that has no handlers
\* yet, and is lost on one that has exited or has a signal waiting already.
Deliver(s) ==
  /\ proc' = IF proc = "booting" THEN "zombie" ELSE proc
  /\ sig' = IF proc \in {"loading", "serving"} /\ sig = "none" THEN s ELSE sig

--------------------------------------------------------------------------------
(* supervise.  None of it runs once the daemon's process has ended.        *)

Runs == main # "exited"

\* cmd.Start: the process exists, and s.cmd does not say so yet.
SpawnOk ==
  /\ Runs
  /\ sup = "spawning"
  /\ sup' = "spawned"
  /\ proc' = "booting" /\ cfg' = NoConfig /\ sig' = "none"
  /\ cmd' = IF cmd = "child" THEN "past" ELSE cmd
  /\ target' = IF target = "child" THEN "past" ELSE target
  /\ UNCHANGED <<disk, exited, backoff, main, stopped, ctxDone, reloadVars>>

\* Fault: supervise gives up when the binary cannot be started.
SpawnGivesUp ==
  /\ Runs
  /\ sup = "spawning"
  /\ sup' = "done" /\ cmd' = "nil" /\ exited' = TRUE
  /\ main' = IF main = "starting" THEN "failed" ELSE main
  /\ UNCHANGED <<disk, procVars, backoff, target, stopped, ctxDone, reloadVars>>

\* The binary cannot be started: Start returns the error, supervise retries.
SpawnFails ==
  /\ Runs
  /\ sup = "spawning"
  /\ IF main = "starting"
     THEN /\ main' = "failed" /\ sup' = "done"
          /\ UNCHANGED <<cmd, exited>>
     ELSE /\ cmd' = "nil" /\ exited' = TRUE
          /\ sup' = IF ctxDone THEN "done" ELSE "backoff"
          /\ UNCHANGED main
  /\ UNCHANGED <<disk, procVars, backoff, target, stopped, ctxDone, reloadVars>>

\* The first config does not render, so the manager never starts sing-box.
StartAborted ==
  /\ main = "starting" /\ sup = "spawning"
  /\ main' = "failed" /\ sup' = "done"
  /\ UNCHANGED <<disk, procVars, cmd, exited, backoff, target, stopped, ctxDone, reloadVars>>

\* Fault: the process is recorded and exited stays as it was.
RecordKeepsExited ==
  /\ Runs
  /\ sup = "spawned"
  /\ cmd' = "child" /\ sup' = "waiting"
  /\ main' = IF main = "starting" THEN "serving" ELSE main
  /\ UNCHANGED <<disk, procVars, exited, backoff, target, stopped, ctxDone, reloadVars>>

\* spawn takes the lock and records the process; Start then returns.
Record ==
  /\ Runs
  /\ sup = "spawned"
  /\ cmd' = "child" /\ exited' = FALSE /\ sup' = "waiting"
  /\ main' = IF main = "starting" THEN "serving" ELSE main
  /\ UNCHANGED <<disk, procVars, backoff, target, stopped, ctxDone, reloadVars>>

\* Fault: supervise does not wait for the process to be gone.
WaitNot ==
  /\ Runs
  /\ sup = "waiting"
  /\ sup' = "reaped"
  /\ proc' = IF proc = "zombie" THEN "reaped" ELSE proc
  /\ UNCHANGED <<disk, cfg, sig, cmd, exited, backoff, mainVars, ctxDone, reloadVars>>

\* cmd.Wait returns, and the process is reaped.
Wait ==
  /\ Runs
  /\ sup = "waiting" /\ proc = "zombie"
  /\ sup' = "reaped" /\ proc' = "reaped"
  /\ UNCHANGED <<disk, cfg, sig, cmd, exited, backoff, mainVars, ctxDone, reloadVars>>

\* Fault: the exit is not recorded.
NoteExitNot ==
  /\ Runs
  /\ sup = "reaped"
  /\ sup' = IF ctxDone THEN "done" ELSE "backoff"
  /\ backoff' \in IF ctxDone THEN {backoff} ELSE {backoff, MinBackoff}
  /\ UNCHANGED <<disk, procVars, cmd, exited, mainVars, ctxDone, reloadVars>>

\* The exit is recorded.  In a shutdown that is the end; otherwise a process
\* that stayed up for resetBackoffAfter is given the shortest backoff again.
NoteExit ==
  /\ Runs
  /\ sup = "reaped"
  /\ exited' = TRUE
  /\ sup' = IF ctxDone THEN "done" ELSE "backoff"
  /\ backoff' \in IF ctxDone THEN {backoff} ELSE {backoff, MinBackoff}
  /\ UNCHANGED <<disk, procVars, cmd, mainVars, ctxDone, reloadVars>>

BackoffCancelled ==
  /\ Runs
  /\ sup = "backoff" /\ ctxDone
  /\ sup' = "done"
  /\ UNCHANGED <<disk, procVars, cmd, exited, backoff, mainVars, ctxDone, reloadVars>>

\* Fault: the backoff is not capped.
BackoffUncapped ==
  /\ Runs
  /\ sup = "backoff"
  /\ sup' = "spawning"
  /\ backoff' = backoff * 2
  /\ UNCHANGED <<disk, procVars, cmd, exited, mainVars, ctxDone, reloadVars>>

\* The timer fires; select may prefer it to a context that is done as well.
BackoffExpires ==
  /\ Runs
  /\ sup = "backoff"
  /\ sup' = "spawning"
  /\ backoff' = IF backoff * 2 < MaxBackoff THEN backoff * 2 ELSE MaxBackoff
  /\ UNCHANGED <<disk, procVars, cmd, exited, mainVars, ctxDone, reloadVars>>

--------------------------------------------------------------------------------
(* Supervisor.Reload, called by the manager's loop after each new config.  *)

\* The manager replaces the config file.
Install ==
  /\ main \notin {"starting", "failed", "exited"}
  /\ ~owed
  /\ disk' \in Config \ {disk}
  /\ owed' = TRUE
  /\ UNCHANGED <<procVars, supVars, mainVars, ctxDone, answer, missed>>

\* A process that has read the config and is not recorded yet is passed over.
PassedOver == sup = "spawned" /\ proc = "serving" /\ cfg # disk

\* s.cmd is nil, or is a process that Wait has reaped under our hands.
ReloadFails ==
  /\ Runs /\ owed
  /\ \/ cmd = "nil"
     \/ ~exited /\ proc = "reaped"
  /\ owed' = FALSE /\ answer' = "error" /\ missed' = PassedOver
  /\ UNCHANGED <<disk, procVars, supVars, mainVars, ctxDone>>

\* The process has exited: the next one will read the new config.
ReloadSkips ==
  /\ Runs /\ owed
  /\ cmd # "nil" /\ exited
  /\ owed' = FALSE /\ answer' = "nil" /\ missed' = PassedOver
  /\ UNCHANGED <<disk, procVars, supVars, mainVars, ctxDone>>

\* Fault: Reload returns nil without a signal when a restart is recent.
ReloadWithoutSignal ==
  /\ Runs /\ owed
  /\ cmd # "nil" /\ ~exited /\ proc # "reaped"
  /\ owed' = FALSE /\ answer' = "nil" /\ missed' = FALSE
  /\ UNCHANGED <<disk, procVars, supVars, mainVars, ctxDone>>

\* SIGHUP.
ReloadSignals ==
  /\ Runs /\ owed
  /\ cmd # "nil" /\ ~exited /\ proc # "reaped"
  /\ Deliver("hup")
  /\ owed' = FALSE /\ answer' = "nil" /\ missed' = FALSE
  /\ UNCHANGED <<disk, cfg, supVars, mainVars, ctxDone>>

--------------------------------------------------------------------------------
(* The end of serve, and Supervisor.Stop.                                  *)

\* SIGTERM or SIGINT.
Signal ==
  /\ Runs /\ ~ctxDone
  /\ ctxDone' = TRUE
  /\ UNCHANGED <<disk, procVars, supVars, mainVars, reloadVars>>

\* serve returns: the context is done, or the API's listener failed, which
\* cancels nothing.  Its deferred Stop runs before its deferred cancel.
LeaveServe ==
  /\ main = "serving"
  /\ main' = "stopping"
  /\ UNCHANGED <<disk, procVars, supVars, target, stopped, ctxDone, reloadVars>>

\* Stop reads s.cmd and s.exited under the lock; with nothing to stop it returns.
StopRead ==
  /\ main = "stopping"
  /\ IF cmd = "nil" \/ exited
     THEN /\ main' = "returned" /\ stopped' = "skipped"
          /\ UNCHANGED target
     ELSE /\ main' = "terming" /\ target' = cmd
          /\ UNCHANGED stopped
  /\ UNCHANGED <<disk, procVars, supVars, ctxDone, reloadVars>>

\* SIGTERM; a process that is gone already is no error.
StopTerm ==
  /\ main = "terming"
  /\ main' = "awaiting"
  /\ IF target = "child" THEN Deliver("term") ELSE UNCHANGED <<proc, sig>>
  /\ UNCHANGED <<disk, cfg, supVars, target, stopped, ctxDone, reloadVars>>

\* Fault: after the grace period Stop goes on waiting and does not kill.
StopWaitsOn ==
  /\ main = "awaiting"
  /\ main' = "killed"
  /\ UNCHANGED <<disk, procVars, supVars, target, stopped, ctxDone, reloadVars>>

\* The grace period ends first.
StopKill ==
  /\ main = "awaiting"
  /\ main' = "killed"
  /\ proc' = IF target = "child" /\ proc \in Alive THEN "zombie" ELSE proc
  /\ UNCHANGED <<disk, cfg, sig, supVars, target, stopped, ctxDone, reloadVars>>

\* The kernel refuses SIGTERM, or SIGKILL when the grace period has ended, although the
\* process is there: Stop returns that error at once, and sing-box stays.
StopRefused ==
  /\ main \in {"terming", "awaiting"}
  /\ target = "child" /\ proc # "reaped"
  /\ main' = "returned" /\ stopped' = "refused"
  /\ UNCHANGED <<disk, procVars, supVars, target, ctxDone, reloadVars>>

\* Fault: Stop takes the signal it sent for the exit it asked for.
StopTrusts ==
  /\ main \in {"awaiting", "killed"}
  /\ main' = "returned" /\ stopped' = "waited"
  /\ UNCHANGED <<disk, procVars, supVars, target, ctxDone, reloadVars>>

\* s.done is closed.
StopDone ==
  /\ main \in {"awaiting", "killed"}
  /\ sup = "done"
  /\ main' = "returned" /\ stopped' = "waited"
  /\ UNCHANGED <<disk, procVars, supVars, target, ctxDone, reloadVars>>

\* The deferred cancel runs, and the process ends with all its goroutines.
Exit ==
  /\ main \in {"returned", "failed"}
  /\ main' = "exited"
  /\ ctxDone' = TRUE
  /\ UNCHANGED <<disk, procVars, supVars, target, stopped, reloadVars>>

\* The daemon has ended, and sing-box with it.
Ended ==
  /\ main = "exited"
  /\ proc \notin Alive
  /\ UNCHANGED vars

--------------------------------------------------------------------------------

ChildStep == ChildNotify \/ ChildLoad \/ ChildReload \/ ChildExit
SuperviseStep == Wait \/ NoteExit \/ BackoffCancelled \/ BackoffExpires
                 \/ SpawnOk \/ SpawnFails \/ Record
ReloadStep == ReloadFails \/ ReloadSkips \/ ReloadSignals
StopStep == StopRead \/ StopTerm \/ StopKill \/ StopRefused \/ StopDone \/ Exit

Next ==
  \/ ChildStep
  \/ SuperviseStep
  \/ Install \/ ReloadStep
  \/ StartAborted \/ Signal \/ LeaveServe \/ StopStep
  \/ Ended

\* supervise, Stop and the callers of Reload run; a grace period and a backoff
\* end; a binary that is retried for ever can sometimes be started, and a
\* sing-box that is restarted for ever sometimes gets as far as serving before
\* it exits again.  It may ignore SIGTERM.
Fairness ==
  /\ WF_vars(SuperviseStep)
  /\ SF_vars(SpawnOk)
  /\ SF_vars(ChildNotify) /\ SF_vars(ChildLoad) /\ SF_vars(ChildReload)
  /\ WF_vars(ReloadStep)
  /\ WF_vars(StopStep)

Spec == Init /\ [][Next]_vars /\ Fairness

--------------------------------------------------------------------------------
(* Properties.                                                             *)

ProcTypeOK ==
  /\ disk \in Config
  /\ proc \in {"none", "zombie", "reaped"} \cup Alive
  /\ cfg \in Config \cup {NoConfig}
  /\ sig \in {"none", "hup", "term"}

SupTypeOK ==
  /\ cmd \in Handles
  /\ exited \in BOOLEAN
  /\ sup \in {"spawning", "spawned", "waiting", "reaped", "backoff", "done"}
  /\ backoff \in MinBackoff .. MaxBackoff

MainTypeOK ==
  /\ main \in {"starting", "failed", "serving", "returned", "exited"} \cup Stopping
  /\ target \in Handles
  /\ stopped \in {"no", "skipped", "refused", "waited"}
  /\ ctxDone \in BOOLEAN
  /\ owed \in BOOLEAN /\ missed \in BOOLEAN
  /\ answer \in {"none", "nil", "error"}

\* Every variable holds a value of its kind; the backoff stays in its bounds.
TypeOK == ProcTypeOK /\ SupTypeOK /\ MainTypeOK

\* A sing-box that serves and has no signal waiting serves the installed config,
\* whenever it was started, reloaded or restarted, unless a Reload met it in the
\* moment between its start and its being recorded.
ServesInstalled ==
  proc = "serving" /\ sig = "none" /\ ~owed /\ ~missed => cfg = disk

\* What Running, PID and Reload take for the running process is the latest one,
\* and it is alive or its exit is just being noted: a signal never goes to an
\* earlier process, and a dead one is never taken for running for long.
RunningIsTheChild ==
  main # "starting" /\ cmd # "nil" /\ ~exited =>
    /\ cmd = "child"
    /\ sup \in {"waiting", "reaped"}

\* Two sing-box processes never run at once: one is started only when the one
\* before has been reaped.
OneAtATime ==
  [][sup' = "spawned" /\ sup # "spawned" => proc \in {"none", "reaped"}]_vars

\* When Stop waited, the daemon leaves no sing-box behind and none is restarted.
CleanStop == stopped = "waited" => sup = "done" /\ proc = "reaped"

\* Stop, called with the context already cancelled as it asks, returns and the
\* daemon ends, even when sing-box ignores SIGTERM.
OrderlyStopEnds == main = "stopping" /\ ctxDone ~> main = "exited"

\* A sing-box that exits while the daemon serves is started again.
Restarted ==
  proc = "zombie" /\ main = "serving" ~> proc = "booting" \/ main # "serving" \/ ctxDone

\* A config goes live: after a Reload that returned nil, sing-box comes to serve
\* what is installed, through crashes and failed restarts, while the manager
\* installs nothing newer and the daemon is not ending.
GoesLive ==
  answer = "nil" /\ ~owed ~> \/ proc = "serving" /\ cfg = disk
                             \/ owed \/ missed
                             \/ main # "serving" \/ ctxDone

\* What serve's deferred Stop relies on, and not so: Stop returns.
StopEnds == main \in Stopping ~> main = "exited"

================================================================================
