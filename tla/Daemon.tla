--------------------------------- MODULE Daemon --------------------------------
(***************************************************************************)
(* Manager and Supervisor put together as serve does                       *)
(* (src/internal/cli/serve.go): one context, one config file, and the two  *)
(* calls the manager makes of the supervisor, Start and Reload.            *)
(*                                                                         *)
(* The config file of Supervisor is what Manager has installed, a set of   *)
(* changes; Supervisor's `owed` is the time between the manager's install  *)
(* and its call of Reload.                                                 *)
(***************************************************************************)
EXTENDS Integers

CONSTANTS Calls, PlainCalls, DaemonCalls, Offline, NoConfig, MinBackoff, MaxBackoff

ASSUME DaemonAssumption ==
  /\ PlainCalls \subseteq Calls /\ DaemonCalls \subseteq Calls \ PlainCalls
  /\ Calls \cap Offline = {}
  /\ \A config \in SUBSET (Calls \cup Offline) : config # NoConfig
  /\ MinBackoff \in Nat \ {0} /\ MaxBackoff \in Nat /\ MinBackoff <= MaxBackoff

VARIABLES
  store, installed, doc, loop, started, waiters, verdict, lastErr,
  pc, need, done, result,                       \* Manager's
  proc, cfg, sig, cmd, exited, sup, backoff, main, target,
  answer, missed, stopped,                      \* Supervisor's
  ctxDone                                       \* both

M == INSTANCE Manager
S == INSTANCE Supervisor WITH disk <- installed,
                              owed <- loop = "signalling",
                              Config <- SUBSET (Calls \cup Offline)

\* Supervisor's variables that are not Manager's too.
supOnly == <<proc, cfg, sig, cmd, exited, sup, backoff, main, target,
             answer, missed, stopped>>
mgrOnly == <<store, installed, doc, loop, started, waiters, verdict, lastErr,
             pc, need, done, result>>
vars == <<mgrOnly, supOnly, ctxDone>>

Init ==
  /\ M!Init
  /\ proc = "none" /\ cfg = NoConfig /\ sig = "none"
  /\ cmd = "nil" /\ exited = FALSE
  /\ sup = "spawning" /\ backoff = MinBackoff
  /\ main = "starting" /\ target = "nil" /\ stopped = "no"
  /\ answer = "none" /\ missed = FALSE

--------------------------------------------------------------------------------
(* Steps of one part alone.                                                *)

\* A step of a call.  Handlers exist only once serve has started the servers,
\* and end with the process.
CallAlone ==
  /\ main \notin {"starting", "failed", "exited"}
  /\ \E c \in Calls : M!Save(c) \/ M!Ask(c) \/ M!Enter(c) \/ M!Withdraw(c) \/ M!Receive(c)
  /\ UNCHANGED supOnly

\* A step of Start or of the loop that does not touch the supervisor.
LoopAlone ==
  /\ S!Runs
  /\ \/ M!CloseWindow \/ M!Exit \/ M!ExitWindow \/ M!ReadUsers \/ M!Install \/ M!Answer
     \/ started /\ M!RenderFails
     \/ \E c \in Calls : M!Accept(c)
  /\ UNCHANGED supOnly

ChildAlone ==
  /\ UNCHANGED <<mgrOnly, ctxDone>>
  /\ S!ChildStep

\* supervise, once Start has returned.
SuperviseAlone ==
  /\ main # "starting"
  /\ UNCHANGED <<mgrOnly, ctxDone>>
  /\ S!SuperviseStep

StopAlone ==
  /\ UNCHANGED <<mgrOnly, ctxDone>>
  /\ \/ S!LeaveServe \/ S!StopRead \/ S!StopTerm
     \/ S!StopKill \/ S!StopRefused \/ S!StopDone

--------------------------------------------------------------------------------
(* Steps of both.                                                          *)

\* Fault: Start launches sing-box before it renders.
SpawnsFirst ==
  /\ main = "starting"
  /\ UNCHANGED <<mgrOnly, ctxDone>>
  /\ S!SpawnOk

\* Manager.Start: the render, then Supervisor.Start, then the loop.
StartSpawns ==
  /\ main = "starting" /\ loop = "launching"
  /\ UNCHANGED <<mgrOnly, ctxDone>>
  /\ S!SpawnOk

StartEnds ==
  /\ main = "starting"
  /\ M!Launch
  /\ S!Record

StartFails ==
  /\ main = "starting"
  /\ \/ M!RenderFails /\ S!StartAborted
     \/ M!LaunchFails /\ S!SpawnFails

\* apply calls Supervisor.Reload and keeps its answer.
Signal ==
  \/ M!SignalOk /\ (S!ReloadSkips \/ S!ReloadSignals)
  \/ M!SignalFails /\ S!ReloadFails

\* The context ends: by SIGTERM, or when serve returns.
Cancel ==
  /\ S!Runs
  /\ M!Cancel
  /\ UNCHANGED supOnly

Exit ==
  /\ UNCHANGED mgrOnly
  /\ S!Exit

Ended ==
  /\ main = "exited"
  /\ proc \notin S!Alive
  /\ UNCHANGED vars

Next ==
  \/ CallAlone \/ LoopAlone \/ ChildAlone \/ SuperviseAlone \/ StopAlone
  \/ StartSpawns \/ StartEnds \/ StartFails
  \/ Signal \/ Cancel \/ Exit \/ Ended

Spec == Init /\ [][Next]_vars

--------------------------------------------------------------------------------
(* Properties.                                                             *)

Serving == proc = "serving" /\ sig = "none"

\* "reloaded": true is the truth end to end: from the answer on, a sing-box that
\* serves with no signal waiting serves the change the answer was about, through
\* later windows, failed renders, crashes and restarts; except for the process
\* Reload passed over between its start and its being recorded.
ConfirmedIsServed ==
  \A c \in Calls : result[c] = "ok" /\ Serving /\ ~missed => need[c] \subseteq cfg

\* No sing-box ever serves the config an earlier run of the daemon left behind.
NeverStale == cfg # NoConfig => Offline \subseteq cfg

================================================================================
