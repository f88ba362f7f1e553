-------------------------------- MODULE Manager --------------------------------
(***************************************************************************)
(* singbox.Manager: the loop that turns the stored users into the          *)
(* installed sing-box config, and the calls of Manager.Reload that ask it  *)
(* to (src/internal/singbox/manager.go).                                   *)
(*                                                                         *)
(* A call is one execution of Reload: an API handler that has just saved a *)
(* change, POST /api/reload, or the stats collector.  The data a config is *)
(* made from is abstracted to the SET OF CHANGES saved so far: a call is   *)
(* itself the name of the change it saved, and a config is the set of      *)
(* changes it was rendered from.  What sing-box then does with the config  *)
(* is module Supervisor's; here a signal just succeeds or fails.           *)
(***************************************************************************)

CONSTANTS Calls,        \* executions of Manager.Reload
          PlainCalls,   \* those that saved no change first: POST /api/reload
          DaemonCalls,  \* those whose context is the daemon's: the collector's
          Offline       \* changes saved before this daemon started

ASSUME ManagerAssumption ==
  /\ PlainCalls \subseteq Calls
  /\ DaemonCalls \subseteq Calls \ PlainCalls
  /\ Calls \cap Offline = {}

VARIABLES
  store,     \* changes saved in the user store (users.json and its memory copy)
  installed, \* changes in the config at m.path; {} is an earlier run's config
  doc,       \* changes in the document being rendered; {} when there is none
  loop,      \* where Start, then loop, stands
  started,   \* m.started is closed
  waiters,   \* calls whose channel the loop has taken in this window
  verdict,   \* what the last Start or apply came to
  lastErr,   \* m.lastErr is not nil
  pc,        \* pc[c]: where call c stands
  need,      \* need[c]: what was in the store when call c was made
  done,      \* done[c]: the answer in call c's channel, while c waits for it
  result,    \* result[c]: what call c returned
  ctxDone    \* the context of Start is cancelled

callVars == <<pc, need, result>>
loopVars == <<loop, waiters, doc, verdict>>
vars == <<store, installed, doc, loop, started, waiters, verdict, lastErr,
          pc, need, done, result, ctxDone>>

Changes == Calls \cup Offline

LoopStates == {"new", "checking", "launching", "failed",           \* Start
               "idle", "collecting", "applying", "signalling", "answering",
               "stopped"}

Init ==
  /\ store = Offline
  /\ installed = {}
  /\ doc = {}
  /\ loop = "new"
  /\ started = FALSE
  /\ waiters = {}
  /\ verdict = "none"
  /\ lastErr = FALSE
  /\ pc = [c \in Calls |-> "idle"]
  /\ need = [c \in Calls |-> {}]
  /\ done = [c \in Calls |-> "none"]
  /\ result = [c \in Calls |-> "none"]
  /\ ctxDone = FALSE

--------------------------------------------------------------------------------
(* The calls.                                                              *)

\* A handler, or the collector, saves its change; only then does it call Reload.
Save(c) ==
  /\ c \notin PlainCalls
  /\ pc[c] = "idle"
  /\ store' = store \cup {c}
  /\ need' = [need EXCEPT ![c] = store']
  /\ pc' = [pc EXCEPT ![c] = "calling"]
  /\ UNCHANGED <<installed, loopVars, started, lastErr, done, result, ctxDone>>

\* POST /api/reload: a call with no change of its own.
Ask(c) ==
  /\ c \in PlainCalls
  /\ pc[c] = "idle"
  /\ need' = [need EXCEPT ![c] = store]
  /\ pc' = [pc EXCEPT ![c] = "calling"]
  /\ UNCHANGED <<store, installed, loopVars, started, lastErr, done, result, ctxDone>>

\* Fault: Reload without its check of m.started.
EnterUnchecked(c) ==
  /\ pc[c] = "calling"
  /\ pc' = [pc EXCEPT ![c] = "offering"]
  /\ UNCHANGED <<store, installed, loopVars, started, lastErr, need, done, result, ctxDone>>

\* The first select of Reload: ErrNotRunning unless Start got to its end.
Enter(c) ==
  /\ pc[c] = "calling"
  /\ IF started
     THEN /\ pc' = [pc EXCEPT ![c] = "offering"]
          /\ UNCHANGED result
     ELSE /\ pc' = [pc EXCEPT ![c] = "returned"]
          /\ result' = [result EXCEPT ![c] = "notRunning"]
  /\ UNCHANGED <<store, installed, loopVars, started, lastErr, need, done, ctxDone>>

\* Fault: a call that gives up puts its error into the channel.
WithdrawAnswers(c) ==
  /\ pc[c] \in {"offering", "waiting"}
  /\ c \in DaemonCalls => ctxDone
  /\ pc' = [pc EXCEPT ![c] = "returned"]
  /\ done' = [done EXCEPT ![c] = "cancelled"]
  /\ UNCHANGED <<store, installed, loopVars, started, lastErr, need, result, ctxDone>>

\* The call's context ends first.  A client may disconnect whenever it likes;
\* the collector's context is the daemon's.
Withdraw(c) ==
  /\ pc[c] \in {"offering", "waiting"}
  /\ c \in DaemonCalls => ctxDone
  /\ pc' = [pc EXCEPT ![c] = "returned"]
  /\ result' = [result EXCEPT ![c] = "cancelled"]
  /\ UNCHANGED <<store, installed, loopVars, started, lastErr, need, done, ctxDone>>

\* The answer in the call's channel is returned.
Receive(c) ==
  /\ pc[c] = "waiting"
  /\ done[c] # "none"
  /\ pc' = [pc EXCEPT ![c] = "returned"]
  /\ result' = [result EXCEPT ![c] = done[c]]
  /\ done' = [done EXCEPT ![c] = "none"]
  /\ UNCHANGED <<store, installed, loopVars, started, lastErr, need, ctxDone>>

--------------------------------------------------------------------------------
(* The loop.  While Start renders, started is still FALSE: the same render *)
(* serves Start and apply.                                                 *)

\* Fault: a call is let into a window whose render has already read the users.
AcceptLate(c) ==
  /\ pc[c] = "offering"
  /\ loop \in {"idle", "collecting", "checking"}
  /\ loop' = IF loop = "idle" THEN "collecting" ELSE loop
  /\ waiters' = waiters \cup {c}
  /\ pc' = [pc EXCEPT ![c] = "waiting"]
  /\ UNCHANGED <<store, installed, doc, verdict, started, lastErr, need, done, result, ctxDone>>

\* The loop and a call meet on the unbuffered m.requests: the first opens a
\* window, the others join it.  A select that also finds the context done may
\* still take the request.
Accept(c) ==
  /\ pc[c] = "offering"
  /\ loop \in {"idle", "collecting"}
  /\ loop' = "collecting"
  /\ waiters' = waiters \cup {c}
  /\ pc' = [pc EXCEPT ![c] = "waiting"]
  /\ UNCHANGED <<store, installed, doc, verdict, started, lastErr, need, done, result, ctxDone>>

\* The debounce timer fires.
CloseWindow ==
  /\ loop = "collecting"
  /\ loop' = "applying"
  /\ UNCHANGED <<store, installed, doc, started, waiters, verdict, lastErr,
                 callVars, done, ctxDone>>

\* The context ends between windows.
Exit ==
  /\ loop = "idle"
  /\ ctxDone
  /\ loop' = "stopped"
  /\ UNCHANGED <<store, installed, doc, started, waiters, verdict, lastErr,
                 callVars, done, ctxDone>>

\* Fault: the loop returns from an open window and answers nobody.
ExitSilently ==
  /\ loop = "collecting"
  /\ ctxDone
  /\ loop' = "stopped"
  /\ waiters' = {}
  /\ UNCHANGED <<store, installed, doc, started, verdict, lastErr, callVars, done, ctxDone>>

\* The context ends with a window open: everyone in it gets ctx.Err().
ExitWindow ==
  /\ loop = "collecting"
  /\ ctxDone
  /\ loop' = "stopped"
  /\ done' = [c \in Calls |-> IF c \in waiters /\ pc[c] = "waiting" THEN "error" ELSE done[c]]
  /\ waiters' = {}
  /\ UNCHANGED <<store, installed, doc, started, verdict, lastErr, callVars, ctxDone>>

\* render reads the active users.
ReadUsers ==
  /\ loop \in {"new", "applying"}
  /\ doc' = store
  /\ loop' = "checking"
  /\ UNCHANGED <<store, installed, started, waiters, verdict, lastErr,
                 callVars, done, ctxDone>>

\* Fault: Start goes on to launch sing-box after a failed render.
RenderFailsSoftly ==
  /\ loop \in {"new", "applying", "checking"}
  /\ lastErr' = TRUE
  /\ doc' = {}
  /\ verdict' = "error"
  /\ loop' = IF started THEN "answering" ELSE "launching"
  /\ UNCHANGED <<store, installed, started, waiters, callVars, done, ctxDone>>

\* Fault: the config is written in place, so a failed write truncates it.
RenderTruncates ==
  /\ loop \in {"new", "applying", "checking"}
  /\ lastErr' = TRUE
  /\ doc' = {}
  /\ verdict' = "error"
  /\ installed' = IF loop = "checking" THEN {} ELSE installed
  /\ loop' = IF started THEN "answering" ELSE "failed"
  /\ UNCHANGED <<store, started, waiters, callVars, done, ctxDone>>

\* Fault: a failed render is logged and apply goes on to answer nil.
RenderFailsQuietly ==
  /\ loop \in {"new", "applying", "checking"}
  /\ lastErr' = TRUE
  /\ doc' = {}
  /\ verdict' = IF started THEN "ok" ELSE "error"
  /\ loop' = IF started THEN "answering" ELSE "failed"
  /\ UNCHANGED <<store, installed, started, waiters, callVars, done, ctxDone>>

\* identity.json does not read, the template fails, `sing-box check` refuses
\* (or is killed with the context), or the write fails.  The installed config
\* is left alone; in Start the failure ends the daemon.
RenderFails ==
  /\ loop \in {"new", "applying", "checking"}
  /\ lastErr' = TRUE
  /\ doc' = {}
  /\ verdict' = "error"
  /\ loop' = IF started THEN "answering" ELSE "failed"
  /\ UNCHANGED <<store, installed, started, waiters, callVars, done, ctxDone>>

\* The checked document replaces the config by a rename.
Install ==
  /\ loop = "checking"
  /\ installed' = doc
  /\ doc' = {}
  /\ lastErr' = FALSE
  /\ loop' = IF started THEN "signalling" ELSE "launching"
  /\ UNCHANGED <<store, started, waiters, verdict, callVars, done, ctxDone>>

\* Start launches sing-box and starts the loop.
Launch ==
  /\ loop = "launching"
  /\ started' = TRUE
  /\ verdict' = "ok"
  /\ loop' = "idle"
  /\ UNCHANGED <<store, installed, doc, waiters, lastErr, callVars, done, ctxDone>>

\* Start cannot launch sing-box; m.lastErr is not set on this path.
LaunchFails ==
  /\ loop = "launching"
  /\ loop' = "failed"
  /\ UNCHANGED <<store, installed, doc, started, waiters, verdict, lastErr,
                 callVars, done, ctxDone>>

\* Supervisor.Reload returned nil.
SignalOk ==
  /\ loop = "signalling"
  /\ verdict' = "ok"
  /\ loop' = "answering"
  /\ UNCHANGED <<store, installed, doc, started, waiters, lastErr, callVars, done, ctxDone>>

\* Fault: apply returns the signal's error and does not record it.
SignalFailsUnrecorded ==
  /\ loop = "signalling"
  /\ verdict' = "error"
  /\ loop' = "answering"
  /\ UNCHANGED <<store, installed, doc, started, waiters, lastErr, callVars, done, ctxDone>>

\* Supervisor.Reload returned an error: the new config stays installed.
SignalFails ==
  /\ loop = "signalling"
  /\ verdict' = "error"
  /\ lastErr' = TRUE
  /\ loop' = "answering"
  /\ UNCHANGED <<store, installed, doc, started, waiters, callVars, done, ctxDone>>

\* Everyone in the window gets the same answer.  The channels are buffered, so
\* a call that has withdrawn does not hold the others up.
Answer ==
  /\ loop = "answering"
  /\ done' = [c \in Calls |-> IF c \in waiters /\ pc[c] = "waiting" THEN verdict ELSE done[c]]
  /\ waiters' = {}
  /\ loop' = "idle"
  /\ UNCHANGED <<store, installed, doc, started, verdict, lastErr, callVars, ctxDone>>

--------------------------------------------------------------------------------

\* SIGTERM, or the end of serve.
Cancel ==
  /\ ~ctxDone
  /\ ctxDone' = TRUE
  /\ UNCHANGED <<store, installed, loopVars, started, lastErr, callVars, done>>

\* The daemon has ended and so have the calls.
Ended ==
  /\ loop \in {"stopped", "failed"}
  /\ \A c \in Calls : pc[c] = "returned"
  /\ ctxDone
  /\ UNCHANGED vars

LoopStep ==
  \/ CloseWindow \/ Exit \/ ExitWindow
  \/ ReadUsers \/ RenderFails \/ Install
  \/ Launch \/ LaunchFails
  \/ SignalOk \/ SignalFails \/ Answer
  \/ \E c \in Calls : Accept(c)

Next ==
  \/ \E c \in Calls : Save(c) \/ Ask(c) \/ Enter(c) \/ Withdraw(c) \/ Receive(c)
  \/ LoopStep
  \/ Cancel
  \/ Ended

\* The goroutines run: the loop takes a step it can take (`sing-box check` ends
\* on its own), a call goes on when it can, and the collector, unlike a client
\* that stays connected, gives up once the daemon's context is done.
Fairness ==
  /\ WF_vars(LoopStep)
  /\ \A c \in Calls : WF_vars(Enter(c)) /\ WF_vars(Receive(c))
  /\ \A c \in DaemonCalls : WF_vars(Withdraw(c))

Spec == Init /\ [][Next]_vars /\ Fairness

--------------------------------------------------------------------------------
(* Properties.                                                             *)

Answers == {"ok", "error"}

\* The variables hold values of their kinds; a config, a document and what a
\* call needs are sets of changes.
TypeOK ==
  /\ store \in SUBSET Changes
  /\ installed \in SUBSET Changes
  /\ doc \in SUBSET Changes
  /\ loop \in LoopStates
  /\ started \in BOOLEAN
  /\ waiters \in SUBSET Calls
  /\ verdict \in {"none"} \cup Answers
  /\ lastErr \in BOOLEAN
  /\ pc \in [Calls -> {"idle", "calling", "offering", "waiting", "returned"}]
  /\ need \in [Calls -> SUBSET Changes]
  /\ done \in [Calls -> {"none"} \cup Answers]
  /\ result \in [Calls -> {"none", "cancelled", "notRunning"} \cup Answers]
  /\ ctxDone \in BOOLEAN

\* A Reload that returns nil tells the truth: the installed config holds every
\* change that was saved when the call was made, the caller's own among them,
\* whoever else shared the window and whatever has been installed since.
Committed ==
  \A c \in Calls : "ok" \in {done[c], result[c]} => need[c] \subseteq installed

\* sing-box never serves the config of an earlier run: once the manager runs,
\* the installed config was rendered from the users found at startup.
CurrentAtStart == started => Offline \subseteq installed

\* A call the loop has taken is either answered or still in the open window:
\* no window is closed, abandoned or failed without it.
NobodyForgotten ==
  \A c \in Calls :
    pc[c] = "waiting" /\ done[c] = "none" =>
      /\ c \in waiters
      /\ loop \notin {"idle", "stopped", "failed"}

\* GET /api/status shows an error exactly when the last render or reload failed.
StatusAgrees ==
  loop \in {"idle", "collecting", "answering"} => (lastErr <=> verdict = "error")

\* A config once installed is only replaced by one with every change it had:
\* a slow render never overwrites a newer one, and a failed one nothing.
NeverGoesBack == [][installed \subseteq installed']_vars

\* Every call returns.  A handler may be left behind by a shutdown; the
\* collector, whose context is the daemon's, is not even then.
EveryCallReturns ==
  \A c \in Calls :
    pc[c] = "calling" ~> \/ pc[c] = "returned"
                         \/ c \notin DaemonCalls /\ ctxDone

\* A call that the loop has taken is answered, shutdown or not.
TakenIsAnswered ==
  \A c \in Calls : pc[c] = "waiting" ~> pc[c] = "returned"

\* The detailed reload path implements the promise of module Publication.
Verdict(r) ==
  IF r = "none" THEN "pending" ELSE IF r = "ok" THEN "confirmed" ELSE "refused"

Promise == INSTANCE Publication
             WITH stored <- store, published <- installed, ask <- need,
                  verdict <- [c \in Calls |-> Verdict(result[c])]

KeepsPromise == Promise!PubSpec

================================================================================
