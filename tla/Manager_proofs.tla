----------------------------- MODULE Manager_proofs ----------------------------
(***************************************************************************)
(* The reload path is correct for any set of calls and changes.            *)
(*                                                                         *)
(* The safety properties of Manager are not inductive: that an answer is   *)
(* true depends on what the document held before it was installed, on the  *)
(* window being closed before the users are read, and on nobody being in   *)
(* a window that is not there.  IInv says so; it is preserved by every     *)
(* step, and the theorems follow from it.                                  *)
(***************************************************************************)
EXTENDS Manager, TLAPS

\* What is rendered or installed, or needed by a call, was stored.
StoredInv ==
  /\ Offline \subseteq store
  /\ installed \subseteq store
  /\ doc \subseteq store
  /\ \A c \in Calls : need[c] \subseteq store

\* The document being checked is no older than the installed config, and holds
\* what everyone in its window needs; once it is installed, so does the config.
WindowInv ==
  /\ loop = "checking" =>
       /\ installed \subseteq doc
       /\ Offline \subseteq doc
       /\ \A c \in waiters : need[c] \subseteq doc
  /\ loop = "signalling" => \A c \in waiters : need[c] \subseteq installed
  /\ loop = "answering" /\ verdict = "ok" => \A c \in waiters : need[c] \subseteq installed

\* Who is where: no call gets past Reload's first select before the loop is
\* there, and only an open window has calls in it.
PlaceInv ==
  /\ loop \in {"new", "launching", "failed"} => ~started
  /\ loop \in {"idle", "collecting", "applying", "signalling", "answering", "stopped"} => started
  /\ loop = "launching" => Offline \subseteq installed
  /\ waiters # {} =>
       started /\ loop \in {"collecting", "applying", "checking", "signalling", "answering"}
  /\ \A c \in Calls :
       /\ pc[c] \in {"offering", "waiting"} => started
       /\ c \in waiters => pc[c] \in {"waiting", "returned"}
       /\ pc[c] = "waiting" /\ done[c] = "none" => c \in waiters
       /\ pc[c] = "returned" <=> result[c] # "none"
       /\ pc[c] \in {"idle", "calling", "offering"} => done[c] = "none"

\* What m.lastErr says while the loop is between two renders.
ErrInv ==
  /\ loop \in {"launching", "signalling"} => ~lastErr
  /\ loop = "answering" => verdict \in Answers

IInv ==
  /\ TypeOK
  /\ StoredInv
  /\ WindowInv
  /\ PlaceInv
  /\ ErrInv
  /\ Committed
  /\ CurrentAtStart
  /\ StatusAgrees

--------------------------------------------------------------------------------

LEMMA InitIInv == Init => IInv
<1>. SUFFICES ASSUME Init PROVE IInv
  OBVIOUS
<1>. USE DEF Init
<1>1. TypeOK
  BY DEF TypeOK, Changes, LoopStates, Answers
<1>2. StoredInv /\ WindowInv /\ PlaceInv /\ ErrInv
  BY DEF StoredInv, WindowInv, PlaceInv, ErrInv
<1>3. Committed /\ CurrentAtStart /\ StatusAgrees
  BY DEF Committed, CurrentAtStart, StatusAgrees
<1>. QED
  BY <1>1, <1>2, <1>3 DEF IInv

\* One lemma per action.  What an action leaves alone is most of the state, so
\* each follows from its definition and the parts of the invariant.
LEMMA SaveIInv == ASSUME NEW c \in Calls, IInv, Save(c) PROVE IInv'
<1>. USE DEF IInv, Save, callVars, loopVars
<1>1. TypeOK'
  BY DEF TypeOK, Changes, LoopStates, Answers
<1>2. StoredInv'
  BY DEF TypeOK, StoredInv
<1>3. WindowInv'
  BY DEF TypeOK, StoredInv, WindowInv, PlaceInv
<1>4. PlaceInv'
  BY DEF TypeOK, PlaceInv, Answers
<1>5. (ErrInv /\ CurrentAtStart /\ StatusAgrees)'
  BY DEF TypeOK, ErrInv, PlaceInv, CurrentAtStart, StatusAgrees
<1>6. Committed'
  BY DEF TypeOK, Committed, PlaceInv
<1>. QED
  BY <1>1, <1>2, <1>3, <1>4, <1>5, <1>6

LEMMA AskIInv == ASSUME NEW c \in Calls, IInv, Ask(c) PROVE IInv'
<1>. USE DEF IInv, Ask, callVars, loopVars
<1>1. TypeOK'
  BY DEF TypeOK, Changes, LoopStates, Answers
<1>2. StoredInv'
  BY DEF TypeOK, StoredInv
<1>3. WindowInv'
  BY DEF TypeOK, StoredInv, WindowInv, PlaceInv
<1>4. PlaceInv'
  BY DEF TypeOK, PlaceInv, Answers
<1>5. (ErrInv /\ CurrentAtStart /\ StatusAgrees)'
  BY DEF TypeOK, ErrInv, PlaceInv, CurrentAtStart, StatusAgrees
<1>6. Committed'
  BY DEF TypeOK, Committed, PlaceInv
<1>. QED
  BY <1>1, <1>2, <1>3, <1>4, <1>5, <1>6

LEMMA EnterIInv == ASSUME NEW c \in Calls, IInv, Enter(c) PROVE IInv'
<1>. USE DEF IInv, Enter, callVars, loopVars
<1>1. TypeOK'
  BY DEF TypeOK, Changes, LoopStates, Answers
<1>2. StoredInv'
  BY DEF TypeOK, StoredInv
<1>3. WindowInv'
  BY DEF TypeOK, StoredInv, WindowInv, PlaceInv
<1>4. PlaceInv'
  BY DEF TypeOK, PlaceInv, Answers
<1>5. (ErrInv /\ CurrentAtStart /\ StatusAgrees)'
  BY DEF TypeOK, ErrInv, PlaceInv, CurrentAtStart, StatusAgrees
<1>6. Committed'
  BY DEF TypeOK, Committed, PlaceInv
<1>. QED
  BY <1>1, <1>2, <1>3, <1>4, <1>5, <1>6

LEMMA WithdrawIInv == ASSUME NEW c \in Calls, IInv, Withdraw(c) PROVE IInv'
<1>. USE DEF IInv, Withdraw, callVars, loopVars
<1>1. TypeOK'
  BY DEF TypeOK, Changes, LoopStates, Answers
<1>2. StoredInv'
  BY DEF TypeOK, StoredInv
<1>3. WindowInv'
  BY DEF TypeOK, StoredInv, WindowInv, PlaceInv
<1>4. PlaceInv'
  BY DEF TypeOK, PlaceInv, Answers
<1>5. (ErrInv /\ CurrentAtStart /\ StatusAgrees)'
  BY DEF TypeOK, ErrInv, PlaceInv, CurrentAtStart, StatusAgrees
<1>6. Committed'
  BY DEF TypeOK, Committed, PlaceInv
<1>. QED
  BY <1>1, <1>2, <1>3, <1>4, <1>5, <1>6

LEMMA ReceiveIInv == ASSUME NEW c \in Calls, IInv, Receive(c) PROVE IInv'
<1>. USE DEF IInv, Receive, callVars, loopVars
<1>1. TypeOK'
  BY DEF TypeOK, Changes, LoopStates, Answers
<1>2. StoredInv'
  BY DEF TypeOK, StoredInv
<1>3. WindowInv'
  BY DEF TypeOK, StoredInv, WindowInv, PlaceInv
<1>4. PlaceInv'
  BY DEF TypeOK, PlaceInv, Answers
<1>5. (ErrInv /\ CurrentAtStart /\ StatusAgrees)'
  BY DEF TypeOK, ErrInv, PlaceInv, CurrentAtStart, StatusAgrees
<1>6. Committed'
  BY DEF TypeOK, Committed, PlaceInv
<1>. QED
  BY <1>1, <1>2, <1>3, <1>4, <1>5, <1>6

LEMMA AcceptIInv == ASSUME NEW c \in Calls, IInv, Accept(c) PROVE IInv'
<1>. USE DEF IInv, Accept, callVars, loopVars
<1>1. TypeOK'
  BY DEF TypeOK, Changes, LoopStates, Answers
<1>2. StoredInv'
  BY DEF TypeOK, StoredInv
<1>3. WindowInv'
  BY DEF TypeOK, StoredInv, WindowInv, PlaceInv
<1>4. PlaceInv'
  BY DEF TypeOK, PlaceInv, Answers
<1>5. (ErrInv /\ CurrentAtStart /\ StatusAgrees)'
  BY DEF TypeOK, ErrInv, PlaceInv, CurrentAtStart, StatusAgrees
<1>6. Committed'
  BY DEF TypeOK, Committed, PlaceInv
<1>. QED
  BY <1>1, <1>2, <1>3, <1>4, <1>5, <1>6

LEMMA CloseWindowIInv == ASSUME IInv, CloseWindow PROVE IInv'
<1>. USE DEF IInv, CloseWindow, callVars, loopVars
<1>1. TypeOK'
  BY DEF TypeOK, Changes, LoopStates, Answers
<1>2. StoredInv'
  BY DEF TypeOK, StoredInv
<1>3. WindowInv'
  BY DEF TypeOK, StoredInv, WindowInv, PlaceInv
<1>4. PlaceInv'
  BY DEF TypeOK, WindowInv, PlaceInv, ErrInv, Answers
<1>5. (ErrInv /\ CurrentAtStart /\ StatusAgrees)'
  BY DEF TypeOK, ErrInv, WindowInv, PlaceInv, CurrentAtStart, StatusAgrees, Answers
<1>6. Committed'
  BY DEF TypeOK, Committed, WindowInv, PlaceInv
<1>. QED
  BY <1>1, <1>2, <1>3, <1>4, <1>5, <1>6

LEMMA ExitIInv == ASSUME IInv, Exit PROVE IInv'
<1>. USE DEF IInv, Exit, callVars, loopVars
<1>1. TypeOK'
  BY DEF TypeOK, Changes, LoopStates, Answers
<1>2. StoredInv'
  BY DEF TypeOK, StoredInv
<1>3. WindowInv'
  BY DEF TypeOK, StoredInv, WindowInv, PlaceInv
<1>4. PlaceInv'
  BY DEF TypeOK, WindowInv, PlaceInv, ErrInv, Answers
<1>5. (ErrInv /\ CurrentAtStart /\ StatusAgrees)'
  BY DEF TypeOK, ErrInv, WindowInv, PlaceInv, CurrentAtStart, StatusAgrees, Answers
<1>6. Committed'
  BY DEF TypeOK, Committed, WindowInv, PlaceInv
<1>. QED
  BY <1>1, <1>2, <1>3, <1>4, <1>5, <1>6

LEMMA ExitWindowIInv == ASSUME IInv, ExitWindow PROVE IInv'
<1>. USE DEF IInv, ExitWindow, callVars, loopVars
<1>1. TypeOK'
  BY DEF TypeOK, Changes, LoopStates, Answers
<1>2. StoredInv'
  BY DEF TypeOK, StoredInv
<1>3. WindowInv'
  BY DEF TypeOK, StoredInv, WindowInv, PlaceInv
<1>4. PlaceInv'
  BY DEF TypeOK, WindowInv, PlaceInv, ErrInv, Answers
<1>5. (ErrInv /\ CurrentAtStart /\ StatusAgrees)'
  BY DEF TypeOK, ErrInv, WindowInv, PlaceInv, CurrentAtStart, StatusAgrees, Answers
<1>6. Committed'
  BY DEF TypeOK, Committed, WindowInv, PlaceInv
<1>. QED
  BY <1>1, <1>2, <1>3, <1>4, <1>5, <1>6

LEMMA ReadUsersIInv == ASSUME IInv, ReadUsers PROVE IInv'
<1>. USE DEF IInv, ReadUsers, callVars, loopVars
<1>1. TypeOK'
  BY DEF TypeOK, Changes, LoopStates, Answers
<1>2. StoredInv'
  BY DEF TypeOK, StoredInv
<1>3. WindowInv'
  BY DEF TypeOK, StoredInv, WindowInv, PlaceInv
<1>4. PlaceInv'
  BY DEF TypeOK, WindowInv, PlaceInv, ErrInv, Answers
<1>5. (ErrInv /\ CurrentAtStart /\ StatusAgrees)'
  BY DEF TypeOK, ErrInv, WindowInv, PlaceInv, CurrentAtStart, StatusAgrees, Answers
<1>6. Committed'
  BY DEF TypeOK, Committed, WindowInv, PlaceInv
<1>. QED
  BY <1>1, <1>2, <1>3, <1>4, <1>5, <1>6

LEMMA RenderFailsIInv == ASSUME IInv, RenderFails PROVE IInv'
<1>. USE DEF IInv, RenderFails, callVars, loopVars
<1>1. TypeOK'
  BY DEF TypeOK, Changes, LoopStates, Answers
<1>2. StoredInv'
  BY DEF TypeOK, StoredInv
<1>3. WindowInv'
  BY DEF TypeOK, StoredInv, WindowInv, PlaceInv
<1>4. PlaceInv'
  BY DEF TypeOK, WindowInv, PlaceInv, ErrInv, Answers
<1>5. (ErrInv /\ CurrentAtStart /\ StatusAgrees)'
  BY DEF TypeOK, ErrInv, WindowInv, PlaceInv, CurrentAtStart, StatusAgrees, Answers
<1>6. Committed'
  BY DEF TypeOK, Committed, WindowInv, PlaceInv
<1>. QED
  BY <1>1, <1>2, <1>3, <1>4, <1>5, <1>6

LEMMA InstallIInv == ASSUME IInv, Install PROVE IInv'
<1>. USE DEF IInv, Install, callVars, loopVars
<1>1. TypeOK'
  BY DEF TypeOK, Changes, LoopStates, Answers
<1>2. StoredInv'
  BY DEF TypeOK, StoredInv
<1>3. WindowInv'
  BY DEF TypeOK, StoredInv, WindowInv, PlaceInv
<1>4. PlaceInv'
  BY DEF TypeOK, WindowInv, PlaceInv, ErrInv, Answers
<1>5. (ErrInv /\ CurrentAtStart /\ StatusAgrees)'
  BY DEF TypeOK, ErrInv, WindowInv, PlaceInv, CurrentAtStart, StatusAgrees, Answers
<1>6. Committed'
  BY DEF TypeOK, Committed, WindowInv, PlaceInv
<1>. QED
  BY <1>1, <1>2, <1>3, <1>4, <1>5, <1>6

LEMMA LaunchIInv == ASSUME IInv, Launch PROVE IInv'
<1>. USE DEF IInv, Launch, callVars, loopVars
<1>1. TypeOK'
  BY DEF TypeOK, Changes, LoopStates, Answers
<1>2. StoredInv'
  BY DEF TypeOK, StoredInv
<1>3. WindowInv'
  BY DEF TypeOK, StoredInv, WindowInv, PlaceInv
<1>4. PlaceInv'
  BY DEF TypeOK, WindowInv, PlaceInv, ErrInv, Answers
<1>5. (ErrInv /\ CurrentAtStart /\ StatusAgrees)'
  BY DEF TypeOK, ErrInv, WindowInv, PlaceInv, CurrentAtStart, StatusAgrees, Answers
<1>6. Committed'
  BY DEF TypeOK, Committed, WindowInv, PlaceInv
<1>. QED
  BY <1>1, <1>2, <1>3, <1>4, <1>5, <1>6

LEMMA LaunchFailsIInv == ASSUME IInv, LaunchFails PROVE IInv'
<1>. USE DEF IInv, LaunchFails, callVars, loopVars
<1>1. TypeOK'
  BY DEF TypeOK, Changes, LoopStates, Answers
<1>2. StoredInv'
  BY DEF TypeOK, StoredInv
<1>3. WindowInv'
  BY DEF TypeOK, StoredInv, WindowInv, PlaceInv
<1>4. PlaceInv'
  BY DEF TypeOK, WindowInv, PlaceInv, ErrInv, Answers
<1>5. (ErrInv /\ CurrentAtStart /\ StatusAgrees)'
  BY DEF TypeOK, ErrInv, WindowInv, PlaceInv, CurrentAtStart, StatusAgrees, Answers
<1>6. Committed'
  BY DEF TypeOK, Committed, WindowInv, PlaceInv
<1>. QED
  BY <1>1, <1>2, <1>3, <1>4, <1>5, <1>6

LEMMA SignalOkIInv == ASSUME IInv, SignalOk PROVE IInv'
<1>. USE DEF IInv, SignalOk, callVars, loopVars
<1>1. TypeOK'
  BY DEF TypeOK, Changes, LoopStates, Answers
<1>2. StoredInv'
  BY DEF TypeOK, StoredInv
<1>3. WindowInv'
  BY DEF TypeOK, StoredInv, WindowInv, PlaceInv
<1>4. PlaceInv'
  BY DEF TypeOK, WindowInv, PlaceInv, ErrInv, Answers
<1>5. (ErrInv /\ CurrentAtStart /\ StatusAgrees)'
  BY DEF TypeOK, ErrInv, WindowInv, PlaceInv, CurrentAtStart, StatusAgrees, Answers
<1>6. Committed'
  BY DEF TypeOK, Committed, WindowInv, PlaceInv
<1>. QED
  BY <1>1, <1>2, <1>3, <1>4, <1>5, <1>6

LEMMA SignalFailsIInv == ASSUME IInv, SignalFails PROVE IInv'
<1>. USE DEF IInv, SignalFails, callVars, loopVars
<1>1. TypeOK'
  BY DEF TypeOK, Changes, LoopStates, Answers
<1>2. StoredInv'
  BY DEF TypeOK, StoredInv
<1>3. WindowInv'
  BY DEF TypeOK, StoredInv, WindowInv, PlaceInv
<1>4. PlaceInv'
  BY DEF TypeOK, WindowInv, PlaceInv, ErrInv, Answers
<1>5. (ErrInv /\ CurrentAtStart /\ StatusAgrees)'
  BY DEF TypeOK, ErrInv, WindowInv, PlaceInv, CurrentAtStart, StatusAgrees, Answers
<1>6. Committed'
  BY DEF TypeOK, Committed, WindowInv, PlaceInv
<1>. QED
  BY <1>1, <1>2, <1>3, <1>4, <1>5, <1>6

LEMMA AnswerIInv == ASSUME IInv, Answer PROVE IInv'
<1>. USE DEF IInv, Answer, callVars, loopVars
<1>1. TypeOK'
  BY DEF TypeOK, Changes, LoopStates, Answers
<1>2. StoredInv'
  BY DEF TypeOK, StoredInv
<1>3. WindowInv'
  BY DEF TypeOK, StoredInv, WindowInv, PlaceInv
<1>4. PlaceInv'
  BY DEF TypeOK, WindowInv, PlaceInv, ErrInv, Answers
<1>5. (ErrInv /\ CurrentAtStart /\ StatusAgrees)'
  BY DEF TypeOK, ErrInv, WindowInv, PlaceInv, CurrentAtStart, StatusAgrees, Answers
<1>6. Committed'
  BY DEF TypeOK, Committed, WindowInv, PlaceInv
<1>. QED
  BY <1>1, <1>2, <1>3, <1>4, <1>5, <1>6

LEMMA CancelIInv == ASSUME IInv, Cancel PROVE IInv'
<1>. USE DEF IInv, Cancel, callVars, loopVars
<1>1. TypeOK'
  BY DEF TypeOK, Changes, LoopStates, Answers
<1>2. StoredInv'
  BY DEF TypeOK, StoredInv
<1>3. WindowInv'
  BY DEF TypeOK, StoredInv, WindowInv, PlaceInv
<1>4. PlaceInv'
  BY DEF TypeOK, WindowInv, PlaceInv, ErrInv, Answers
<1>5. (ErrInv /\ CurrentAtStart /\ StatusAgrees)'
  BY DEF TypeOK, ErrInv, WindowInv, PlaceInv, CurrentAtStart, StatusAgrees, Answers
<1>6. Committed'
  BY DEF TypeOK, Committed, WindowInv, PlaceInv
<1>. QED
  BY <1>1, <1>2, <1>3, <1>4, <1>5, <1>6

LEMMA StutterIInv == ASSUME IInv, UNCHANGED vars PROVE IInv'
BY DEF IInv, vars, callVars, loopVars, TypeOK, StoredInv, WindowInv, PlaceInv, ErrInv,
       Committed, CurrentAtStart, StatusAgrees

LEMMA NextIInv == ASSUME IInv, [Next]_vars PROVE IInv'
<1>1. ASSUME NEW c \in Calls, Save(c) \/ Ask(c) \/ Enter(c) \/ Withdraw(c) \/ Receive(c)
      PROVE  IInv'
  BY <1>1, SaveIInv, AskIInv, EnterIInv, WithdrawIInv, ReceiveIInv
<1>2. CASE LoopStep
  BY <1>2, AcceptIInv, CloseWindowIInv, ExitIInv, ExitWindowIInv, ReadUsersIInv,
     RenderFailsIInv, InstallIInv, LaunchIInv, LaunchFailsIInv, SignalOkIInv,
     SignalFailsIInv, AnswerIInv DEF LoopStep
<1>3. CASE Cancel
  BY <1>3, CancelIInv
<1>4. CASE UNCHANGED vars
  BY <1>4, StutterIInv
<1>. QED
  BY <1>1, <1>2, <1>3, <1>4 DEF Next, Ended

\* The inductive invariant holds in every reachable state.
THEOREM Invariance == Spec => []IInv
<1>1. Init => IInv
  BY InitIInv
<1>2. IInv /\ [Next]_vars => IInv'
  BY NextIInv
<1>. QED
  BY <1>1, <1>2, PTL DEF Spec

\* The variables of Manager keep their types.
THEOREM TypeCorrect == Spec => []TypeOK
<1>1. IInv => TypeOK
  BY DEF IInv
<1>. QED
  BY <1>1, Invariance, PTL

\* Manager.Reload returns nil only to a call whose every stored change is in
\* the installed config, for any number of calls and any sharing of windows.
THEOREM AnswersAreTrue == Spec => []Committed
<1>1. IInv => Committed
  BY DEF IInv
<1>. QED
  BY <1>1, Invariance, PTL

\* Manager.Start never leaves an earlier run's config in use.
THEOREM StartIsCurrent == Spec => []CurrentAtStart
<1>1. IInv => CurrentAtStart
  BY DEF IInv
<1>. QED
  BY <1>1, Invariance, PTL

\* A call taken from m.requests is answered or in a window that will answer it.
THEOREM NobodyIsForgotten == Spec => []NobodyForgotten
<1>1. IInv => NobodyForgotten
  BY DEF IInv, PlaceInv, NobodyForgotten
<1>. QED
  BY <1>1, Invariance, PTL

\* Status reports an error exactly when the last render or reload failed.
THEOREM StatusIsRight == Spec => []StatusAgrees
<1>1. IInv => StatusAgrees
  BY DEF IInv
<1>. QED
  BY <1>1, Invariance, PTL

\* Only Install writes the config, and what it writes was read from the store
\* after the config it replaces.
LEMMA InstalledGrows == ASSUME IInv, [Next]_vars PROVE installed \subseteq installed'
<1>1. CASE Install
  BY <1>1 DEF IInv, WindowInv, Install
<1>2. ASSUME NEW c \in Calls,
             Save(c) \/ Ask(c) \/ Enter(c) \/ Withdraw(c) \/ Receive(c) \/ Accept(c)
      PROVE  installed' = installed
  BY <1>2 DEF Save, Ask, Enter, Withdraw, Receive, Accept
<1>3. CASE LoopStep /\ ~Install
  BY <1>2, <1>3 DEF LoopStep, CloseWindow, Exit, ExitWindow, ReadUsers, RenderFails,
     Launch, LaunchFails, SignalOk, SignalFails, Answer
<1>4. CASE Cancel \/ UNCHANGED vars
  BY <1>4 DEF Cancel, vars
<1>. QED
  BY <1>1, <1>2, <1>3, <1>4 DEF Next, Ended, LoopStep

\* A config is never replaced by one that lacks a change it had.
THEOREM ConfigNeverGoesBack == Spec => NeverGoesBack
<1>1. IInv /\ [Next]_vars => [installed \subseteq installed']_vars
  BY InstalledGrows
<1>. QED
  BY <1>1, Invariance, PTL DEF Spec, NeverGoesBack

--------------------------------------------------------------------------------
(* Manager implements Publication.                                         *)

LEMMA InitPromise == ASSUME Init PROVE Promise!PubInit
BY DEF Init, Promise!PubInit, Verdict

\* A step of a call is a step of Publication by the same call, or none.
LEMMA CallPromise ==
  ASSUME IInv, NEW c \in Calls,
         Save(c) \/ Ask(c) \/ Enter(c) \/ Withdraw(c) \/ Receive(c) \/ Accept(c)
  PROVE  [Promise!PubNext]_(Promise!pubVars)
<1>. USE DEF IInv, TypeOK, PlaceInv, Verdict
<1>1. CASE Save(c) \/ Ask(c)
  <2>1. Promise!Ask(c)
    BY <1>1 DEF Save, Ask, Promise!Ask
  <2>. QED
    BY <2>1 DEF Promise!PubNext
<1>2. CASE (Enter(c) /\ started) \/ Accept(c)
  BY <1>2 DEF Enter, Accept, Promise!pubVars
<1>3. CASE (Enter(c) /\ ~started) \/ Withdraw(c) \/ (Receive(c) /\ done[c] = "error")
  <2>1. /\ result[c] = "none"
        /\ UNCHANGED <<store, installed, need>>
        /\ \/ result' = [result EXCEPT ![c] = "notRunning"]
           \/ result' = [result EXCEPT ![c] = "cancelled"]
           \/ result' = [result EXCEPT ![c] = "error"]
    BY <1>3 DEF Enter, Withdraw, Receive
  <2>2. Promise!Refuse(c)
    BY <2>1 DEF Promise!Refuse
  <2>. QED
    BY <2>2 DEF Promise!PubNext
<1>4. CASE Receive(c) /\ done[c] = "ok"
  <2>1. need[c] \subseteq installed
    BY <1>4 DEF Committed
  <2>2. Promise!Confirm(c)
    BY <1>4, <2>1 DEF Receive, Promise!Confirm
  <2>. QED
    BY <2>2 DEF Promise!PubNext
<1>5. Receive(c) => done[c] = "ok" \/ done[c] = "error"
  BY DEF Receive, Answers
<1>. QED
  BY <1>1, <1>2, <1>3, <1>4, <1>5

\* Installing a config publishes it; the loop's other steps are not seen.
LEMMA LoopPromise ==
  ASSUME IInv, LoopStep
  PROVE  [Promise!PubNext]_(Promise!pubVars)
<1>1. CASE Install
  <2>1. installed' \in SUBSET store /\ installed \subseteq installed'
    BY <1>1 DEF IInv, StoredInv, WindowInv, Install
  <2>2. Promise!Publish
    BY <1>1, <2>1 DEF Install, callVars, Promise!Publish
  <2>. QED
    BY <2>2 DEF Promise!PubNext
<1>2. CASE \E c \in Calls : Accept(c)
  BY <1>2, CallPromise
<1>3. CASE LoopStep /\ ~Install /\ ~\E c \in Calls : Accept(c)
  <2>1. UNCHANGED <<store, installed, need, result>>
    BY <1>3 DEF LoopStep, CloseWindow, Exit, ExitWindow, ReadUsers, RenderFails,
       Launch, LaunchFails, SignalOk, SignalFails, Answer, callVars
  <2>. QED
    BY <2>1 DEF Promise!pubVars
<1>. QED
  BY <1>1, <1>2, <1>3

LEMMA StepPromise == ASSUME IInv, [Next]_vars PROVE [Promise!PubNext]_(Promise!pubVars)
<1>1. CASE Cancel \/ Ended \/ UNCHANGED vars
  BY <1>1 DEF Cancel, Ended, vars, callVars, Promise!pubVars
<1>. QED
  BY <1>1, CallPromise, LoopPromise DEF Next

\* Every behaviour of the manager's loop and its callers is one Publication
\* allows: what a caller is told is all that the windows come to.
THEOREM Refinement == Spec => KeepsPromise
<1>1. Init => Promise!PubInit
  BY InitPromise
<1>2. IInv /\ [Next]_vars => [Promise!PubNext]_(Promise!pubVars)
  BY StepPromise
<1>. QED
  BY <1>1, <1>2, Invariance, PTL DEF Spec, KeepsPromise, Promise!PubSpec

================================================================================
