------------------------------ MODULE Publication ------------------------------
(***************************************************************************)
(* What the reload path promises, with no loop, window or process in it.   *)
(*                                                                         *)
(* Calls store changes and then ask for them to be made live.  A config    *)
(* that holds some of the stored changes is published from time to time;   *)
(* a published config never loses a change an earlier one had.  A call is  *)
(* confirmed only once everything stored when it asked is published; it    *)
(* may be refused at any time, and a refusal takes nothing back.           *)
(***************************************************************************)

CONSTANTS Calls,     \* requests to make the stored changes live
          Offline    \* changes stored before the daemon started

VARIABLES stored,    \* changes in the store
          published, \* changes in the published config
          ask,       \* ask[c]: what was stored when call c asked
          verdict    \* verdict[c]: "pending", "confirmed" or "refused"

pubVars == <<stored, published, ask, verdict>>

PubInit ==
  /\ stored = Offline
  /\ published = {}
  /\ ask = [c \in Calls |-> {}]
  /\ verdict = [c \in Calls |-> "pending"]

\* A call asks, after storing a change of its own or not.
Ask(c) ==
  /\ verdict[c] = "pending"
  /\ stored' \in {stored, stored \cup {c}}
  /\ ask' = [ask EXCEPT ![c] = stored']
  /\ UNCHANGED <<published, verdict>>

\* A later config replaces the published one.
Publish ==
  /\ published' \in SUBSET stored
  /\ published \subseteq published'
  /\ UNCHANGED <<stored, ask, verdict>>

Confirm(c) ==
  /\ verdict[c] = "pending"
  /\ ask[c] \subseteq published
  /\ verdict' = [verdict EXCEPT ![c] = "confirmed"]
  /\ UNCHANGED <<stored, published, ask>>

Refuse(c) ==
  /\ verdict[c] = "pending"
  /\ verdict' = [verdict EXCEPT ![c] = "refused"]
  /\ UNCHANGED <<stored, published, ask>>

PubNext ==
  \/ Publish
  \/ \E c \in Calls : Ask(c) \/ Confirm(c) \/ Refuse(c)

PubSpec == PubInit /\ [][PubNext]_pubVars

================================================================================
