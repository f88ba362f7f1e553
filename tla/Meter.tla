---------------------------------- MODULE Meter --------------------------------
(***************************************************************************)
(* What the accounting of traffic promises, with no counters, transactions *)
(* or hours in it.                                                         *)
(*                                                                         *)
(* A unit that a user sends is pending until it is booked, and is booked   *)
(* once.  Units may be lost, pending or booked ones, and then it is known  *)
(* whose; nothing but sending ever makes more of them.                     *)
(***************************************************************************)
EXTENDS Integers

CONSTANT User

VARIABLES sent,     \* sent[u]: units u has sent
          pending,  \* pending[u]: those that are not booked yet
          booked,   \* booked[u]: those in the book
          lossy     \* users some of whose units may be lost

meterVars == <<sent, pending, booked, lossy>>

Zero == [u \in User |-> 0]

MeterInit == sent = Zero /\ pending = Zero /\ booked = Zero /\ lossy = {}

Send(u) ==
  /\ sent' = [sent EXCEPT ![u] = @ + 1]
  /\ pending' = [pending EXCEPT ![u] = @ + 1]
  /\ UNCHANGED <<booked, lossy>>

\* Pending units of any users are booked.
Book ==
  /\ \A u \in User : /\ booked[u] <= booked'[u]
                     /\ pending'[u] + booked'[u] = pending[u] + booked[u]
  /\ UNCHANGED <<sent, lossy>>

Lose ==
  /\ \A u \in User : /\ pending'[u] <= pending[u] /\ booked'[u] <= booked[u]
                     /\ u \in lossy' \/ (pending'[u] = pending[u] /\ booked'[u] = booked[u])
  /\ lossy \subseteq lossy'
  /\ UNCHANGED sent

MeterNext == (\E u \in User : Send(u)) \/ Book \/ Lose

MeterSpec == MeterInit /\ [][MeterNext]_meterVars

\* What follows: nobody has more booked and pending than they have sent, and whoever has
\* not lost any has exactly that.
Balanced ==
  \A u \in User : /\ pending[u] + booked[u] <= sent[u]
                  /\ u \notin lossy => pending[u] + booked[u] = sent[u]

================================================================================
