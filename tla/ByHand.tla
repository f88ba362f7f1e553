---------------------------------- MODULE ByHand --------------------------------
(***************************************************************************)
(* What operators disable by hand (PATCH /api/users/{id} and               *)
(* src/internal/store/users.go, ResetUsageWindow), as module Collector has *)
(* it: a history variable remembers whom.                                  *)
(***************************************************************************)
EXTENDS Collector

VARIABLE byHand  \* users an operator has disabled and not enabled since

handVars == <<vars, byHand>>

Releases(u) == Enable(u) \/ DeleteUser(u)

HandInit == Init /\ byHand = {}

HandNext ==
  \/ \E u \in User : Disable(u) /\ byHand' = byHand \cup {u}
  \/ \E u \in User : Releases(u) /\ byHand' = byHand \ {u}
  \/ /\ Next /\ \A u \in User : ~Disable(u) /\ ~Releases(u)
     /\ UNCHANGED byHand

HandSpec == HandInit /\ [][HandNext]_handVars

\* Promised by CLI.md and API.md, and not so: a user disabled by hand stays
\* disabled through a reset of their usage.
ByHandStaysOff ==
  [][\A u \in byHand : acct[u].window # acct'[u].window => ~acct'[u].enabled]_handVars

================================================================================
