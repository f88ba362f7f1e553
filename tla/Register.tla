-------------------------------- MODULE Register -------------------------------
(***************************************************************************)
(* What a store promises that a daemon keeps in memory and on disk, with   *)
(* no list, file, save or lock in it.                                      *)
(*                                                                         *)
(* There are members.  The daemon adds one, removes one or puts one in the *)
(* place of another, and what it has done stays done, whenever the daemon  *)
(* ends and starts again; what it failed to do has not happened.  Somebody *)
(* else may replace all members at any time, and a daemon that is open     *)
(* does not see it: they come into force when it ends, unless it has       *)
(* changed a member in between, which undoes the replacement.              *)
(***************************************************************************)

CONSTANTS Member,     \* what may be registered
          Same,       \* <<m, n>>: n is m with something changed
          Completion  \* <<m, n>>: n is m with something added that m lacked

VARIABLES open,     \* a daemon holds the register
          roster,   \* the members in force
          replaced  \* others have been put in their place, and the daemon does not know

registerVars == <<open, roster, replaced>>

RegisterInit == open = FALSE /\ roster = {} /\ replaced = FALSE

AtMostOne(S) == \A m, n \in S : m = n

Edit ==
  /\ open /\ UNCHANGED open
  /\ roster' \in SUBSET Member
  /\ AtMostOne(roster \ roster') /\ AtMostOne(roster' \ roster)
  /\ (roster \ roster') \X (roster' \ roster) \subseteq Same
  /\ replaced' = FALSE

\* Whoever lacks something is given it.
Complete ==
  /\ open /\ UNCHANGED open
  /\ \A m \in roster : m \in roster' \/ \E n \in roster' : <<m, n>> \in Completion
  /\ \A n \in roster' : n \in roster \/ \E m \in roster : <<m, n>> \in Completion
  /\ replaced' = FALSE

Begin == ~open /\ open' /\ UNCHANGED <<roster, replaced>>

End ==
  /\ open /\ ~open'
  /\ roster' = roster \/ (replaced /\ roster' \in SUBSET Member)
  /\ replaced' = FALSE

Replace ==
  /\ UNCHANGED open
  /\ IF open THEN replaced' /\ UNCHANGED roster
             ELSE roster' \in SUBSET Member /\ UNCHANGED replaced

RegisterNext == Edit \/ Complete \/ Begin \/ End \/ Replace

RegisterSpec == RegisterInit /\ [][RegisterNext]_registerVars

================================================================================
