--------------------------------- MODULE MCUsers -------------------------------
(***************************************************************************)
(* Two users at most; a name in two spellings, one with a space, one of    *)
(* white space only, and one that is an id in other letters; dumps that     *)
(* lack a token, hold one, name a user by another's id, or are refused.     *)
(***************************************************************************)
EXTENDS Users, TLC

CONSTANTS u1, u2, U1, a, A, sA, ws, blank, p, q, s, t, r, none

MCId == {u1, u2}
MCName == {U1, a, A, sA, ws}
MCFold == u1 :> "u1" @@ U1 :> "u1" @@ u2 :> "u2" @@ a :> "a" @@ A :> "a" @@ sA :> "sa" @@ ws :> "ws"
MCTrim == [x \in MCId \cup MCName |->
  CASE x = sA -> A [] x = ws -> blank [] OTHER -> x]
MCUuid == {p, q}
MCToken == {s, t, r}

Imported(id, name, uuid, token) ==
  [id |-> id, name |-> name, uuid |-> uuid, token |-> token, active |-> TRUE]

MCDump == {<<Imported(u1, a, p, none)>>,
           <<Imported(u1, a, p, s), Imported(u2, u1, q, none)>>,
           <<Imported(u1, a, p, s), Imported(u2, A, p, s)>>}

================================================================================
