------------------------------- MODULE MCIdentity -------------------------------
(***************************************************************************)
(* The key of the deployment, that of a dump, and two more to be generated *)
(* or set.                                                                 *)
(***************************************************************************)
EXTENDS Identity

CONSTANTS own, theirs, new, other, absent, corrupt

MCKey == {own, theirs, new, other}

================================================================================
