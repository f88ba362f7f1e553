------------------------------ MODULE MCSupervisor -----------------------------
(***************************************************************************)
(* Two configs, which the manager installs in turn for ever, and a backoff *)
(* that doubles once to 2 and is then capped at 3.                         *)
(***************************************************************************)
EXTENDS Supervisor

CONSTANTS c1, c2, none

MCConfig == {c1, c2}
MCNoConfig == none

================================================================================
