-------------------------------- MODULE MCByHand -------------------------------
(***************************************************************************)
(* The users of MCCollector.                                               *)
(***************************************************************************)
EXTENDS ByHand, MCCollector

================================================================================
