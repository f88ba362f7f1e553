------------------------------ MODULE MCCollector ------------------------------
(***************************************************************************)
(* alice sends traffic and is created, limited, reset and deleted; bob has *)
(* been there from the start, is idle, and expires in the second hour.     *)
(***************************************************************************)
EXTENDS Reports, TLC

CONSTANTS alice, bob, nobody

MCUser == {alice, bob}
MCStored == bob :> [quota |-> 0, expires |-> 1]
MCNone == nobody
MCQuota == {0, 1}
MCExpiry == {}
MCMaxTraffic == alice :> 1 @@ bob :> 0

\* bob alone.
MCBob == {bob}
MCNoTraffic == bob :> 0

================================================================================
