-------------------------------- MODULE MCBackup --------------------------------
(***************************************************************************)
(* Three files: a config that names the default mode, mode "all" at        *)
(* another agent, or no agent; the users, in two states; and the tokens,   *)
(* whose last use changes though nobody sets it, and which are missing     *)
(* before the first is made.                                               *)
(***************************************************************************)
EXTENDS Backup, TLC

CONSTANTS config, users, tokens, absent, agent, other, none,
          relaxed, all, quiet, alice, alone, token, used

MCOrder == <<config, users, tokens>>
MCContents == config :> {absent, relaxed, all, quiet} @@ users :> {alice, alone}
              @@ tokens :> {absent, token, used}
MCStart == config :> relaxed @@ users :> alone @@ tokens :> token
MCSettings == relaxed :> [agent |-> agent, mode |-> "relaxed"]
              @@ all :> [agent |-> other, mode |-> "all"]
              @@ quiet :> [agent |-> none, mode |-> "state"]

================================================================================
