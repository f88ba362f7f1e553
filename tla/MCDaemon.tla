-------------------------------- MODULE MCDaemon -------------------------------
(***************************************************************************)
(* A handler that changes a user, a plain POST /api/reload, and one change *)
(* made while the daemon was down.  The backoff has a single value here:   *)
(* its growth is the business of MCSupervisor.                             *)
(***************************************************************************)
EXTENDS Daemon

CONSTANTS handler, plain, offline, none

MCCalls == {handler, plain}
MCPlainCalls == {plain}
MCOffline == {offline}

================================================================================
