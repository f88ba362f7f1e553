------------------------------- MODULE MCManager -------------------------------
(***************************************************************************)
(* A handler that changes a user, a plain POST /api/reload, a call of the   *)
(* collector, and one change made while the daemon was down.               *)
(***************************************************************************)
EXTENDS Manager

CONSTANTS handler, plain, collector, offline

MCCalls == {handler, plain, collector}
MCPlainCalls == {plain}
MCDaemonCalls == {collector}
MCOffline == {offline}

================================================================================
