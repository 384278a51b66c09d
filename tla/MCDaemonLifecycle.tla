------------------------- MODULE MCDaemonLifecycle --------------------------
(***************************************************************************)
(* The daemon process on a small instance: signals that may interrupt each *)
(* other, and clients that may stop the daemon or ask for anything else.   *)
(***************************************************************************)
EXTENDS DaemonLifecycle
=============================================================================
