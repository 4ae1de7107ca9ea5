---------------------------- MODULE MCDaemonQueue ----------------------------
(* Small instances of DaemonQueue.                                          *)
EXTENDS DaemonQueue

AllFaults == {"error", "panic", "shutdown"}
=============================================================================
