---------------------------- MODULE MCConnection ----------------------------
(* SessionConnection for TLC: an instance for a run, over every transport.   *)
EXTENDS SessionConnection
=============================================================================
