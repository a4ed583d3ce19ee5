------------------------------- MODULE MCFifo -------------------------------
(* SessionFifo for TLC; sessions and endpoints are interchangeable.          *)
EXTENDS SessionFifo, TLC

Symmetry == Permutations(Sessions) \cup Permutations(Endpoints)
=============================================================================
