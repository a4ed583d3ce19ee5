----------------------------- MODULE MCLifecycle -----------------------------
(* QueryLifecycle for TLC.  Ids and sessions are interchangeable in the      *)
(* safety runs; the initial value of qid and qsession is never looked at,    *)
(* so the CHOOSE in Init does not break the symmetry.                        *)
EXTENDS QueryLifecycle, TLC

Symmetry == Permutations(Ids) \cup Permutations(Sessions)
=============================================================================
