--------------------------- MODULE MCSaveController ---------------------------
(* SaveController for TLC.                                                 *)
EXTENDS SaveController, TLC

\* The threads are interchangeable: each may pass either source.
CallerSymmetry == Permutations(Callers)
=============================================================================
