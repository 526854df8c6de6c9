----------------------------- MODULE MCLifecycle -----------------------------
EXTENDS Lifecycle, TLC

Symmetry == Permutations(Clis)

StartAndSave == {"start", "save"}
=============================================================================
