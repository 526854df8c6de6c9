----------------------------- MODULE MCClipMuxer -----------------------------
EXTENDS ClipMuxer, TLC

Symmetry == Permutations(Procs)

\* One or two segments, around the one second that is asked for.
OneOrTwo == {1, 2}
BothModes == {"recorder", "checked"}
=============================================================================
