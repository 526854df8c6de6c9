---------------------------- MODULE MCSegmentBuffer ----------------------------
EXTENDS SegmentBuffer

\* The directory lists pairs of names in their order, each pair in either order.
InPairs == [k \in Names |-> k \div 2]

\* What is recorded after the last save ended changes nothing for it.
UntilLastSave == save.pc # "idle" \/ saves < MaxSaves
=============================================================================
