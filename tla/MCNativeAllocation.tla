------------------------- MODULE MCNativeAllocation -------------------------
(* Model-checking instance of NativeAllocation: four heap addresses, a    *)
(* 3-bit counter (so that the uint64 sum wraps) and three sizes.             *)
EXTENDS NativeAllocation, TLC

CONSTANTS main, daemon, p1, p2, p3, p4

MCPtrs == {p1, p2, p3, p4}
MCSizes == {1, 2, 3}
MCWidth == 3

\* Heap addresses are interchangeable.
PtrSymmetry == Permutations(MCPtrs)
=============================================================================
