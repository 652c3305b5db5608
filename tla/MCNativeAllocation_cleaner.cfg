\* Allocation on the test thread, finalize on the Cleaner daemon after GC,
\* as NativeAllocationRegistryTest.testNativeAllocation drives it.
CONSTANTS
    main = main
    daemon = daemon
    p1 = p1
    p2 = p2
    p3 = p3
    p4 = p4
    Mutators = {main}
    Cleaners = {daemon}
    Ptrs <- MCPtrs
    Sizes <- MCSizes
    Width <- MCWidth
SYMMETRY PtrSymmetry
SPECIFICATION Spec
INVARIANT CounterMatchesLive
