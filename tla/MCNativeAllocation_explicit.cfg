\* Allocation and explicit free (the registry's returned Runnable) on the
\* test thread only.
CONSTANTS
    main = main
    daemon = daemon
    p1 = p1
    p2 = p2
    p3 = p3
    p4 = p4
    Mutators = {main}
    Cleaners = {main}
    Ptrs <- MCPtrs
    Sizes <- MCSizes
    Width <- MCWidth
SYMMETRY PtrSymmetry
SPECIFICATION Spec
INVARIANTS
    TypeOK
    OwnershipExclusive
    CounterMatchesLive
