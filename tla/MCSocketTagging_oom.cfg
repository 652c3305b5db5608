\* tagSocket when allocating the FileDescriptor can run out of memory; the
\* call of tag() that follows is made with the OutOfMemoryError pending.
CONSTANTS
    Vms <- MCVms
    Tables <- MCTables
    ICU = icu
    NoVm = none
    v1 = v1
    v2 = v2
    v3 = v3
    icu = icu
    linux = linux
    none = none
    MayFail <- MCMayFailAlloc
SPECIFICATION TagSpec
INVARIANT NoJniCallWhilePending
CHECK_DEADLOCK FALSE
