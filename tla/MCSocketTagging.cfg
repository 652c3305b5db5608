\* tagSocket in every VM the process brings up; the caller may enter with an
\* exception pending and SocketTagger.tag() may throw.
CONSTANTS
    Vms <- MCVms
    Tables <- MCTables
    ICU = icu
    NoVm = none
    v1 = v1
    v2 = v2
    v3 = v3
    icu = icu
    linux = linux
    none = none
    MayFail <- MCMayFailTag
SPECIFICATION TagSpec
INVARIANT CacheMatchesVm
CHECK_DEADLOCK FALSE
