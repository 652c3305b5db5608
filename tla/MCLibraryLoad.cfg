\* The process stops after abort() or after its last VM: deadlock there is
\* the program ending.
CONSTANTS
    v1 = v1
    v2 = v2
    v3 = v3
    t1 = t1
    none = none
    Vms <- MCVms
    NoVm <- none
    Threads <- MCThreads
    Mismatch <- MCMismatch
SPECIFICATION Spec
CHECK_DEADLOCK FALSE
INVARIANT RegistrationSucceeds
PROPERTY ImplementsLifecycle
