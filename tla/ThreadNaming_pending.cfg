\* No constants: two tests, three possible thread names. main stops when the
\* native method returns or the process crashes.
SPECIFICATION Spec
CHECK_DEADLOCK FALSE
INVARIANT NoNewStringWhilePending
