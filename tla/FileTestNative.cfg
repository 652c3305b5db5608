\* Both natives of FileTest, with every stat outcome, with and without the
\* seccomp filter; the run ends when the native returns or crashes.
SPECIFICATION Spec
INVARIANT FilterDeniesOnlyFstatat
INVARIANT FailsIffWrong
CHECK_DEADLOCK FALSE
