\* Both natives of FileTest, with every stat outcome, with and without the
\* seccomp filter; the run ends when the native returns or crashes.
SPECIFICATION Spec
CHECK_DEADLOCK FALSE
INVARIANT FailedStatReported
