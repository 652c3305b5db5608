---------------------------- MODULE MCLibraryLoad ----------------------------
(* Three VMs in one process, one Java thread calling the VarHandle stubs,  *)
(* and a v2 whose NativeTestTarget lacks the CriticalNative table.    *)
EXTENDS LibraryLoad, TLC

CONSTANTS v1, v2, v3, t1, none

MCVms == {v1, v2, v3}
MCThreads == {t1}
MCMismatch == {<<v2, "Critical">>}
=============================================================================
