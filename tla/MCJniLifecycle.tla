---------------------------- MODULE MCJniLifecycle --------------------------
(* Three VM instances in one process, the ICU table and one other.         *)
EXTENDS JniLifecycle, TLC

CONSTANTS v1, v2, v3, icu, linux, none

MCVms == {v1, v2, v3}
MCTables == {icu, linux}
=============================================================================
