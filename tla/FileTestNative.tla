--------------------------- MODULE FileTestNative ---------------------------
(***************************************************************************)
(* The native half of libcore.java.io.FileTest                             *)
(* (luni/src/test/native/libcore_java_io_FileTest.cpp).                    *)
(*                                                                         *)
(* nativeTestFilesWithSurrogatePairs stats a directory and a file inside  *)
(* it, throwing IOException when a stat fails and IllegalStateException   *)
(* when the entry has the wrong type; none of the throws returns, so the  *)
(* code carries on after each.  installSeccompFilter installs a BPF        *)
(* program that makes fstatat fail with EPERM; bionic's stat() is          *)
(* fstatat(AT_FDCWD, ...), so once the filter is in place both stats fail. *)
(*                                                                         *)
(* Paths and errno values are abstracted away: a stat outcome is the type  *)
(* of the entry or "fail".  jniThrowException / jniThrowIOException        *)
(* (libnativehelper) discard a pending exception before throwing.  The     *)
(* kernel does not write `struct stat` when stat fails, and reading it     *)
(* before any stat succeeded is undefined: the mode read is then any type. *)
(***************************************************************************)
EXTENDS Naturals, Sequences

\* File types S_ISDIR / S_ISREG tell apart, and a failed stat.
Types == {"dir", "reg", "other"}
StatOutcomes == Types \cup {"fail"}

\* System calls the model tells apart; stat() is issued as fstatat.
Syscalls == {"fstatat", "openat", "getpid"}
StatSyscall == "fstatat"

\* Mutant: the jump offsets of the BPF_JUMP swapped (jt 1, jf 0).
FilterJumpsSwapped ==
    << [op |-> "ld_nr"],
       [op |-> "jeq", k |-> "fstatat", jt |-> 1, jf |-> 0],
       [op |-> "ret", k |-> "EPERM"],
       [op |-> "ret", k |-> "ALLOW"] >>

\* The BPF program of installSeccompFilter: load the syscall number, if it
\* equals fstatat fall through to the EPERM return, else skip one to ALLOW.
Filter ==
    << [op |-> "ld_nr"],
       [op |-> "jeq", k |-> "fstatat", jt |-> 0, jf |-> 1],
       [op |-> "ret", k |-> "EPERM"],
       [op |-> "ret", k |-> "ALLOW"] >>

\* Run a forward-jumping BPF program on syscall nr from instruction 1.
\* A jump by n from instruction i goes to i + 1 + n, as in the kernel;
\* exec[i][acc] is the verdict from instruction i with accumulator acc.
BpfRun(prog, nr) ==
    LET exec[i \in 1..Len(prog) + 1] ==
            [acc \in Syscalls \cup {"none"} |->
                IF i > Len(prog) THEN "KILL"
                ELSE CASE prog[i].op = "ld_nr" -> exec[i + 1][nr]
                       [] prog[i].op = "jeq" ->
                            exec[i + 1 + (IF acc = prog[i].k THEN prog[i].jt
                                                             ELSE prog[i].jf)][acc]
                       [] prog[i].op = "ret" -> prog[i].k]
    IN  exec[1]["none"]

VARIABLES
    pc,          \* position in nativeTestFilesWithSurrogatePairs
    sb,          \* struct stat sb: the last type written, or "uninit"
    statResult,  \* statResult[i]: what stat number i returned
    pending,     \* the exception pending on the JNIEnv, or "none"
    filter,      \* the seccomp filter is installed in this process
    calls        \* calls of the native made so far in this process

vars == << pc, sb, statResult, pending, filter, calls >>

\* Bound on the calls of nativeTestFilesWithSurrogatePairs in one process.
MaxCalls == 2

Init ==
    /\ pc = "start"
    /\ sb = "uninit"
    /\ statResult = [i \in 1..2 |-> "none"]
    /\ pending = "none"
    /\ filter = FALSE
    /\ calls = 1

\* The outcomes stat can have: with the filter installed the kernel answers
\* fstatat with the filter's verdict.
StatCan ==
    IF filter /\ BpfRun(Filter, StatSyscall) = "EPERM" THEN {"fail"}
    ELSE StatOutcomes

\* jniThrowException / jniThrowIOException: replace any pending exception.
Throw(e) == pending' = e

(* The Java side installs the filter before the native test runs:          *)
(* PR_SET_NO_NEW_PRIVS (result ignored), then PR_SET_SECCOMP, which the    *)
(* kernel refuses unless no_new_privs is set.                              *)
InstallSeccompFilter ==
    /\ pc = "start"
    /\ ~filter
    /\ \E noNewPrivs \in BOOLEAN : filter' = noNewPrivs
    /\ UNCHANGED << pc, sb, statResult, pending, calls >>

(* ScopedUtfChars on baseDir; GetStringUTFChars may run out of memory and  *)
(* return nullptr, which std::string(nullptr) then dereferences.           *)
Enter ==
    /\ pc = "start"
    /\ \/ pc' = "stat1"
       \/ pc' = "crashed"
    /\ UNCHANGED << sb, statResult, pending, filter, calls >>

(* Mutant: stat without the `if (ret == -1) jniThrowIOException`.          *)
StatNoThrow(i) ==
    /\ pc = IF i = 1 THEN "stat1" ELSE "stat2"
    /\ pc' = IF i = 1 THEN "check1" ELSE "check2"
    /\ \E o \in StatCan :
          /\ statResult' = [statResult EXCEPT ![i] = o]
          /\ sb' = IF o = "fail" THEN sb ELSE o
    /\ UNCHANGED << pending, filter, calls >>

(* stat of the directory (i = 1) or the file (i = 2); on failure          *)
(* jniThrowIOException(errno), and sb keeps what it held.                  *)
Stat(i) ==
    /\ pc = IF i = 1 THEN "stat1" ELSE "stat2"
    /\ pc' = IF i = 1 THEN "check1" ELSE "check2"
    /\ \E o \in StatCan :
          /\ statResult' = [statResult EXCEPT ![i] = o]
          /\ IF o = "fail"
             THEN Throw("IOException") /\ UNCHANGED sb
             ELSE sb' = o /\ UNCHANGED pending
    /\ UNCHANGED << filter, calls >>

(* `if (!S_ISDIR(sb.st_mode))` (i = 1) or `if (!S_ISREG(sb.st_mode))`      *)
(* (i = 2): throw IllegalStateException.  An unwritten sb reads as any type.*)
Check(i) ==
    /\ pc = IF i = 1 THEN "check1" ELSE "check2"
    /\ pc' = IF i = 1 THEN "stat2" ELSE "done"
    /\ \E mode \in IF sb = "uninit" THEN Types ELSE {sb} :
          IF mode = (IF i = 1 THEN "dir" ELSE "reg")
          THEN UNCHANGED pending
          ELSE Throw("IllegalStateException")
    /\ UNCHANGED << sb, statResult, filter, calls >>

(* The Java side catches what the native threw and calls it again in a new *)
(* frame (sb uninitialised again); an installed filter stays in force for  *)
(* the rest of the process.                                               *)
CallAgain ==
    /\ pc = "done"
    /\ calls < MaxCalls
    /\ calls' = calls + 1
    /\ pc' = "start"
    /\ sb' = "uninit"
    /\ statResult' = [i \in 1..2 |-> "none"]
    /\ pending' = "none"
    /\ UNCHANGED << filter >>

Next ==
    \/ InstallSeccompFilter
    \/ CallAgain
    \/ Enter
    \/ \E i \in 1..2 : Stat(i) \/ Check(i)

Spec == Init /\ [][Next]_vars

-----------------------------------------------------------------------------
TypeOK ==
    /\ pc \in {"start", "stat1", "check1", "stat2", "check2", "done",
               "crashed"}
    /\ sb \in Types \cup {"uninit"}
    /\ statResult \in [1..2 -> StatOutcomes \cup {"none"}]
    /\ pending \in {"none", "IOException", "IllegalStateException"}
    /\ filter \in BOOLEAN
    /\ calls \in 1..MaxCalls

(* Once installSeccompFilter has succeeded, the process's filter denies    *)
(* exactly fstatat, with EPERM, and allows every other system call: the    *)
(* jump offsets of line 64 send a match to the EPERM return and anything   *)
(* else past it.                                                           *)
FilterDeniesOnlyFstatat ==
    filter =>
        \A nr \in Syscalls :
            BpfRun(Filter, nr) = IF nr = "fstatat" THEN "EPERM" ELSE "ALLOW"

(* When the native returns, FileTest fails (an exception is pending)       *)
(* exactly when the directory is missing or not a directory, or the file   *)
(* is missing or not a regular file, whatever sb held when it was read.    *)
FailsIffWrong ==
    pc = "done" =>
        (pending # "none" <=> (statResult[1] # "dir" \/ statResult[2] # "reg"))

(* When a stat fails, the native returns with the IOException that line   *)
(* 39 or 47 throws with stat's errno: jniThrowIOException is how the code  *)
(* reports a missing entry.  Broken because no return follows either       *)
(* throw.  After the directory's stat fails, line 41 reads the struct stat *)
(* nothing has written; after the file's stat fails, line 50 reads the     *)
(* directory's stale type.  Either read can throw IllegalStateException,   *)
(* which replaces the IOException.                                         *)
FailedStatReported ==
    pc = "done" /\ (statResult[1] = "fail" \/ statResult[2] = "fail")
        => pending = "IOException"

=============================================================================
