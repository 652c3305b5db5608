--------------------------- MODULE FileTestProofs ---------------------------
(* Proofs about nativeTestFilesWithSurrogatePairs, for every interleaving  *)
(* of the filter install, the stats' outcomes and the Java side's retries. *)
EXTENDS FileTestNative, TLAPS

(* What each position of the native knows about the exception pending and *)
(* the stats so far.  After a stat that succeeded sb holds its type; a     *)
(* stat that failed has thrown; a check throws exactly when the type is    *)
(* wrong, or keeps the IOException a failed stat left.                     *)
VerdictInv ==
    /\ pc \in {"start", "stat1", "crashed"} => pending = "none"
    /\ pc = "check1" =>
         /\ statResult[1] \in StatOutcomes
         /\ (pending # "none" <=> statResult[1] = "fail")
         /\ statResult[1] # "fail" => sb = statResult[1]
    /\ pc = "stat2" =>
         (pending # "none" <=> statResult[1] # "dir")
    /\ pc = "check2" =>
         /\ statResult[2] \in StatOutcomes
         /\ (pending # "none" <=>
               (statResult[1] # "dir" \/ statResult[2] = "fail"))
         /\ statResult[2] # "fail" => sb = statResult[2]
    /\ pc = "done" =>
         (pending # "none" <=> (statResult[1] # "dir" \/ statResult[2] # "reg"))

FInv == TypeOK /\ VerdictInv

(* The outcomes a stat may have are stat outcomes, whatever the filter.    *)
LEMMA StatCanOutcomes == StatCan \subseteq StatOutcomes
BY DEF StatCan, StatOutcomes

LEMMA FInvInit == Init => FInv
<1> SUFFICES ASSUME Init PROVE FInv
  OBVIOUS
<1>1. filter \in BOOLEAN
  BY Zenon DEF Init
<1>2. TypeOK
  BY <1>1 DEF Init, TypeOK, Types, StatOutcomes, MaxCalls
<1>3. VerdictInv
  BY DEF Init, VerdictInv
<1>4. QED
  BY <1>2, <1>3 DEF FInv

LEMMA FInvStep == FInv /\ [Next]_vars => FInv'
<1> SUFFICES ASSUME FInv, [Next]_vars PROVE FInv'
  OBVIOUS
<1> USE DEF FInv
<1>1. CASE InstallSeccompFilter
  BY <1>1 DEF InstallSeccompFilter, TypeOK, VerdictInv
<1>2. CASE CallAgain
  BY <1>2 DEF CallAgain, TypeOK, VerdictInv, MaxCalls, StatOutcomes, Types
<1>3. CASE Enter
  BY <1>3 DEF Enter, TypeOK, VerdictInv
<1>4. ASSUME NEW i \in 1..2, Stat(i) PROVE FInv'
  <2>1. PICK o \in StatCan :
           /\ statResult' = [statResult EXCEPT ![i] = o]
           /\ IF o = "fail"
              THEN Throw("IOException") /\ UNCHANGED sb
              ELSE sb' = o /\ UNCHANGED pending
    BY <1>4 DEF Stat
  <2>2. o \in StatOutcomes
    BY StatCanOutcomes
  <2>3. TypeOK'
    BY <1>4, <2>1, <2>2 DEF Stat, Throw, TypeOK, StatOutcomes, Types
  <2>4. VerdictInv'
    BY <1>4, <2>1, <2>2 DEF Stat, Throw, TypeOK, VerdictInv, StatOutcomes,
       Types
  <2>5. QED
    BY <2>3, <2>4
<1>5. ASSUME NEW i \in 1..2, Check(i) PROVE FInv'
  <2>1. PICK mode \in IF sb = "uninit" THEN Types ELSE {sb} :
           IF mode = (IF i = 1 THEN "dir" ELSE "reg")
           THEN UNCHANGED pending
           ELSE Throw("IllegalStateException")
    BY <1>5 DEF Check
  <2>2. TypeOK'
    BY <1>5, <2>1 DEF Check, Throw, TypeOK
  <2>3. VerdictInv'
    BY <1>5, <2>1 DEF Check, Throw, TypeOK, VerdictInv, StatOutcomes, Types
  <2>4. QED
    BY <2>2, <2>3
<1>6. CASE UNCHANGED vars
  BY <1>6 DEF vars, TypeOK, VerdictInv
<1>7. QED
  BY <1>1, <1>2, <1>3, <1>4, <1>5, <1>6 DEF Next

(* When the native returns, FileTest fails exactly when the directory or  *)
(* the file is missing or has the wrong type, for every outcome of the     *)
(* stats, every value an unwritten struct stat reads as, and any number of *)
(* retries: a failed stat's IOException survives the check that follows.   *)
THEOREM FailsIffWrongThm == Spec => []FailsIffWrong
<1>1. FInv => FailsIffWrong
  BY DEF FInv, VerdictInv, FailsIffWrong
<1>2. QED
  BY <1>1, FInvInit, FInvStep, PTL DEF Spec

-----------------------------------------------------------------------------
(* The seccomp filter.  BpfRun's exec is a recursive function, which the   *)
(* provers know only as CHOOSE exec : exec = [...].  Since Filter only     *)
(* jumps forward, its equation has the solution FilterTable, and any       *)
(* solution is read off at instruction 1 in four unfoldings.               *)

\* The right-hand side of exec's equation for Filter, at i and acc.
ExecBody(e, nr, i, acc) ==
    IF i > Len(Filter) THEN "KILL"
    ELSE CASE Filter[i].op = "ld_nr" -> e[i + 1][nr]
           [] Filter[i].op = "jeq" ->
                e[i + 1 + (IF acc = Filter[i].k THEN Filter[i].jt
                                                ELSE Filter[i].jf)][acc]
           [] Filter[i].op = "ret" -> Filter[i].k

\* exec's defining equation, for Filter and syscall nr.
ExecEq(e, nr) ==
    e = [i \in 1..Len(Filter) + 1 |->
            [acc \in Syscalls \cup {"none"} |-> ExecBody(e, nr, i, acc)]]

\* The verdict from each instruction of Filter, for each accumulator.
FilterTable(nr) ==
    [i \in 1..Len(Filter) + 1 |-> [acc \in Syscalls \cup {"none"} |->
        IF i = 1 THEN IF nr = "fstatat" THEN "EPERM" ELSE "ALLOW"
        ELSE IF i = 2 THEN IF acc = "fstatat" THEN "EPERM" ELSE "ALLOW"
        ELSE IF i = 3 THEN "EPERM"
        ELSE IF i = 4 THEN "ALLOW"
        ELSE "KILL"]]

(* What one step of Filter does from each instruction.                   *)
LEMMA ExecAt ==
    ASSUME NEW nr, NEW e, NEW acc
    PROVE  /\ ExecBody(e, nr, 1, acc) = e[2][nr]
           /\ ExecBody(e, nr, 2, acc) =
                IF acc = "fstatat" THEN e[3][acc] ELSE e[4][acc]
           /\ ExecBody(e, nr, 3, acc) = "EPERM"
           /\ ExecBody(e, nr, 4, acc) = "ALLOW"
           /\ ExecBody(e, nr, 5, acc) = "KILL"
<1>1. ExecBody(e, nr, 1, acc) = e[2][nr]
  <2>1. ~(1 > Len(Filter)) /\ Filter[1].op = "ld_nr" /\ 1 + 1 = 2
    BY DEF Filter
  <2>2. QED
    BY <2>1, Zenon DEF ExecBody
<1>2. ExecBody(e, nr, 2, acc) = IF acc = "fstatat" THEN e[3][acc] ELSE e[4][acc]
  <2>1. /\ ~(2 > Len(Filter)) /\ Filter[2].op = "jeq" /\ Filter[2].k = "fstatat"
        /\ 2 + 1 + Filter[2].jt = 3 /\ 2 + 1 + Filter[2].jf = 4
    BY DEF Filter
  <2>2. QED
    BY <2>1, Zenon DEF ExecBody
<1>3. ExecBody(e, nr, 3, acc) = "EPERM"
  <2>1. ~(3 > Len(Filter)) /\ Filter[3].op = "ret" /\ Filter[3].k = "EPERM"
    BY DEF Filter
  <2>2. QED
    BY <2>1, Zenon DEF ExecBody
<1>4. ExecBody(e, nr, 4, acc) = "ALLOW"
  <2>1. ~(4 > Len(Filter)) /\ Filter[4].op = "ret" /\ Filter[4].k = "ALLOW"
    BY DEF Filter
  <2>2. QED
    BY <2>1, Zenon DEF ExecBody
<1>5. ExecBody(e, nr, 5, acc) = "KILL"
  <2>1. 5 > Len(Filter)
    BY DEF Filter
  <2>2. QED
    BY <2>1, Zenon DEF ExecBody
<1>6. QED
  BY <1>1, <1>2, <1>3, <1>4, <1>5

(* FilterTable solves exec's equation, so exec is not an arbitrary value. *)
LEMMA TableSolves ==
    ASSUME NEW nr \in Syscalls
    PROVE  ExecEq(FilterTable(nr), nr)
<1> DEFINE T == FilterTable(nr)
<1>1. 1..Len(Filter) + 1 = {1, 2, 3, 4, 5}
  BY DEF Filter
<1>2. ASSUME NEW i \in 1..Len(Filter) + 1, NEW acc \in Syscalls \cup {"none"}
      PROVE  T[i][acc] = ExecBody(T, nr, i, acc)
  <2>1. /\ T[2][nr] = IF nr = "fstatat" THEN "EPERM" ELSE "ALLOW"
        /\ T[3][acc] = "EPERM" /\ T[4][acc] = "ALLOW"
    BY <1>1 DEF FilterTable, Syscalls
  <2>2. T[i][acc] = IF i = 1 THEN IF nr = "fstatat" THEN "EPERM" ELSE "ALLOW"
                    ELSE IF i = 2 THEN IF acc = "fstatat" THEN "EPERM" ELSE "ALLOW"
                    ELSE IF i = 3 THEN "EPERM"
                    ELSE IF i = 4 THEN "ALLOW"
                    ELSE "KILL"
    BY DEF FilterTable
  <2>3. QED
    BY <1>1, <2>1, <2>2, ExecAt
<1>3. /\ T = [i \in 1..Len(Filter) + 1 |-> T[i]]
      /\ \A i \in 1..Len(Filter) + 1 :
            T[i] = [acc \in Syscalls \cup {"none"} |-> T[i][acc]]
  BY DEF FilterTable
<1>4. \A i \in 1..Len(Filter) + 1 :
        T[i] = [acc \in Syscalls \cup {"none"} |-> ExecBody(T, nr, i, acc)]
  BY <1>2, <1>3
<1>5. QED
  BY <1>3, <1>4 DEF ExecEq

(* Filter's verdict on each system call.                                 *)
LEMMA FilterVerdicts ==
    ASSUME NEW nr \in Syscalls
    PROVE  BpfRun(Filter, nr) = IF nr = "fstatat" THEN "EPERM" ELSE "ALLOW"
<1>1. ExecEq(CHOOSE e : ExecEq(e, nr), nr)
  BY TableSolves
<1>2. BpfRun(Filter, nr) = (CHOOSE e : ExecEq(e, nr))[1]["none"]
  BY Zenon DEF BpfRun, ExecEq, ExecBody
<1>3. ASSUME NEW e, ExecEq(e, nr)
      PROVE  e[1]["none"] = IF nr = "fstatat" THEN "EPERM" ELSE "ALLOW"
  <2>1. {1, 2, 3, 4} \subseteq 1..Len(Filter) + 1
    BY DEF Filter
  <2>2. \A i \in 1..Len(Filter) + 1, acc \in Syscalls \cup {"none"} :
           e[i][acc] = ExecBody(e, nr, i, acc)
    BY <1>3 DEF ExecEq
  <2>3. QED
    BY <2>1, <2>2, ExecAt DEF Syscalls
<1>4. QED
  BY <1>1, <1>2, <1>3

(* Once installSeccompFilter's prctl has installed the program of lines   *)
(* 56-68, the kernel answers fstatat with EPERM and lets every other       *)
(* system call through: the BPF_JUMP offsets (0, 1) send a match to the    *)
(* EPERM return and anything else past it.                                 *)
THEOREM FilterDeniesOnlyFstatatThm == Spec => []FilterDeniesOnlyFstatat
<1>1. FilterDeniesOnlyFstatat
  BY FilterVerdicts DEF FilterDeniesOnlyFstatat
<1>2. QED
  BY <1>1, PTL
=============================================================================
