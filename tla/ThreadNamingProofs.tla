------------------------- MODULE ThreadNamingProofs -------------------------
(* Proof that nativeTestNativeThreadNames reports a failure exactly when   *)
(* something went wrong, over every interleaving of main with the two      *)
(* helper threads and every outcome of pthreads, the VM and prctl.         *)
EXTENDS ThreadNaming, TLAPS

(* What helper k itself saw go wrong: a failed attach, prctl or detach, or *)
(* a name the VM should not have left.                                     *)
HelperWrong(k) ==
    fault[k] # {} \/ (threadName[k] \in Names /\ ~VmObeys(k))

\* The positions of main after `if (result_test_k != nullptr)` of test k.
AfterReport(k) ==
    mainPc \in IF k = 1 THEN {"create2", "join2", "report2", "ret", "done"}
                        ELSE {"ret", "done"}
\* The positions of main before pthread_create of test k.
BeforeCreate(k) ==
    mainPc \in IF k = 1 THEN {"create1"} ELSE {"create1", "join1", "report1",
                                                "create2"}

(* Helper k's message says whether it saw something wrong, once it has    *)
(* checked the name; before that it has no message, fault or name.        *)
HelperInv(k) ==
    /\ created[k] # "yes" => helperPc[k] = "none"
    /\ created[k] = "yes" => helperPc[k] # "none"
    /\ helperPc[k] \in {"none", "run"} =>
         msg[k] = "null" /\ fault[k] = {} /\ threadName[k] = "none"
    /\ helperPc[k] = "check" =>
         msg[k] = "null" /\ fault[k] = {} /\ threadName[k] \in Names
    /\ helperPc[k] = "detach" => threadName[k] \in Names
    /\ helperPc[k] \in {"detach", "exited"} =>
         (msg[k] # "null" <=> HelperWrong(k))

(* main's view of test k: what result_test_k holds and whether k was       *)
(* appended to the result, at each of main's positions.                    *)
MainInv(k) ==
    /\ resultPtr[k] # "garbage" =>
         \/ created[k] = "yes" /\ helperPc[k] = "exited"
            /\ resultPtr[k] = msg[k]
         \/ created[k] = "failed" /\ resultPtr[k] = "null"
    /\ k \in result => resultPtr[k] \in Kinds
    /\ BeforeCreate(k) =>
         created[k] = "no" /\ resultPtr[k] = "garbage" /\ k \notin result
    /\ mainPc = JoinPc(k) =>
         created[k] # "no" /\ resultPtr[k] = "garbage" /\ k \notin result
    /\ mainPc = ReportPc(k) =>
         /\ created[k] # "no" /\ k \notin result
         /\ created[k] = "yes" => resultPtr[k] # "garbage"
    /\ AfterReport(k) =>
         /\ created[k] # "no"
         /\ created[k] = "yes" => resultPtr[k] # "garbage"
         /\ resultPtr[k] \in Kinds => k \in result

(* The inductive invariant: an exception is pending exactly when a         *)
(* pthread_create failed, and `returned` is set only by the return.        *)
VInv ==
    /\ TypeOK
    /\ pending <=> \E k \in Tests : created[k] = "failed"
    /\ mainPc = "done" => returned = (result # {})
    /\ \A k \in Tests : HelperInv(k) /\ MainInv(k)

(* The invariant holds before main starts.                               *)
LEMMA VInvInit == Init => VInv
<1> SUFFICES ASSUME Init PROVE VInv
  OBVIOUS
<1>1. pending \in BOOLEAN /\ returned \in BOOLEAN
  BY Zenon DEF Init
<1>2. TypeOK
  BY <1>1 DEF Init, TypeOK, Tests, Kinds, Names
<1>3. \A k \in Tests : HelperInv(k) /\ MainInv(k)
  BY DEF Init, Tests, HelperInv, MainInv, BeforeCreate, AfterReport, JoinPc,
     ReportPc
<1>4. QED
  BY <1>2, <1>3 DEF Init, VInv

(* Every step of main or of a helper preserves it: one step per action,  *)
(* split where the code branches, and under it one per part of VInv.      *)
LEMMA VInvStep == VInv /\ [Next]_vars => VInv'
<1> SUFFICES ASSUME VInv, [Next]_vars PROVE VInv'
  OBVIOUS
<1>1. ASSUME NEW k \in Tests, Create(k) PROVE VInv'
  <2>1. CASE created' = [created EXCEPT ![k] = "yes"]
    <3>1. pending' \in BOOLEAN /\ returned' \in BOOLEAN
      BY <1>1, <2>1, Zenon DEF Create, VInv, TypeOK
    <3>2. TypeOK'
      BY <1>1, <2>1, <3>1 DEF Create, VInv, TypeOK, Tests, Kinds, Names,
         CreatePc, JoinPc, ReportPc
    <3>3. (pending <=> \E j \in Tests : created[j] = "failed")'
      BY <1>1, <2>1, <3>2 DEF Create, VInv, TypeOK, Tests,
         MainInv, AfterReport, BeforeCreate, CreatePc, JoinPc, ReportPc
    <3>4. (mainPc = "done" => returned = (result # {}))'
      BY <1>1, <2>1, <3>2 DEF Create, VInv, TypeOK,
         MainInv, AfterReport, BeforeCreate, CreatePc, JoinPc, ReportPc
    <3>5. \A j \in Tests : HelperInv(j)'
      BY <1>1, <2>1, <3>2 DEF Create, VInv, TypeOK, Tests, Kinds, Names,
         HelperInv, HelperWrong, VmObeys, WithName, AttachArg, StartsWithThread,
         MainInv, AfterReport, BeforeCreate, CreatePc, JoinPc, ReportPc
    <3>6. \A j \in Tests : MainInv(j)'
      BY <1>1, <2>1, <3>2 DEF Create, VInv, TypeOK, Tests, Kinds, Names,
         HelperInv, HelperWrong, VmObeys, WithName, AttachArg, StartsWithThread,
         MainInv, AfterReport, BeforeCreate, CreatePc, JoinPc, ReportPc
    <3>7. QED
      BY <3>2, <3>3, <3>4, <3>5, <3>6 DEF VInv
  <2>2. CASE created' = [created EXCEPT ![k] = "failed"]
    <3>1. pending' \in BOOLEAN /\ returned' \in BOOLEAN
      BY <1>1, <2>2, Zenon DEF Create, VInv, TypeOK
    <3>2. TypeOK'
      BY <1>1, <2>2, <3>1 DEF Create, VInv, TypeOK, Tests, Kinds, Names,
         CreatePc, JoinPc, ReportPc
    <3>3. (pending <=> \E j \in Tests : created[j] = "failed")'
      BY <1>1, <2>2, <3>2 DEF Create, VInv, TypeOK, Tests,
         MainInv, AfterReport, BeforeCreate, CreatePc, JoinPc, ReportPc
    <3>4. (mainPc = "done" => returned = (result # {}))'
      BY <1>1, <2>2, <3>2 DEF Create, VInv, TypeOK,
         MainInv, AfterReport, BeforeCreate, CreatePc, JoinPc, ReportPc
    <3>5. \A j \in Tests : HelperInv(j)'
      BY <1>1, <2>2, <3>2 DEF Create, VInv, TypeOK, Tests, Kinds, Names,
         HelperInv, HelperWrong, VmObeys, WithName, AttachArg, StartsWithThread,
         MainInv, AfterReport, BeforeCreate, CreatePc, JoinPc, ReportPc
    <3>6. \A j \in Tests : MainInv(j)'
      BY <1>1, <2>2, <3>2 DEF Create, VInv, TypeOK, Tests, Kinds, Names,
         HelperInv, HelperWrong, VmObeys, WithName, AttachArg, StartsWithThread,
         MainInv, AfterReport, BeforeCreate, CreatePc, JoinPc, ReportPc
    <3>7. QED
      BY <3>2, <3>3, <3>4, <3>5, <3>6 DEF VInv
  <2>3. QED
    BY <1>1, <2>1, <2>2 DEF Create
<1>2. ASSUME NEW k \in Tests, JoinCreated(k) PROVE VInv'
  <2>1. pending' \in BOOLEAN /\ returned' \in BOOLEAN
    BY <1>2, Zenon DEF JoinCreated, VInv, TypeOK
  <2>2. TypeOK'
    BY <1>2, <2>1 DEF JoinCreated, VInv, TypeOK, Tests, Kinds, Names,
       CreatePc, JoinPc, ReportPc
  <2>3. (pending <=> \E j \in Tests : created[j] = "failed")'
    BY <1>2, <2>2 DEF JoinCreated, VInv, TypeOK, Tests,
       MainInv, AfterReport, BeforeCreate, CreatePc, JoinPc, ReportPc
  <2>4. (mainPc = "done" => returned = (result # {}))'
    BY <1>2, <2>2 DEF JoinCreated, VInv, TypeOK,
       MainInv, AfterReport, BeforeCreate, CreatePc, JoinPc, ReportPc
  <2>5. \A j \in Tests : HelperInv(j)'
    BY <1>2, <2>2 DEF JoinCreated, VInv, TypeOK, Tests, Kinds, Names,
       HelperInv, HelperWrong, VmObeys, WithName, AttachArg, StartsWithThread,
       MainInv, AfterReport, BeforeCreate, CreatePc, JoinPc, ReportPc
  <2>6. \A j \in Tests : MainInv(j)'
    BY <1>2, <2>2 DEF JoinCreated, VInv, TypeOK, Tests, Kinds, Names,
       HelperInv, HelperWrong, VmObeys, WithName, AttachArg, StartsWithThread,
       MainInv, AfterReport, BeforeCreate, CreatePc, JoinPc, ReportPc
  <2>7. QED
    BY <2>2, <2>3, <2>4, <2>5, <2>6 DEF VInv
<1>3. ASSUME NEW k \in Tests, JoinUncreated(k) PROVE VInv'
  <2>1. CASE mainPc' = "crashed"
    <3>1. pending' \in BOOLEAN /\ returned' \in BOOLEAN
      BY <1>3, <2>1, Zenon DEF JoinUncreated, VInv, TypeOK
    <3>2. TypeOK'
      BY <1>3, <2>1, <3>1 DEF JoinUncreated, VInv, TypeOK, Tests, Kinds, Names,
         CreatePc, JoinPc, ReportPc
    <3>3. (pending <=> \E j \in Tests : created[j] = "failed")'
      BY <1>3, <2>1, <3>2 DEF JoinUncreated, VInv, TypeOK, Tests,
         MainInv, AfterReport, BeforeCreate, CreatePc, JoinPc, ReportPc
    <3>4. (mainPc = "done" => returned = (result # {}))'
      BY <1>3, <2>1, <3>2 DEF JoinUncreated, VInv, TypeOK,
         MainInv, AfterReport, BeforeCreate, CreatePc, JoinPc, ReportPc
    <3>5. \A j \in Tests : HelperInv(j)'
      BY <1>3, <2>1, <3>2 DEF JoinUncreated, VInv, TypeOK, Tests, Kinds, Names,
         HelperInv, HelperWrong, VmObeys, WithName, AttachArg, StartsWithThread,
         MainInv, AfterReport, BeforeCreate, CreatePc, JoinPc, ReportPc
    <3>6. \A j \in Tests : MainInv(j)'
      BY <1>3, <2>1, <3>2 DEF JoinUncreated, VInv, TypeOK, Tests, Kinds, Names,
         HelperInv, HelperWrong, VmObeys, WithName, AttachArg, StartsWithThread,
         MainInv, AfterReport, BeforeCreate, CreatePc, JoinPc, ReportPc
    <3>7. QED
      BY <3>2, <3>3, <3>4, <3>5, <3>6 DEF VInv
  <2>2. CASE mainPc' = ReportPc(k)
    <3>1. pending' \in BOOLEAN /\ returned' \in BOOLEAN
      BY <1>3, <2>2, Zenon DEF JoinUncreated, VInv, TypeOK
    <3>2. TypeOK'
      BY <1>3, <2>2, <3>1 DEF JoinUncreated, VInv, TypeOK, Tests, Kinds, Names,
         CreatePc, JoinPc, ReportPc
    <3>3. (pending <=> \E j \in Tests : created[j] = "failed")'
      BY <1>3, <2>2, <3>2 DEF JoinUncreated, VInv, TypeOK, Tests,
         MainInv, AfterReport, BeforeCreate, CreatePc, JoinPc, ReportPc
    <3>4. (mainPc = "done" => returned = (result # {}))'
      BY <1>3, <2>2, <3>2 DEF JoinUncreated, VInv, TypeOK,
         MainInv, AfterReport, BeforeCreate, CreatePc, JoinPc, ReportPc
    <3>5. \A j \in Tests : HelperInv(j)'
      BY <1>3, <2>2, <3>2 DEF JoinUncreated, VInv, TypeOK, Tests, Kinds, Names,
         HelperInv, HelperWrong, VmObeys, WithName, AttachArg, StartsWithThread,
         MainInv, AfterReport, BeforeCreate, CreatePc, JoinPc, ReportPc
    <3>6. \A j \in Tests : MainInv(j)'
      BY <1>3, <2>2, <3>2 DEF JoinUncreated, VInv, TypeOK, Tests, Kinds, Names,
         HelperInv, HelperWrong, VmObeys, WithName, AttachArg, StartsWithThread,
         MainInv, AfterReport, BeforeCreate, CreatePc, JoinPc, ReportPc
    <3>7. QED
      BY <3>2, <3>3, <3>4, <3>5, <3>6 DEF VInv
  <2>3. QED
    BY <1>3, <2>1, <2>2 DEF JoinUncreated
<1>4. ASSUME NEW k \in Tests, Report(k) PROVE VInv'
  <2>1. CASE resultPtr[k] \in Kinds
    <3>1. pending' \in BOOLEAN /\ returned' \in BOOLEAN
      BY <1>4, <2>1, Zenon DEF Report, VInv, TypeOK
    <3>2. TypeOK'
      BY <1>4, <2>1, <3>1 DEF Report, VInv, TypeOK, Tests, Kinds, Names,
         CreatePc, JoinPc, ReportPc
    <3>3. (pending <=> \E j \in Tests : created[j] = "failed")'
      BY <1>4, <2>1, <3>2 DEF Report, VInv, TypeOK, Tests,
         MainInv, AfterReport, BeforeCreate, CreatePc, JoinPc, ReportPc
    <3>4. (mainPc = "done" => returned = (result # {}))'
      BY <1>4, <2>1, <3>2 DEF Report, VInv, TypeOK,
         MainInv, AfterReport, BeforeCreate, CreatePc, JoinPc, ReportPc
    <3>5. \A j \in Tests : HelperInv(j)'
      BY <1>4, <2>1, <3>2 DEF Report, VInv, TypeOK, Tests, Kinds, Names,
         HelperInv, HelperWrong, VmObeys, WithName, AttachArg, StartsWithThread,
         MainInv, AfterReport, BeforeCreate, CreatePc, JoinPc, ReportPc
    <3>6. \A j \in Tests : MainInv(j)'
      BY <1>4, <2>1, <3>2 DEF Report, VInv, TypeOK, Tests, Kinds, Names,
         HelperInv, HelperWrong, VmObeys, WithName, AttachArg, StartsWithThread,
         MainInv, AfterReport, BeforeCreate, CreatePc, JoinPc, ReportPc
    <3>7. QED
      BY <3>2, <3>3, <3>4, <3>5, <3>6 DEF VInv
  <2>2. CASE resultPtr[k] = "null"
    <3>1. pending' \in BOOLEAN /\ returned' \in BOOLEAN
      BY <1>4, <2>2, Zenon DEF Report, VInv, TypeOK
    <3>2. TypeOK'
      BY <1>4, <2>2, <3>1 DEF Report, VInv, TypeOK, Tests, Kinds, Names,
         CreatePc, JoinPc, ReportPc
    <3>3. (pending <=> \E j \in Tests : created[j] = "failed")'
      BY <1>4, <2>2, <3>2 DEF Report, VInv, TypeOK, Tests,
         MainInv, AfterReport, BeforeCreate, CreatePc, JoinPc, ReportPc
    <3>4. (mainPc = "done" => returned = (result # {}))'
      BY <1>4, <2>2, <3>2 DEF Report, VInv, TypeOK,
         MainInv, AfterReport, BeforeCreate, CreatePc, JoinPc, ReportPc
    <3>5. \A j \in Tests : HelperInv(j)'
      BY <1>4, <2>2, <3>2 DEF Report, VInv, TypeOK, Tests, Kinds, Names,
         HelperInv, HelperWrong, VmObeys, WithName, AttachArg, StartsWithThread,
         MainInv, AfterReport, BeforeCreate, CreatePc, JoinPc, ReportPc
    <3>6. \A j \in Tests : MainInv(j)'
      BY <1>4, <2>2, <3>2 DEF Report, VInv, TypeOK, Tests, Kinds, Names,
         HelperInv, HelperWrong, VmObeys, WithName, AttachArg, StartsWithThread,
         MainInv, AfterReport, BeforeCreate, CreatePc, JoinPc, ReportPc
    <3>7. QED
      BY <3>2, <3>3, <3>4, <3>5, <3>6 DEF VInv
  <2>3. CASE resultPtr[k] = "garbage" /\ mainPc' = "crashed"
    <3>1. pending' \in BOOLEAN /\ returned' \in BOOLEAN
      BY <1>4, <2>3, Zenon DEF Report, VInv, TypeOK
    <3>2. TypeOK'
      BY <1>4, <2>3, <3>1 DEF Report, VInv, TypeOK, Tests, Kinds, Names,
         CreatePc, JoinPc, ReportPc
    <3>3. (pending <=> \E j \in Tests : created[j] = "failed")'
      BY <1>4, <2>3, <3>2 DEF Report, VInv, TypeOK, Tests,
         MainInv, AfterReport, BeforeCreate, CreatePc, JoinPc, ReportPc
    <3>4. (mainPc = "done" => returned = (result # {}))'
      BY <1>4, <2>3, <3>2 DEF Report, VInv, TypeOK,
         MainInv, AfterReport, BeforeCreate, CreatePc, JoinPc, ReportPc
    <3>5. \A j \in Tests : HelperInv(j)'
      BY <1>4, <2>3, <3>2 DEF Report, VInv, TypeOK, Tests, Kinds, Names,
         HelperInv, HelperWrong, VmObeys, WithName, AttachArg, StartsWithThread,
         MainInv, AfterReport, BeforeCreate, CreatePc, JoinPc, ReportPc
    <3>6. \A j \in Tests : MainInv(j)'
      BY <1>4, <2>3, <3>2 DEF Report, VInv, TypeOK, Tests, Kinds, Names,
         HelperInv, HelperWrong, VmObeys, WithName, AttachArg, StartsWithThread,
         MainInv, AfterReport, BeforeCreate, CreatePc, JoinPc, ReportPc
    <3>7. QED
      BY <3>2, <3>3, <3>4, <3>5, <3>6 DEF VInv
  <2>4. CASE resultPtr[k] = "garbage" /\ mainPc' # "crashed"
    <3>1. pending' \in BOOLEAN /\ returned' \in BOOLEAN
      BY <1>4, <2>4, Zenon DEF Report, VInv, TypeOK
    <3>2. TypeOK'
      BY <1>4, <2>4, <3>1 DEF Report, VInv, TypeOK, Tests, Kinds, Names,
         CreatePc, JoinPc, ReportPc
    <3>3. (pending <=> \E j \in Tests : created[j] = "failed")'
      BY <1>4, <2>4, <3>2 DEF Report, VInv, TypeOK, Tests,
         MainInv, AfterReport, BeforeCreate, CreatePc, JoinPc, ReportPc
    <3>4. (mainPc = "done" => returned = (result # {}))'
      BY <1>4, <2>4, <3>2 DEF Report, VInv, TypeOK,
         MainInv, AfterReport, BeforeCreate, CreatePc, JoinPc, ReportPc
    <3>5. \A j \in Tests : HelperInv(j)'
      BY <1>4, <2>4, <3>2 DEF Report, VInv, TypeOK, Tests, Kinds, Names,
         HelperInv, HelperWrong, VmObeys, WithName, AttachArg, StartsWithThread,
         MainInv, AfterReport, BeforeCreate, CreatePc, JoinPc, ReportPc
    <3>6. \A j \in Tests : MainInv(j)'
      BY <1>4, <2>4, <3>2 DEF Report, VInv, TypeOK, Tests, Kinds, Names,
         HelperInv, HelperWrong, VmObeys, WithName, AttachArg, StartsWithThread,
         MainInv, AfterReport, BeforeCreate, CreatePc, JoinPc, ReportPc
    <3>7. QED
      BY <3>2, <3>3, <3>4, <3>5, <3>6 DEF VInv
  <2>5. QED
    BY <1>4, <2>1, <2>2, <2>3, <2>4 DEF Report
<1>5. ASSUME NEW k \in Tests, HelperAttach(k) PROVE VInv'
  <2>1. pending' \in BOOLEAN /\ returned' \in BOOLEAN
    BY <1>5, Zenon DEF HelperAttach, NewMessage, VInv, TypeOK
  <2>2. TypeOK'
    BY <1>5, <2>1 DEF HelperAttach, NewMessage, VInv, TypeOK, Tests, Kinds, Names,
       CreatePc, JoinPc, ReportPc
  <2>3. (pending <=> \E j \in Tests : created[j] = "failed")'
    BY <1>5, <2>2 DEF HelperAttach, NewMessage, VInv, TypeOK, Tests,
       MainInv, AfterReport, BeforeCreate, CreatePc, JoinPc, ReportPc
  <2>4. (mainPc = "done" => returned = (result # {}))'
    BY <1>5, <2>2 DEF HelperAttach, NewMessage, VInv, TypeOK,
       MainInv, AfterReport, BeforeCreate, CreatePc, JoinPc, ReportPc
  <2>5. \A j \in Tests : HelperInv(j)'
    BY <1>5, <2>2 DEF HelperAttach, NewMessage, VInv, TypeOK, Tests, Kinds, Names,
       HelperInv, HelperWrong, VmObeys, WithName, AttachArg, StartsWithThread,
       MainInv, AfterReport, BeforeCreate, CreatePc, JoinPc, ReportPc
  <2>6. \A j \in Tests : MainInv(j)'
    BY <1>5, <2>2 DEF HelperAttach, NewMessage, VInv, TypeOK, Tests, Kinds, Names,
       HelperInv, HelperWrong, VmObeys, WithName, AttachArg, StartsWithThread,
       MainInv, AfterReport, BeforeCreate, CreatePc, JoinPc, ReportPc
  <2>7. QED
    BY <2>2, <2>3, <2>4, <2>5, <2>6 DEF VInv
<1>6. ASSUME NEW k \in Tests, HelperCheck(k) PROVE VInv'
  <2>1. pending' \in BOOLEAN /\ returned' \in BOOLEAN
    BY <1>6, Zenon DEF HelperCheck, NewMessage, VInv, TypeOK
  <2>2. TypeOK'
    BY <1>6, <2>1 DEF HelperCheck, NewMessage, VInv, TypeOK, Tests, Kinds, Names,
       CreatePc, JoinPc, ReportPc
  <2>3. (pending <=> \E j \in Tests : created[j] = "failed")'
    BY <1>6, <2>2 DEF HelperCheck, NewMessage, VInv, TypeOK, Tests,
       MainInv, AfterReport, BeforeCreate, CreatePc, JoinPc, ReportPc
  <2>4. (mainPc = "done" => returned = (result # {}))'
    BY <1>6, <2>2 DEF HelperCheck, NewMessage, VInv, TypeOK,
       MainInv, AfterReport, BeforeCreate, CreatePc, JoinPc, ReportPc
  <2>5. \A j \in Tests : HelperInv(j)'
    BY <1>6, <2>2 DEF HelperCheck, NewMessage, VInv, TypeOK, Tests, Kinds, Names,
       HelperInv, HelperWrong, VmObeys, WithName, AttachArg, StartsWithThread,
       MainInv, AfterReport, BeforeCreate, CreatePc, JoinPc, ReportPc
  <2>6. \A j \in Tests : MainInv(j)'
    BY <1>6, <2>2 DEF HelperCheck, NewMessage, VInv, TypeOK, Tests, Kinds, Names,
       HelperInv, HelperWrong, VmObeys, WithName, AttachArg, StartsWithThread,
       MainInv, AfterReport, BeforeCreate, CreatePc, JoinPc, ReportPc
  <2>7. QED
    BY <2>2, <2>3, <2>4, <2>5, <2>6 DEF VInv
<1>7. ASSUME NEW k \in Tests, HelperDetach(k) PROVE VInv'
  <2>1. pending' \in BOOLEAN /\ returned' \in BOOLEAN
    BY <1>7, Zenon DEF HelperDetach, NewMessage, VInv, TypeOK
  <2>2. TypeOK'
    BY <1>7, <2>1 DEF HelperDetach, NewMessage, VInv, TypeOK, Tests, Kinds, Names,
       CreatePc, JoinPc, ReportPc
  <2>3. (pending <=> \E j \in Tests : created[j] = "failed")'
    BY <1>7, <2>2 DEF HelperDetach, NewMessage, VInv, TypeOK, Tests,
       MainInv, AfterReport, BeforeCreate, CreatePc, JoinPc, ReportPc
  <2>4. (mainPc = "done" => returned = (result # {}))'
    BY <1>7, <2>2 DEF HelperDetach, NewMessage, VInv, TypeOK,
       MainInv, AfterReport, BeforeCreate, CreatePc, JoinPc, ReportPc
  <2>5. \A j \in Tests : HelperInv(j)'
    BY <1>7, <2>2 DEF HelperDetach, NewMessage, VInv, TypeOK, Tests, Kinds, Names,
       HelperInv, HelperWrong, VmObeys, WithName, AttachArg, StartsWithThread,
       MainInv, AfterReport, BeforeCreate, CreatePc, JoinPc, ReportPc
  <2>6. \A j \in Tests : MainInv(j)'
    BY <1>7, <2>2 DEF HelperDetach, NewMessage, VInv, TypeOK, Tests, Kinds, Names,
       HelperInv, HelperWrong, VmObeys, WithName, AttachArg, StartsWithThread,
       MainInv, AfterReport, BeforeCreate, CreatePc, JoinPc, ReportPc
  <2>7. QED
    BY <2>2, <2>3, <2>4, <2>5, <2>6 DEF VInv
<1>8. CASE Return
  <2>1. pending' \in BOOLEAN /\ returned' \in BOOLEAN
    BY <1>8, Zenon DEF Return, VInv, TypeOK
  <2>2. TypeOK'
    BY <1>8, <2>1 DEF Return, VInv, TypeOK, Tests, Kinds, Names,
       CreatePc, JoinPc, ReportPc
  <2>3. (pending <=> \E j \in Tests : created[j] = "failed")'
    BY <1>8, <2>2 DEF Return, VInv, TypeOK, Tests,
       MainInv, AfterReport, BeforeCreate, CreatePc, JoinPc, ReportPc
  <2>4. (mainPc = "done" => returned = (result # {}))'
    BY <1>8, <2>2 DEF Return, VInv, TypeOK,
       MainInv, AfterReport, BeforeCreate, CreatePc, JoinPc, ReportPc
  <2>5. \A j \in Tests : HelperInv(j)'
    BY <1>8, <2>2 DEF Return, VInv, TypeOK, Tests, Kinds, Names,
       HelperInv, HelperWrong, VmObeys, WithName, AttachArg, StartsWithThread,
       MainInv, AfterReport, BeforeCreate, CreatePc, JoinPc, ReportPc
  <2>6. \A j \in Tests : MainInv(j)'
    BY <1>8, <2>2 DEF Return, VInv, TypeOK, Tests, Kinds, Names,
       HelperInv, HelperWrong, VmObeys, WithName, AttachArg, StartsWithThread,
       MainInv, AfterReport, BeforeCreate, CreatePc, JoinPc, ReportPc
  <2>7. QED
    BY <2>2, <2>3, <2>4, <2>5, <2>6 DEF VInv
<1>9. CASE UNCHANGED vars
  <2>1. pending' \in BOOLEAN /\ returned' \in BOOLEAN
    BY <1>9, Zenon DEF vars, VInv, TypeOK
  <2>2. TypeOK'
    BY <1>9, <2>1 DEF vars, VInv, TypeOK, Tests, Kinds, Names,
       CreatePc, JoinPc, ReportPc
  <2>3. (pending <=> \E j \in Tests : created[j] = "failed")'
    BY <1>9, <2>2 DEF vars, VInv, TypeOK, Tests,
       MainInv, AfterReport, BeforeCreate, CreatePc, JoinPc, ReportPc
  <2>4. (mainPc = "done" => returned = (result # {}))'
    BY <1>9, <2>2 DEF vars, VInv, TypeOK,
       MainInv, AfterReport, BeforeCreate, CreatePc, JoinPc, ReportPc
  <2>5. \A j \in Tests : HelperInv(j)'
    BY <1>9, <2>2 DEF vars, VInv, TypeOK, Tests, Kinds, Names,
       HelperInv, HelperWrong, VmObeys, WithName, AttachArg, StartsWithThread,
       MainInv, AfterReport, BeforeCreate, CreatePc, JoinPc, ReportPc
  <2>6. \A j \in Tests : MainInv(j)'
    BY <1>9, <2>2 DEF vars, VInv, TypeOK, Tests, Kinds, Names,
       HelperInv, HelperWrong, VmObeys, WithName, AttachArg, StartsWithThread,
       MainInv, AfterReport, BeforeCreate, CreatePc, JoinPc, ReportPc
  <2>7. QED
    BY <2>2, <2>3, <2>4, <2>5, <2>6 DEF VInv
<1>10. QED
  BY <1>1, <1>2, <1>3, <1>4, <1>5, <1>6, <1>7, <1>8, <1>9 DEF Next

(* When nativeTestNativeThreadNames returns, the test fails exactly when   *)
(* a pthread_create, an attach, prctl or detach failed or the VM named a   *)
(* thread wrongly.  At "done" both tests have passed their report: a       *)
(* created helper has exited and its message, appended iff non-null,       *)
(* says whether it saw something wrong; a failed create left an exception  *)
(* pending and its helper never ran.                                       *)
THEOREM VerdictSoundThm == Spec => []VerdictSound
<1>1. VInv => VerdictSound
  <2> SUFFICES ASSUME VInv, mainPc = "done"
               PROVE (pending \/ returned) <=> SomethingWrong
    BY DEF VerdictSound
  <2>1. \A k \in Tests : created[k] = "failed" => ~HelperWrong(k)
    BY DEF VInv, TypeOK, HelperInv, HelperWrong, Names
  <2>2. \A k \in Tests : HelperWrong(k) <=> k \in result
    <3> SUFFICES ASSUME NEW k \in Tests PROVE HelperWrong(k) <=> k \in result
      OBVIOUS
    <3>1. AfterReport(k) /\ HelperInv(k) /\ MainInv(k)
      BY DEF VInv, AfterReport, Tests
    <3>2. CASE created[k] = "yes"
      <4>1. helperPc[k] = "exited" /\ resultPtr[k] = msg[k]
        BY <3>1, <3>2 DEF MainInv
      <4>2. msg[k] # "null" <=> HelperWrong(k)
        BY <3>1, <4>1 DEF HelperInv
      <4>3. msg[k] \in Kinds \cup {"null"}
        BY DEF VInv, TypeOK
      <4>4. k \in result <=> resultPtr[k] \in Kinds
        BY <3>1, <3>2 DEF MainInv
      <4>5. QED
        BY <4>1, <4>2, <4>3, <4>4 DEF Kinds
    <3>3. CASE created[k] = "failed"
      <4>1. resultPtr[k] \notin Kinds
        BY <3>1, <3>3 DEF MainInv, Kinds
      <4>2. QED
        BY <2>1, <3>1, <3>3, <4>1 DEF MainInv
    <3>4. QED
      BY <3>1, <3>2, <3>3 DEF MainInv, VInv, TypeOK
  <2>3. SomethingWrong <=> (pending \/ \E k \in Tests : HelperWrong(k))
    BY <2>1 DEF VInv, SomethingWrong, HelperWrong
  <2>4. returned <=> \E k \in Tests : k \in result
    BY DEF VInv, TypeOK
  <2>5. QED
    BY <2>2, <2>3, <2>4
<1>2. QED
  BY <1>1, VInvInit, VInvStep, PTL DEF Spec
=============================================================================
