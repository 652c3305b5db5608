---------------------------- MODULE ThreadNaming ----------------------------
(***************************************************************************)
(* The native half of ThreadTest.testNativeThreadNames                     *)
(* (luni/src/test/native/libcore_java_lang_ThreadTest.cpp).  The Java     *)
(* thread (main) runs two tests one after the other; each creates a        *)
(* pthread running TestThreadNaming, joins it and appends the std::string* *)
(* it returned (a failure message, or nullptr) to the result.  The helper  *)
(* names itself "foozball", attaches to the VM with or without a name,     *)
(* reads its name back with prctl(PR_GET_NAME), compares and detaches.     *)
(*                                                                         *)
(* The VM (attach renames the thread), pthreads and prctl are the          *)
(* environment: each of their calls may succeed or fail, and the name the *)
(* VM leaves on the thread is any of Names, right or wrong.  The strings   *)
(* are abstracted to which message was built.  Reading the uninitialised   *)
(* pthread_t or std::string* after a failed pthread_create is undefined;   *)
(* its outcomes are bionic aborting, or the garbage pointer behaving as     *)
(* nullptr or as a wild pointer whose use crashes.                          *)
(***************************************************************************)

Tests == {1, 2}

\* pthread_create's argument: test 1 passes 0, test 2 passes 1.
AttachArg == [k \in Tests |-> IF k = 1 THEN 0 ELSE 1]
WithName(k) == AttachArg[k] = 1

\* The native thread names the VM may leave; only "Thread-N" starts with
\* "Thread" (the strncmp of line 63).
Names == {"foozball", "Thread-N", "other"}
StartsWithThread(n) == n = "Thread-N"

\* The failure messages TestThreadNaming can allocate.
Kinds == {"AttachFailed", "NameMismatch", "UnexpectedName", "PrctlFailed",
          "DetachFailed"}

VARIABLES
    mainPc,      \* position of main in nativeTestNativeThreadNames
    created,     \* created[k]: "no", "yes" or "failed" (pthread_create)
    resultPtr,   \* result_test_k: a message, "null", or "garbage" (unset)
    result,      \* tests whose message was appended to `result`
    pending,     \* a Java exception is pending on main's JNIEnv
    returned,    \* the returned jstring is non-null
    helperPc,    \* helperPc[k]: position of TestThreadNaming for test k
    threadName,  \* the native name of helper k after attaching
    msg,         \* exception_message (then return value) of helper k
    allocated,   \* messages <<k, kind>> allocated and not yet deleted
    fault        \* environment calls that failed for helper k

vars == << mainPc, created, resultPtr, result, pending, returned,
           helperPc, threadName, msg, allocated, fault >>

Init ==
    /\ mainPc = "create1"
    /\ created = [k \in Tests |-> "no"]
    /\ resultPtr = [k \in Tests |-> "garbage"]
    /\ result = {}
    /\ pending = FALSE
    /\ returned = FALSE
    /\ helperPc = [k \in Tests |-> "none"]
    /\ threadName = [k \in Tests |-> "none"]
    /\ msg = [k \in Tests |-> "null"]
    /\ allocated = {}
    /\ fault = [k \in Tests |-> {}]

CreatePc(k) == IF k = 1 THEN "create1" ELSE "create2"
JoinPc(k) == IF k = 1 THEN "join1" ELSE "join2"
ReportPc(k) == IF k = 1 THEN "report1" ELSE "report2"

(* `new std::string(kind)` assigned to exception_message (or returned).    *)
NewMessage(k, kind) ==
    /\ msg' = [msg EXCEPT ![k] = kind]
    /\ allocated' = allocated \cup {<< k, kind >>}

-----------------------------------------------------------------------------
(* main: pthread_create; on failure jniThrowException (which discards any  *)
(* pending exception) and carry on.                                        *)
Create(k) ==
    /\ mainPc = CreatePc(k)
    /\ mainPc' = JoinPc(k)
    /\ \/ /\ created' = [created EXCEPT ![k] = "yes"]
          /\ helperPc' = [helperPc EXCEPT ![k] = "run"]
          /\ UNCHANGED pending
       \/ /\ created' = [created EXCEPT ![k] = "failed"]
          /\ pending' = TRUE
          /\ UNCHANGED helperPc
    /\ UNCHANGED << resultPtr, result, returned, threadName, msg, allocated,
                    fault >>

(* main: pthread_join of a created thread waits for it to exit and stores  *)
(* its return value in result_test_k.                                      *)
JoinCreated(k) ==
    /\ mainPc = JoinPc(k)
    /\ created[k] = "yes"
    /\ helperPc[k] = "exited"
    /\ resultPtr' = [resultPtr EXCEPT ![k] = msg[k]]
    /\ mainPc' = ReportPc(k)
    /\ UNCHANGED << created, result, pending, returned, helperPc, threadName,
                    msg, allocated, fault >>

(* main: pthread_join of the uninitialised pthread_t: bionic aborts on an  *)
(* invalid thread, or join fails and main throws "Join failed".            *)
JoinUncreated(k) ==
    /\ mainPc = JoinPc(k)
    /\ created[k] = "failed"
    /\ \/ mainPc' = "crashed" /\ UNCHANGED pending
       \/ mainPc' = ReportPc(k) /\ pending' = TRUE
    /\ UNCHANGED << created, resultPtr, result, returned, helperPc,
                    threadName, msg, allocated, fault >>

(* main: `if (result_test_k != nullptr)` append "test k: " and the message.*)
(* An unset pointer either reads as nullptr or is dereferenced and crashes.*)
Report(k) ==
    /\ mainPc = ReportPc(k)
    /\ \/ /\ resultPtr[k] \in Kinds
          /\ result' = result \cup {k}
          /\ mainPc' = IF k = 1 THEN "create2" ELSE "ret"
          /\ UNCHANGED resultPtr
       \/ /\ resultPtr[k] = "null"
          /\ mainPc' = IF k = 1 THEN "create2" ELSE "ret"
          /\ UNCHANGED << result, resultPtr >>
       \/ /\ resultPtr[k] = "garbage"
          /\ \/ /\ resultPtr' = [resultPtr EXCEPT ![k] = "null"]
                /\ mainPc' = IF k = 1 THEN "create2" ELSE "ret"
             \/ /\ mainPc' = "crashed"
                /\ UNCHANGED resultPtr
          /\ UNCHANGED result
    /\ UNCHANGED << created, pending, returned, helperPc, threadName, msg,
                    allocated, fault >>

(* main: NewStringUTF if anything was appended, delete both results,       *)
(* return.                                                                  *)
Return ==
    /\ mainPc = "ret"
    /\ returned' = (result # {})
    /\ allocated' = allocated \ { << k, resultPtr[k] >> : k \in Tests }
    /\ mainPc' = "done"
    /\ UNCHANGED << created, resultPtr, result, pending, helperPc,
                    threadName, msg, fault >>

-----------------------------------------------------------------------------
(* helper: pthread_setname_np("foozball"), then AttachCurrentThread.  On   *)
(* failure return new "Attach failed" at once (no detach); on success the  *)
(* VM leaves some name on the thread.                                      *)
HelperAttach(k) ==
    /\ helperPc[k] = "run"
    /\ \/ /\ NewMessage(k, "AttachFailed")
          /\ fault' = [fault EXCEPT ![k] = @ \cup {"attach"}]
          /\ helperPc' = [helperPc EXCEPT ![k] = "exited"]
          /\ UNCHANGED threadName
       \/ /\ \E n \in Names : threadName' = [threadName EXCEPT ![k] = n]
          /\ helperPc' = [helperPc EXCEPT ![k] = "check"]
          /\ UNCHANGED << msg, allocated, fault >>
    /\ UNCHANGED << mainPc, created, resultPtr, result, pending, returned >>

(* Mutant: line 53 without `attach_with_name &&`.                          *)
HelperCheckNoModeGuard(k) ==
    /\ helperPc[k] = "check"
    /\ helperPc' = [helperPc EXCEPT ![k] = "detach"]
    /\ \/ /\ NewMessage(k, "PrctlFailed")
          /\ fault' = [fault EXCEPT ![k] = @ \cup {"prctl"}]
       \/ /\ threadName[k] # "foozball"
          /\ NewMessage(k, "NameMismatch")
          /\ UNCHANGED fault
       \/ /\ ~WithName(k) /\ ~StartsWithThread(threadName[k])
          /\ NewMessage(k, "UnexpectedName")
          /\ UNCHANGED fault
       \/ /\ IF WithName(k) THEN threadName[k] = "foozball"
                            ELSE StartsWithThread(threadName[k])
          /\ UNCHANGED << msg, allocated, fault >>
    /\ UNCHANGED << mainPc, created, resultPtr, result, pending, returned,
                    threadName >>

(* helper: prctl(PR_GET_NAME) and the two name checks, or the prctl error. *)
HelperCheck(k) ==
    /\ helperPc[k] = "check"
    /\ helperPc' = [helperPc EXCEPT ![k] = "detach"]
    /\ \/ /\ NewMessage(k, "PrctlFailed")
          /\ fault' = [fault EXCEPT ![k] = @ \cup {"prctl"}]
       \/ /\ WithName(k) /\ threadName[k] # "foozball"
          /\ NewMessage(k, "NameMismatch")
          /\ UNCHANGED fault
       \/ /\ ~WithName(k) /\ ~StartsWithThread(threadName[k])
          /\ NewMessage(k, "UnexpectedName")
          /\ UNCHANGED fault
       \/ /\ IF WithName(k) THEN threadName[k] = "foozball"
                            ELSE StartsWithThread(threadName[k])
          /\ UNCHANGED << msg, allocated, fault >>
    /\ UNCHANGED << mainPc, created, resultPtr, result, pending, returned,
                    threadName >>

(* helper: DetachCurrentThread; on failure exception_message is            *)
(* overwritten with a new "Detach failed".  Then return exception_message.*)
HelperDetach(k) ==
    /\ helperPc[k] = "detach"
    /\ helperPc' = [helperPc EXCEPT ![k] = "exited"]
    /\ \/ UNCHANGED << msg, allocated, fault >>
       \/ /\ NewMessage(k, "DetachFailed")
          /\ fault' = [fault EXCEPT ![k] = @ \cup {"detach"}]
    /\ UNCHANGED << mainPc, created, resultPtr, result, pending, returned,
                    threadName >>

Next ==
    \/ \E k \in Tests :
          \/ Create(k) \/ JoinCreated(k) \/ JoinUncreated(k) \/ Report(k)
          \/ HelperAttach(k) \/ HelperCheck(k) \/ HelperDetach(k)
    \/ Return

Spec == Init /\ [][Next]_vars

-----------------------------------------------------------------------------
TypeOK ==
    /\ mainPc \in {"create1", "join1", "report1", "create2", "join2",
                   "report2", "ret", "done", "crashed"}
    /\ created \in [Tests -> {"no", "yes", "failed"}]
    /\ resultPtr \in [Tests -> Kinds \cup {"null", "garbage"}]
    /\ result \subseteq Tests
    /\ pending \in BOOLEAN
    /\ returned \in BOOLEAN
    /\ helperPc \in [Tests -> {"none", "run", "check", "detach", "exited"}]
    /\ threadName \in [Tests -> Names \cup {"none"}]
    /\ msg \in [Tests -> Kinds \cup {"null"}]
    /\ allocated \subseteq Tests \X Kinds
    /\ fault \in [Tests -> SUBSET {"attach", "prctl", "detach"}]

(* The name the VM left on helper k is the one its contract promises: the  *)
(* name given to AttachCurrentThread, or "Thread-..." when none was given. *)
VmObeys(k) ==
    IF WithName(k) THEN threadName[k] = "foozball"
                   ELSE StartsWithThread(threadName[k])

(* Something the test exists to detect went wrong: a pthread_create, an    *)
(* attach, prctl or detach failed, or the VM named a thread wrongly.       *)
SomethingWrong ==
    \E k \in Tests :
        \/ created[k] = "failed"
        \/ fault[k] # {}
        \/ threadName[k] \in Names /\ ~VmObeys(k)

(* When nativeTestNativeThreadNames returns, the test fails (an exception  *)
(* is pending or a non-null string is returned) exactly when something    *)
(* went wrong, whatever the VM and libc did in either helper thread.       *)
VerdictSound ==
    mainPc = "done" => ((pending \/ returned) <=> SomethingWrong)

(* Every failure message TestThreadNaming allocates is deleted by main by  *)
(* the time it returns.  Broken when DetachCurrentThread fails after a     *)
(* message was built: line 74 overwrites the only pointer to it.           *)
NoMessageLeak ==
    mainPc = "done" => allocated = {}

(* main reads result_test_k (and later deletes it) only after pthread_join *)
(* of a thread that pthread_create really started has set it.              *)
ResultSetBeforeUse ==
    \A k \in Tests : mainPc = ReportPc(k) => created[k] = "yes"

(* main makes no JNI call other than the exception-safe ones while an     *)
(* exception is pending: CheckJNI aborts on NewStringUTF (line 124) made   *)
(* after the "Attach failed" or "Join failed" exception of the other test. *)
NoNewStringWhilePending ==
    mainPc = "done" => ~(pending /\ result # {})


=============================================================================
