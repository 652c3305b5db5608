----------------------------- MODULE LibraryLoad -----------------------------
(***************************************************************************)
(* JNI_OnLoad of libjavacore (luni/src/main/native/Register.cpp) one call  *)
(* at a time, with the two register functions of this repository spelled  *)
(* out: register_java_lang_invoke_VarHandle (one jniRegisterNativeMethods  *)
(* of gMethods) and register_org_apache_harmony_dalvik_NativeTestTarget    *)
(* (four, one per table).  The other fourteen register_* functions are     *)
(* outside the repository; each is one jniRegisterNativeMethods whose      *)
(* table matches its class.  jniRegisterNativeMethods aborts the process   *)
(* when RegisterNatives rejects a table; a table RegisterNatives accepted  *)
(* stays bound until the VM goes away.                                     *)
(*                                                                         *)
(* JniLifecycle describes the same life cycle with JNI_OnLoad as one step; *)
(* this module implements it under the refinement mapping at the end.      *)
(***************************************************************************)
EXTENDS Naturals, Sequences, VarHandleNatives

CONSTANTS
    Vms,          \* VM instances the process may bring up, each at most once
    NoVm,         \* no VM
    Mismatch      \* <<v, t>>: VM v's NativeTestTarget class does not declare
                  \* the natives of table t

\* The REGISTER lines of JNI_OnLoad, in order (line 40 is commented out).
Order ==
    << "OsConstants", "MethodHandle", "VarHandle", "NativeBN", "Matcher",
       "Pattern", "ICU", "NativeConverter", "TimeZoneNames",
       "AsynchronousCloseMonitor", "Linux", "Memory",
       "NativeAllocationRegistry", "NativeTestTarget", "ExpatParser",
       "Unsafe" >>

\* The register_* functions and the one JNI_OnUnload unregisters.
RegisterFns == {Order[i] : i \in 1..Len(Order)}
ICU == "ICU"

\* The tables register_org_apache_harmony_dalvik_NativeTestTarget passes to
\* jniRegisterNativeMethods, in order.
NttTables == << "NormalOnly", "Normal", "Fast", "Critical" >>

ASSUME MismatchAssumption ==
    /\ Mismatch \subseteq Vms \X {NttTables[i] : i \in 1..Len(NttTables)}
    /\ NoVm \notin Vms

\* The tables bound by a register_* function.
TablesOf(f) ==
    IF f = "NativeTestTarget" THEN {NttTables[i] : i \in 1..Len(NttTables)}
    ELSE {f}

VARIABLES
    vm,         \* the running VM, or NoVm
    started,    \* VMs brought up so far
    loaded,     \* JNI_OnLoad has returned in vm and JNI_OnUnload has not run
    bound,      \* the tables RegisterNatives has bound in vm
    cacheInit,  \* libnativehelper's "constants initialized" mark
    cacheVm,    \* the VM the cached class references belong to
    abortedIn,  \* "none", or where abort() was called
    ldPc,       \* 0, or the REGISTER line JNI_OnLoad is at (Len(Order)+1: return)
    nttSub,     \* the jniRegisterNativeMethods call NativeTestTarget is at
    preLoad     \* auxiliary: the abstract state when JNI_OnLoad was entered

ldVars == << vm, started, loaded, bound, cacheInit, cacheVm, abortedIn, ldPc,
             nttSub, preLoad >>
vars == << ldVars, vhVars >>

\* The register_* functions all of whose tables are bound.
RegisteredFns == {f \in RegisterFns : TablesOf(f) \subseteq bound}

Init ==
    /\ vm = NoVm
    /\ started = {}
    /\ loaded = FALSE
    /\ bound = {}
    /\ cacheInit = FALSE
    /\ cacheVm = NoVm
    /\ abortedIn = "none"
    /\ ldPc = 0
    /\ nttSub = 1
    /\ preLoad = [registered |-> {}, cacheInit |-> FALSE, cacheVm |-> NoVm]
    /\ VhInit

Running == abortedIn = "none"

(* The process brings up a new VM instance.                                *)
StartVm(v) ==
    /\ Running /\ vm = NoVm /\ v \notin started
    /\ vm' = v
    /\ started' = started \cup {v}
    /\ UNCHANGED << loaded, bound, cacheInit, cacheVm, abortedIn, ldPc, nttSub,
                    preLoad, vhVars >>

(* JNI_OnLoad when vm->GetEnv fails: ALOGE and abort().  Implements        *)
(* JniLifecycle's OnLoadGetEnvFails.                                       *)
OnLoadGetEnvFails ==
    /\ Running /\ vm # NoVm /\ ~loaded /\ ldPc = 0
    /\ abortedIn' = "GetEnv"
    /\ UNCHANGED << vm, started, loaded, bound, cacheInit, cacheVm, ldPc,
                    nttSub, preLoad, vhVars >>

(* JNI_OnLoad past GetEnv: JniConstants::init (a fast return when the mark *)
(* is set) and the ScopedLocalFrame; the first REGISTER is next.  A        *)
(* stutter of JniLifecycle.                                                *)
OnLoadEnter ==
    /\ Running /\ vm # NoVm /\ ~loaded /\ ldPc = 0
    /\ preLoad' = [registered |-> RegisteredFns, cacheInit |-> cacheInit,
                   cacheVm |-> cacheVm]
    /\ IF cacheInit THEN UNCHANGED << cacheInit, cacheVm >>
       ELSE cacheInit' = TRUE /\ cacheVm' = vm
    /\ ldPc' = 1
    /\ UNCHANGED << vm, started, loaded, bound, abortedIn, nttSub, vhVars >>

\* The REGISTER line JNI_OnLoad is at, if it is one.
AtRegister(f) == ldPc \in 1..Len(Order) /\ Order[ldPc] = f

(* register_java_lang_invoke_VarHandle: RegisterNatives binds gMethods, or *)
(* rejects it and jniRegisterNativeMethods aborts.  A stutter of           *)
(* JniLifecycle, or its OnLoadGetEnvFails when it aborts.                  *)
RegisterVarHandle ==
    /\ Running /\ AtRegister("VarHandle")
    /\ IF VarHandleTableMatches
       THEN bound' = bound \cup {"VarHandle"} /\ ldPc' = ldPc + 1
            /\ UNCHANGED abortedIn
       ELSE abortedIn' = "VarHandle" /\ UNCHANGED << bound, ldPc >>
    /\ UNCHANGED << vm, started, loaded, cacheInit, cacheVm, nttSub, preLoad,
                    vhVars >>

(* One jniRegisterNativeMethods of                                         *)
(* register_org_apache_harmony_dalvik_NativeTestTarget; after the fourth   *)
(* it returns 0 and JNI_OnLoad goes on.  A table the class does not match  *)
(* aborts.                                                                  *)
RegisterNativeTestTarget ==
    /\ Running /\ AtRegister("NativeTestTarget")
    /\ LET tbl == NttTables[nttSub]
           last == nttSub = Len(NttTables)
       IN  IF <<vm, tbl>> \notin Mismatch
           THEN /\ bound' = bound \cup {tbl}
                /\ nttSub' = IF last THEN 1 ELSE nttSub + 1
                /\ ldPc' = IF last THEN ldPc + 1 ELSE ldPc
                /\ UNCHANGED abortedIn
           ELSE abortedIn' = tbl /\ UNCHANGED << bound, nttSub, ldPc >>
    /\ UNCHANGED << vm, started, loaded, cacheInit, cacheVm, preLoad, vhVars >>

(* Any other REGISTER line: the table outside this repository is bound.    *)
RegisterOther ==
    /\ Running
    /\ ldPc \in 1..Len(Order)
    /\ Order[ldPc] \notin {"VarHandle", "NativeTestTarget"}
    /\ bound' = bound \cup {Order[ldPc]}
    /\ ldPc' = ldPc + 1
    /\ UNCHANGED << vm, started, loaded, cacheInit, cacheVm, abortedIn, nttSub,
                    preLoad, vhVars >>

(* Mutant: JNI_OnLoad returning after the second-to-last REGISTER line.    *)
OnLoadReturnEarly ==
    /\ Running /\ ldPc = Len(Order)
    /\ loaded' = TRUE
    /\ ldPc' = 0
    /\ UNCHANGED << vm, started, bound, cacheInit, cacheVm, abortedIn, nttSub,
                    preLoad, vhVars >>

(* `return JNI_VERSION_1_6`, the local frame popped.  Implements           *)
(* JniLifecycle's OnLoad.                                                  *)
OnLoadReturn ==
    /\ Running /\ ldPc = Len(Order) + 1
    /\ loaded' = TRUE
    /\ ldPc' = 0
    /\ UNCHANGED << vm, started, bound, cacheInit, cacheVm, abortedIn, nttSub,
                    preLoad, vhVars >>

(* JNI_OnUnload when vm->GetEnv fails: abort().                            *)
OnUnloadGetEnvFails ==
    /\ Running /\ loaded
    /\ abortedIn' = "GetEnv"
    /\ UNCHANGED << vm, started, loaded, bound, cacheInit, cacheVm, ldPc,
                    nttSub, preLoad, vhVars >>

(* JNI_OnUnload: unregister_libcore_icu_ICU, then ClearJniConstantsCache.  *)
OnUnload ==
    /\ Running /\ loaded
    /\ bound' = bound \ {ICU}
    /\ cacheInit' = FALSE
    /\ loaded' = FALSE
    /\ UNCHANGED << vm, started, cacheVm, abortedIn, ldPc, nttSub, preLoad,
                    vhVars >>

(* The VM shuts down after unloading the library: its classes, bindings    *)
(* and threads are gone.                                                   *)
DestroyVm ==
    /\ Running /\ vm # NoVm /\ ~loaded /\ ldPc = 0
    /\ vm' = NoVm
    /\ bound' = {}
    /\ pending' = [t \in Threads |-> None]
    /\ UNCHANGED << started, loaded, cacheInit, cacheVm, abortedIn, ldPc,
                    nttSub, preLoad >>

(* A Java thread of the running VM calls a VarHandle stub by reflection    *)
(* once gMethods is bound, or catches what a stub threw.                   *)
StubCall(t) ==
    /\ Running /\ vm # NoVm
    /\ \/ "VarHandle" \in bound /\ \E m \in Modes : InvokeReflectively(t, m)
       \/ Catch(t)
    /\ UNCHANGED ldVars

\* The steps of the thread running JNI_OnLoad past GetEnv.
LoadStep ==
    \/ RegisterVarHandle
    \/ RegisterNativeTestTarget
    \/ RegisterOther
    \/ OnLoadReturn

Next ==
    \/ \E v \in Vms : StartVm(v)
    \/ OnLoadGetEnvFails
    \/ OnLoadEnter
    \/ LoadStep
    \/ OnUnloadGetEnvFails
    \/ OnUnload
    \/ DestroyVm
    \/ \E t \in Threads : StubCall(t)

Spec == Init /\ [][Next]_vars

-----------------------------------------------------------------------------
(* The refinement mapping.  While JNI_OnLoad is in progress (or aborted in *)
(* it) the abstract library is still where it was when JNI_OnLoad was      *)
(* entered; the abstract OnLoad happens when JNI_OnLoad returns.           *)
InLoad == ldPc # 0

AbsRegistered == IF InLoad THEN preLoad.registered ELSE RegisteredFns
AbsCacheInit == IF InLoad THEN preLoad.cacheInit ELSE cacheInit
AbsCacheVm == IF InLoad THEN preLoad.cacheVm ELSE cacheVm

Abs == INSTANCE JniLifecycle
           WITH Tables <- RegisterFns, registered <- AbsRegistered,
                cacheInit <- AbsCacheInit, cacheVm <- AbsCacheVm,
                aborted <- ~Running

-----------------------------------------------------------------------------
(* JNI_OnLoad taken one REGISTER call at a time, with NativeTestTarget's   *)
(* four jniRegisterNativeMethods calls and the aborts they may end in, is  *)
(* the one-step JNI_OnLoad of JniLifecycle: every reachable behaviour is   *)
(* one of JniLifecycle's, so what is checked and proved there holds here.  *)
ImplementsLifecycle == Abs!Spec

(* Loading the library never aborts in register_java_lang_invoke_VarHandle:*)
(* every gMethods entry is registered with the signature whose return type *)
(* VarHandle.java declares for that access mode.                            *)
RegistrationSucceeds ==
    abortedIn # "VarHandle"

====
