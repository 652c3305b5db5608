---------------------------- MODULE JniLifecycle ----------------------------
(***************************************************************************)
(* Loading and unloading libjavacore in a process that may host several    *)
(* VMs one after another (luni/src/main/native/Register.cpp).  JNI_OnLoad  *)
(* fills libnativehelper's JniConstants cache of class references and      *)
(* registers the native tables; JNI_OnUnload unregisters ICU and clears    *)
(* the cache "in case a new runtime is to be brought up later".            *)
(*                                                                         *)
(* JniConstants::init and ClearJniConstantsCache are in libnativehelper,   *)
(* outside this repository; they are modelled from its contract: init      *)
(* returns at once when the cache is already marked initialized, else it   *)
(* looks the classes up in the calling VM and marks it initialized; clear  *)
(* only resets the mark.  The VM side (start, calling OnLoad/OnUnload,     *)
(* destroy) is the environment.                                            *)
(***************************************************************************)
EXTENDS FiniteSets

CONSTANTS
    Vms,      \* VM instances the process may bring up, each at most once
    Tables,   \* the native tables JNI_OnLoad registers (register_* calls)
    ICU,      \* the one table JNI_OnUnload unregisters
    NoVm      \* no VM / no class reference

ASSUME TablesAssumption == ICU \in Tables /\ NoVm \notin Vms

VARIABLES
    vm,          \* the running VM, or NoVm
    started,     \* VMs brought up so far
    loaded,      \* JNI_OnLoad has run in vm and JNI_OnUnload has not
    registered,  \* native tables bound in vm
    cacheInit,   \* libnativehelper's "constants initialized" mark
    cacheVm,     \* the VM the cached class references belong to
    aborted      \* abort() was called

vars == << vm, started, loaded, registered, cacheInit, cacheVm, aborted >>

Init ==
    /\ vm = NoVm
    /\ started = {}
    /\ loaded = FALSE
    /\ registered = {}
    /\ cacheInit = FALSE
    /\ cacheVm = NoVm
    /\ aborted = FALSE

(* The process brings up a new VM instance.                                *)
StartVm(v) ==
    /\ ~aborted
    /\ vm = NoVm
    /\ v \notin started
    /\ vm' = v
    /\ started' = started \cup {v}
    /\ UNCHANGED << loaded, registered, cacheInit, cacheVm, aborted >>

(* JniConstants::init(env): fast path when already marked initialized.     *)
JniConstantsInit ==
    IF cacheInit
    THEN UNCHANGED << cacheInit, cacheVm >>
    ELSE /\ cacheInit' = TRUE
         /\ cacheVm' = vm

(* JNI_OnLoad when vm->GetEnv fails: ALOGE and abort().                    *)
OnLoadGetEnvFails ==
    /\ ~aborted /\ vm # NoVm /\ ~loaded
    /\ aborted' = TRUE
    /\ UNCHANGED << vm, started, loaded, registered, cacheInit, cacheVm >>

(* JNI_OnLoad: init the cache, then register every native table.           *)
OnLoad ==
    /\ ~aborted /\ vm # NoVm /\ ~loaded
    /\ JniConstantsInit
    /\ registered' = Tables
    /\ loaded' = TRUE
    /\ UNCHANGED << vm, started, aborted >>

(* JNI_OnUnload when vm->GetEnv fails: abort().                            *)
OnUnloadGetEnvFails ==
    /\ ~aborted /\ loaded
    /\ aborted' = TRUE
    /\ UNCHANGED << vm, started, loaded, registered, cacheInit, cacheVm >>

(* Mutant: JNI_OnUnload without the ClearJniConstantsCache call.          *)
OnUnloadNoClear ==
    /\ ~aborted /\ loaded
    /\ registered' = registered \ {ICU}
    /\ loaded' = FALSE
    /\ UNCHANGED << vm, started, cacheInit, cacheVm, aborted >>

(* JNI_OnUnload: unregister ICU, then ClearJniConstantsCache.              *)
OnUnload ==
    /\ ~aborted /\ loaded
    /\ registered' = registered \ {ICU}
    /\ cacheInit' = FALSE
    /\ loaded' = FALSE
    /\ UNCHANGED << vm, started, cacheVm, aborted >>

(* The VM shuts down, having unloaded the library; its classes, and with   *)
(* them every native binding, are gone.                                    *)
DestroyVm ==
    /\ ~aborted /\ vm # NoVm /\ ~loaded
    /\ vm' = NoVm
    /\ registered' = {}
    /\ UNCHANGED << started, loaded, cacheInit, cacheVm, aborted >>

Next ==
    \/ \E v \in Vms : StartVm(v)
    \/ OnLoad
    \/ OnLoadGetEnvFails
    \/ OnUnload
    \/ OnUnloadGetEnvFails
    \/ DestroyVm

Spec == Init /\ [][Next]_vars

-----------------------------------------------------------------------------
TypeOK ==
    /\ vm \in Vms \cup {NoVm}
    /\ started \subseteq Vms
    /\ loaded \in BOOLEAN
    /\ registered \subseteq Tables
    /\ cacheInit \in BOOLEAN
    /\ cacheVm \in Vms \cup {NoVm}
    /\ aborted \in BOOLEAN

(* While any native method of the library is bound (so callable, and free  *)
(* to read JniConstants, as tagSocket reads socketTaggerClass), the cached *)
(* class references belong to the running VM and not to one brought down  *)
(* earlier in the process.  Needs JNI_OnUnload's ClearJniConstantsCache.   *)
CacheMatchesVm ==
    registered # {} => (vm # NoVm /\ cacheVm = vm)

=============================================================================
