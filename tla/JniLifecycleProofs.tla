------------------------- MODULE JniLifecycleProofs -------------------------
(* Proofs about JniLifecycle for every set of VMs and native tables.       *)
EXTENDS JniLifecycle, TLAPS

(* The strengthening of CacheMatchesVm: the cache is marked initialized    *)
(* exactly while the library is loaded, and a marked cache or a bound      *)
(* table always belongs to the running VM.                                  *)
CacheInv ==
    /\ TypeOK
    /\ cacheInit = loaded
    /\ cacheInit => (vm # NoVm /\ cacheVm = vm)
    /\ CacheMatchesVm

(* The strengthening holds initially.                                      *)
LEMMA CacheInvInit == Init => CacheInv
BY TablesAssumption DEF Init, CacheInv, TypeOK, CacheMatchesVm

(* Every life-cycle step, and every stutter, preserves the strengthening. *)
LEMMA CacheInvStep == CacheInv /\ [Next]_vars => CacheInv'
<1> SUFFICES ASSUME CacheInv, [Next]_vars PROVE CacheInv'
  OBVIOUS
<1>1. ASSUME NEW v \in Vms, StartVm(v) PROVE CacheInv'
  <2>1. ~loaded /\ ~cacheInit /\ registered = {}
    BY <1>1 DEF StartVm, CacheInv, CacheMatchesVm
  <2>2. QED
    BY <1>1, <2>1, TablesAssumption DEF StartVm, CacheInv, TypeOK, CacheMatchesVm
<1>2. CASE OnLoad
  <2>1. ~cacheInit
    BY <1>2 DEF OnLoad, CacheInv
  <2>2. cacheInit' /\ cacheVm' = vm
    BY <1>2, <2>1 DEF OnLoad, JniConstantsInit
  <2>3. QED
    BY <1>2, <2>2 DEF OnLoad, CacheInv, TypeOK, CacheMatchesVm
<1>3. CASE OnLoadGetEnvFails
  BY <1>3 DEF OnLoadGetEnvFails, CacheInv, TypeOK, CacheMatchesVm
<1>4. CASE OnUnload
  <2>1. vm # NoVm /\ cacheVm = vm
    BY <1>4 DEF OnUnload, CacheInv
  <2>2. QED
    BY <1>4, <2>1 DEF OnUnload, CacheInv, TypeOK, CacheMatchesVm
<1>5. CASE OnUnloadGetEnvFails
  BY <1>5 DEF OnUnloadGetEnvFails, CacheInv, TypeOK, CacheMatchesVm
<1>6. CASE DestroyVm
  BY <1>6 DEF DestroyVm, CacheInv, TypeOK, CacheMatchesVm
<1>7. CASE UNCHANGED vars
  BY <1>7 DEF vars, CacheInv, TypeOK, CacheMatchesVm
<1>8. QED
  BY <1>1, <1>2, <1>3, <1>4, <1>5, <1>6, <1>7 DEF Next

(* Whatever sequence of VM start-ups, library loads and unloads the        *)
(* process goes through, natives of libjavacore never run against the      *)
(* class references of a VM other than the running one.                   *)
THEOREM CacheFresh == Spec => []CacheMatchesVm
<1>1. CacheInv => CacheMatchesVm
  BY DEF CacheInv
<1>2. QED
  BY CacheInvInit, CacheInvStep, <1>1, PTL DEF Spec
=============================================================================
