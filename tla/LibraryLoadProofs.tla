------------------------- MODULE LibraryLoadProofs --------------------------
(* Proofs about JNI_OnLoad taken one REGISTER call at a time, for every    *)
(* set of VMs, Java threads and mismatching NativeTestTarget tables.       *)
EXTENDS LibraryLoad, TLAPS

Tables == UNION {TablesOf(f) : f \in RegisterFns}
Causes == {"none", "GetEnv"} \cup {NttTables[i] : i \in 1..Len(NttTables)}

(* The shape of the state.                                                 *)
LTypeOK ==
    /\ vm \in Vms \cup {NoVm}
    /\ started \subseteq Vms
    /\ loaded \in BOOLEAN
    /\ bound \subseteq Tables
    /\ cacheInit \in BOOLEAN
    /\ abortedIn \in Causes
    /\ ldPc \in 0..Len(Order) + 1
    /\ nttSub \in 1..Len(NttTables)
    /\ pending \in [Threads -> Modes \cup {None}]

(* What the refinement needs of a JNI_OnLoad in progress: the VM is up and *)
(* the library not yet loaded, the cache was filled at entry, and every    *)
(* REGISTER line already passed (and every NativeTestTarget table already  *)
(* registered) has its tables bound.                                       *)
LoadInv ==
    /\ loaded => ldPc = 0
    /\ InLoad => /\ vm # NoVm
                 /\ ~loaded
                 /\ cacheInit
                 /\ cacheVm = IF preLoad.cacheInit THEN preLoad.cacheVm ELSE vm
    /\ Running /\ InLoad =>
         \A i \in 1..Len(Order) : i < ldPc => TablesOf(Order[i]) \subseteq bound
    /\ ~AtRegister("NativeTestTarget") => nttSub = 1
    /\ Running /\ AtRegister("NativeTestTarget") =>
         \A j \in 1..Len(NttTables) : j < nttSub => NttTables[j] \in bound

LInv == LTypeOK /\ LoadInv
-----------------------------------------------------------------------------
(* Every entry of gMethods is registered with the return type VarHandle    *)
(* declares for its mode, so RegisterNatives accepts the table.            *)
LEMMA VarHandleMatches == VarHandleTableMatches
BY DEF VarHandleTableMatches, TableSig, JavaReturn, Modes, BooleanSigModes,
       VoidSigModes

(* The REGISTER lines this module tells apart.                             *)
LEMMA OrderFacts ==
    /\ Len(Order) = 16
    /\ Order[3] = "VarHandle" /\ Order[7] = "ICU"
    /\ Order[14] = "NativeTestTarget"
    /\ Len(NttTables) = 4
    /\ ICU \in RegisterFns
BY DEF Order, NttTables, RegisterFns, ICU

(* Only the ICU table is ICU's: unregistering it unbinds no other function.*)
LEMMA OnlyIcuTable ==
    ASSUME NEW f \in RegisterFns
    PROVE  /\ ICU \in TablesOf(f) <=> f = ICU
           /\ TablesOf(f) # {}
BY OrderFacts DEF RegisterFns, Order, TablesOf, NttTables, ICU

(* Where the two register functions spelled out stand in Order.           *)
LEMMA OrderPlaces ==
    /\ \A i \in 1..Len(Order) : Order[i] = "NativeTestTarget" <=> i = 14
    /\ \A i \in 1..Len(Order) : Order[i] = "VarHandle" <=> i = 3
BY OrderFacts DEF Order

-----------------------------------------------------------------------------
(* The invariant holds when the process starts.                            *)
LEMMA LInvInit == Init => LInv
<1> SUFFICES ASSUME Init PROVE LInv
  OBVIOUS
<1>1. LTypeOK
  <2>1. abortedIn \in Causes
    BY DEF Init, Causes
  <2>2. ldPc \in 0..Len(Order) + 1 /\ nttSub \in 1..Len(NttTables)
    BY OrderFacts DEF Init
  <2>3. pending \in [Threads -> Modes \cup {None}]
    BY DEF Init, VhInit
  <2>4. QED
    BY <2>1, <2>2, <2>3, Zenon DEF Init, LTypeOK
<1>2. LoadInv
  BY OrderFacts DEF Init, LoadInv, InLoad, AtRegister
<1>3. QED
  BY <1>1, <1>2 DEF LInv

(* Every table a register function binds is one of Tables.               *)
LEMMA TablesFacts ==
    /\ \A i \in 1..Len(Order) :
          Order[i] # "NativeTestTarget" => Order[i] \in Tables
    /\ \A j \in 1..Len(NttTables) : NttTables[j] \in Tables
BY OrderFacts DEF Tables, TablesOf, RegisterFns

(* Every step of the process preserves it.  Only the REGISTER steps and    *)
(* the cache steps need more than the definitions: the type of what they   *)
(* bind, and the register line they move to.                               *)
LEMMA LInvStep == LInv /\ [Next]_vars => LInv'
<1> SUFFICES ASSUME LInv, [Next]_vars PROVE LInv'
  OBVIOUS
<1> USE OrderFacts, OrderPlaces, MismatchAssumption
<1>1. ASSUME NEW v \in Vms, StartVm(v) PROVE LInv'
  BY <1>1 DEF StartVm, vhVars, LInv, LTypeOK, LoadInv,
     InLoad, AtRegister, Running
<1>2. CASE OnLoadGetEnvFails
  BY <1>2 DEF OnLoadGetEnvFails, Causes, vhVars, LInv, LTypeOK, LoadInv,
     InLoad, AtRegister, Running
<1>3. CASE OnLoadEnter
  <2>1. cacheInit' \in BOOLEAN /\ loaded' \in BOOLEAN
    BY <1>3, Zenon DEF OnLoadEnter, LInv, LTypeOK
  <2>2. LTypeOK'
    BY <1>3, <2>1 DEF OnLoadEnter, vhVars, LInv, LTypeOK
  <2>3. QED
    BY <1>3, <2>2 DEF OnLoadEnter, vhVars, LInv, LoadInv,
       InLoad, AtRegister, Running
<1>4. CASE RegisterVarHandle
  <2>1. "VarHandle" \in Tables
    BY TablesFacts
  <2>2. LTypeOK'
    BY <1>4, <2>1, VarHandleMatches DEF RegisterVarHandle, vhVars, LInv,
       LTypeOK, AtRegister
  <2>3. QED
    BY <1>4, <2>2, VarHandleMatches DEF RegisterVarHandle, TablesOf, vhVars,
       LInv, LoadInv, InLoad, AtRegister, Running
<1>5. CASE RegisterNativeTestTarget
  <2>1. NttTables[nttSub] \in Tables /\ NttTables[nttSub] \in Causes
    BY TablesFacts DEF LInv, LTypeOK, Causes
  <2>2. LTypeOK'
    BY <1>5, <2>1 DEF RegisterNativeTestTarget, vhVars, LInv, LTypeOK,
       AtRegister
  <2>3. NttTables[nttSub] # "none"
    BY DEF LInv, LTypeOK, NttTables
  <2>4. LoadInv'
    BY <1>5, <2>3 DEF RegisterNativeTestTarget, TablesOf, LInv, LTypeOK,
       LoadInv, InLoad, AtRegister, Running
  <2>5. QED
    BY <1>5, <2>2, <2>4 DEF RegisterNativeTestTarget, vhVars, LInv
<1>6. CASE RegisterOther
  <2>1. Order[ldPc] \in Tables
    BY <1>6, TablesFacts DEF RegisterOther
  <2>2. LTypeOK'
    BY <1>6, <2>1 DEF RegisterOther, vhVars, LInv, LTypeOK
  <2>3. QED
    BY <1>6, <2>2 DEF RegisterOther, TablesOf, vhVars, LInv, LoadInv,
       InLoad, AtRegister, Running
<1>7. CASE OnLoadReturn
  BY <1>7 DEF OnLoadReturn, vhVars, LInv, LTypeOK, LoadInv,
     InLoad, AtRegister, Running
<1>8. CASE OnUnloadGetEnvFails
  BY <1>8 DEF OnUnloadGetEnvFails, Causes, vhVars, LInv, LTypeOK, LoadInv,
     InLoad, AtRegister, Running
<1>9. CASE OnUnload
  <2>1. cacheInit' \in BOOLEAN /\ loaded' \in BOOLEAN
    BY <1>9, Zenon DEF OnUnload
  <2>2. bound' \subseteq Tables
    BY <1>9 DEF OnUnload, LInv, LTypeOK
  <2>3. UNCHANGED << vm, started, abortedIn, ldPc, nttSub, pending >>
    BY <1>9 DEF OnUnload, vhVars
  <2>4. LTypeOK'
    BY <2>1, <2>2, <2>3 DEF LInv, LTypeOK
  <2>5. QED
    BY <1>9, <2>4 DEF OnUnload, vhVars, LInv, LoadInv,
       InLoad, AtRegister, Running
<1>10. CASE DestroyVm
  BY <1>10 DEF DestroyVm, vhVars, LInv, LTypeOK, LoadInv,
     InLoad, AtRegister, Running
<1>11. ASSUME NEW t \in Threads, StubCall(t) PROVE LInv'
  BY <1>11 DEF StubCall, InvokeReflectively, Catch, StubLiteral, ldVars,
     vhVars, LInv, LTypeOK, LoadInv, InLoad,
     AtRegister, Running
<1>12. CASE UNCHANGED vars
  BY <1>12 DEF vars, ldVars, vhVars, LInv, LTypeOK, LoadInv,
     InLoad, AtRegister, Running
<1>13. QED
  BY <1>1, <1>2, <1>3, <1>4, <1>5, <1>6, <1>7, <1>8, <1>9, <1>10, <1>11, <1>12
  DEF Next, LoadStep
-----------------------------------------------------------------------------
(* The invariant holds in every reachable state.                           *)
THEOREM LInvariant == Spec => []LInv
BY LInvInit, LInvStep, PTL DEF Spec

(* JNI_OnLoad never aborts in register_java_lang_invoke_VarHandle, for any *)
(* number of VMs and Java threads: RegisterNatives accepts gMethods.        *)
THEOREM RegistrationSucceedsThm == Spec => []RegistrationSucceeds
<1>1. LInv => RegistrationSucceeds
  BY DEF LInv, LTypeOK, Causes, NttTables, RegistrationSucceeds
<1>2. QED
  BY <1>1, LInvariant, PTL

-----------------------------------------------------------------------------
(* What the abstract registered set becomes when JNI_OnLoad binds every    *)
(* line's tables, when JNI_OnUnload unbinds ICU's, and when the VM goes.   *)
LEMMA RegisteredAllLines ==
    ASSUME NEW B,
           \A i \in 1..Len(Order) : TablesOf(Order[i]) \subseteq B
    PROVE  {f \in RegisterFns : TablesOf(f) \subseteq B} = RegisterFns
BY DEF RegisterFns

LEMMA RegisteredWithoutIcu ==
    ASSUME NEW B
    PROVE  {f \in RegisterFns : TablesOf(f) \subseteq B \ {ICU}}
           = {f \in RegisterFns : TablesOf(f) \subseteq B} \ {ICU}
<1> SUFFICES ASSUME NEW f \in RegisterFns
             PROVE  TablesOf(f) \subseteq B \ {ICU}
                    <=> TablesOf(f) \subseteq B /\ f # ICU
  OBVIOUS
<1>1. ICU \in TablesOf(f) <=> f = ICU
  BY OnlyIcuTable
<1>2. QED
  BY <1>1

LEMMA RegisteredNone ==
    {f \in RegisterFns : TablesOf(f) \subseteq {}} = {}
BY OnlyIcuTable

(* The loading thread's steps map to JniLifecycle's: the return from       *)
(* JNI_OnLoad to OnLoad, an abort in a register function to                *)
(* OnLoadGetEnvFails, every other step of the load to a stutter.           *)
LEMMA RefinementStep ==
    LInv /\ [Next]_vars => [Abs!Next]_Abs!vars
<1> SUFFICES ASSUME LInv, [Next]_vars PROVE [Abs!Next]_Abs!vars
  OBVIOUS
<1> USE OrderFacts, OrderPlaces, MismatchAssumption DEF LInv
<1>0. UNCHANGED << vm, started, loaded, AbsRegistered, AbsCacheInit,
                  AbsCacheVm, Running >> => UNCHANGED Abs!vars
  BY DEF Abs!vars
<1>1. ASSUME NEW v \in Vms, StartVm(v) PROVE Abs!StartVm(v)
  BY <1>1 DEF StartVm, Abs!StartVm, LoadInv, InLoad, vhVars, AbsRegistered,
     AbsCacheInit, AbsCacheVm, RegisteredFns, Running
<1>2. CASE OnLoadGetEnvFails
  BY <1>2 DEF Abs!Next, OnLoadGetEnvFails, Abs!OnLoadGetEnvFails, LoadInv,
     AbsRegistered, AbsCacheInit, AbsCacheVm, RegisteredFns, InLoad, Running
<1>3. CASE OnLoadEnter
  <2>1. UNCHANGED << vm, started, loaded, AbsRegistered, AbsCacheInit,
                     AbsCacheVm, Running >>
    BY <1>3 DEF OnLoadEnter, AbsRegistered, AbsCacheInit, AbsCacheVm,
       RegisteredFns, InLoad, Running
  <2>2. QED
    BY <2>1, <1>0
<1>4. CASE RegisterVarHandle
  <2>1. UNCHANGED << vm, started, loaded, AbsRegistered, AbsCacheInit,
                     AbsCacheVm, Running >>
    BY <1>4, VarHandleMatches DEF RegisterVarHandle, AtRegister,
       AbsRegistered, AbsCacheInit, AbsCacheVm, InLoad, Running
  <2>2. QED
    BY <2>1, <1>0
<1>5. CASE RegisterNativeTestTarget
  <2>1. InLoad /\ InLoad' /\ UNCHANGED << vm, started, loaded, preLoad >>
    BY <1>5 DEF RegisterNativeTestTarget, AtRegister, InLoad
  <2>2. CASE << vm, NttTables[nttSub] >> \notin Mismatch
    <3>1. UNCHANGED << vm, started, loaded, AbsRegistered, AbsCacheInit,
                       AbsCacheVm, Running >>
      BY <1>5, <2>1, <2>2 DEF RegisterNativeTestTarget, AbsRegistered,
       AbsCacheInit, AbsCacheVm, Running
    <3>2. QED
      BY <3>1, <1>0
  <2>3. CASE << vm, NttTables[nttSub] >> \in Mismatch
    <3>1. NttTables[nttSub] # "none"
      BY DEF LTypeOK, NttTables
    <3>2. Running /\ ~Running'
      BY <1>5, <2>3, <3>1 DEF RegisterNativeTestTarget, Running
    <3>3. vm # NoVm /\ ~loaded
      BY <2>1 DEF LoadInv
    <3>4. QED
      BY <2>1, <3>2, <3>3 DEF Abs!Next, Abs!OnLoadGetEnvFails, AbsRegistered,
         AbsCacheInit, AbsCacheVm
  <2>4. QED
    BY <2>2, <2>3
<1>6. CASE RegisterOther
  <2>1. UNCHANGED << vm, started, loaded, AbsRegistered, AbsCacheInit,
                     AbsCacheVm, Running >>
    BY <1>6 DEF RegisterOther, AbsRegistered, AbsCacheInit, AbsCacheVm,
       InLoad, Running
  <2>2. QED
    BY <2>1, <1>0
<1>7. CASE OnLoadReturn
  <2>1. InLoad /\ ~InLoad' /\ Running /\ Running'
    BY <1>7 DEF OnLoadReturn, InLoad, Running
  <2>2. RegisteredFns' = RegisterFns
    <3>1. \A i \in 1..Len(Order) : TablesOf(Order[i]) \subseteq bound'
      BY <1>7, <2>1 DEF OnLoadReturn, LoadInv
    <3>2. QED
      BY <3>1, RegisteredAllLines DEF RegisteredFns
  <2>3. vm # NoVm /\ ~loaded /\ cacheInit
        /\ cacheVm = IF preLoad.cacheInit THEN preLoad.cacheVm ELSE vm
    BY <2>1 DEF LoadInv
  <2>4. Abs!JniConstantsInit
    <3>1. AbsCacheInit = preLoad.cacheInit /\ AbsCacheVm = preLoad.cacheVm
          /\ AbsCacheInit' = TRUE /\ AbsCacheVm' = cacheVm
      BY <1>7, <2>1, <2>3 DEF OnLoadReturn, AbsCacheInit, AbsCacheVm
    <3>2. CASE preLoad.cacheInit
      BY <2>3, <3>1, <3>2 DEF Abs!JniConstantsInit
    <3>3. CASE ~preLoad.cacheInit
      BY <2>3, <3>1, <3>3 DEF Abs!JniConstantsInit
    <3>4. QED
      BY <3>2, <3>3
  <2>5. Abs!OnLoad
    BY <1>7, <2>1, <2>2, <2>3, <2>4 DEF Abs!OnLoad, OnLoadReturn,
       AbsRegistered
  <2>6. QED
    BY <2>5 DEF Abs!Next
<1>8. CASE OnUnloadGetEnvFails
  BY <1>8 DEF Abs!Next, OnUnloadGetEnvFails, Abs!OnUnloadGetEnvFails,
     LoadInv, AbsRegistered, AbsCacheInit, AbsCacheVm, RegisteredFns, InLoad, Running
<1>9. CASE OnUnload
  <2>1. ~InLoad /\ ~InLoad'
    BY <1>9 DEF OnUnload, LoadInv, InLoad
  <2>2. RegisteredFns' = RegisteredFns \ {ICU}
    BY <1>9, RegisteredWithoutIcu DEF OnUnload, RegisteredFns
  <2>3. Abs!OnUnload
    BY <1>9, <2>1, <2>2 DEF OnUnload, Abs!OnUnload, AbsRegistered,
       AbsCacheInit, AbsCacheVm, Running
  <2>4. QED
    BY <2>3 DEF Abs!Next
<1>10. CASE DestroyVm
  <2>1. ~InLoad /\ ~InLoad'
    BY <1>10 DEF DestroyVm, InLoad
  <2>2. RegisteredFns' = {}
    BY <1>10, RegisteredNone DEF DestroyVm, RegisteredFns
  <2>3. Abs!DestroyVm
    BY <1>10, <2>1, <2>2 DEF DestroyVm, Abs!DestroyVm, AbsRegistered,
       AbsCacheInit, AbsCacheVm, Running
  <2>4. QED
    BY <2>3 DEF Abs!Next
<1>11. ASSUME NEW t \in Threads, StubCall(t) PROVE UNCHANGED Abs!vars
  <2>1. UNCHANGED << vm, started, loaded, AbsRegistered, AbsCacheInit,
                     AbsCacheVm, Running >>
    BY <1>11 DEF StubCall, ldVars, AbsRegistered, AbsCacheInit, AbsCacheVm, RegisteredFns, InLoad, Running
  <2>2. QED
    BY <2>1, <1>0
<1>12. CASE UNCHANGED vars
  <2>1. UNCHANGED << vm, started, loaded, AbsRegistered, AbsCacheInit,
                     AbsCacheVm, Running >>
    BY <1>12 DEF vars, ldVars, AbsRegistered, AbsCacheInit, AbsCacheVm, RegisteredFns, InLoad, Running
  <2>2. QED
    BY <2>1, <1>0
<1>13. QED
  BY <1>1, <1>2, <1>3, <1>4, <1>5, <1>6, <1>7, <1>8, <1>9, <1>10, <1>11, <1>12
  DEF Next, LoadStep, Abs!Next

(* Taken one REGISTER call at a time, with its aborts, JNI_OnLoad still    *)
(* implements the one-step JNI_OnLoad of JniLifecycle.                     *)
THEOREM Refinement == Spec => ImplementsLifecycle
<1>1. Init => Abs!Init
  BY RegisteredNone DEF Init, Abs!Init, AbsRegistered, AbsCacheInit,
     AbsCacheVm, InLoad, RegisteredFns, Running
<1>2. QED
  BY <1>1, LInvariant, RefinementStep, PTL
  DEF Spec, ImplementsLifecycle, Abs!Spec
=============================================================================
