----------------------- MODULE NativeAllocationProofs -----------------------
(* Proofs about NativeAllocation for every value of its constants.         *)
EXTENDS NativeAllocation, TLAPS

USE WidthAssumption, ModAssumption

(* The counter arithmetic of the code stays within uint64_t.               *)
LEMMA WrapInWord ==
    ASSUME NEW x \in Int
    PROVE  x % Mod \in Word
BY DEF Word

(* The jlong sizes passed to doNativeAllocation are integers.             *)
LEMMA SizesAreInts == Sizes \subseteq Int
BY SizesAssumption DEF Jlong

(* TypeOK is an invariant: every step of doNativeAllocation and finalize   *)
(* keeps the counter a uint64_t value and the heap, the registry's set and *)
(* the per-thread registers well formed.                                    *)
THEOREM TypeCorrect == Spec => []TypeOK
<1>1. Init => TypeOK
  BY SizesAssumption DEF Init, TypeOK, Word, Unallocated
<1>2. TypeOK /\ [Next]_vars => TypeOK'
  <2> SUFFICES ASSUME TypeOK, [Next]_vars PROVE TypeOK'
    OBVIOUS
  <2>1. ASSUME NEW t \in Mutators, NEW size \in Sizes,
               DoNativeAllocationLoad(t, size)
        PROVE  TypeOK'
    BY <2>1 DEF DoNativeAllocationLoad, TypeOK, Threads
  <2>2. ASSUME NEW t \in Mutators, DoNativeAllocationStore(t)
        PROVE  TypeOK'
    <3>1. arg[t] \in Sizes
      BY <2>2 DEF DoNativeAllocationStore, TypeOK, Threads
    <3>2. ToUint64(arg[t]) \in Word
      BY <3>1, SizesAreInts, WrapInWord DEF ToUint64
    <3>3. (tmp[t] + ToUint64(arg[t])) % Mod \in Word
      <4>1. tmp[t] \in Int
        BY DEF TypeOK, Threads, Word
      <4>2. QED
        BY <3>2, <4>1, WrapInWord DEF Word
    <3>4. PICK p \in Ptrs \ Allocated :
                 heap' = [heap EXCEPT ![p] = ToUint64(arg[t])]
                 /\ registered' = registered \cup {p}
      BY <2>2 DEF DoNativeAllocationStore
    <3>5. heap' \in [Ptrs -> Word \cup {Unallocated}] /\ registered' \subseteq Ptrs
      BY <3>2, <3>4 DEF TypeOK
    <3>6. /\ pc' \in [Threads -> {"idle", "add", "sub"}]
          /\ tmp' \in [Threads -> Word]
          /\ arg' \in [Threads -> Ptrs \cup Sizes \cup {0}]
      BY <2>2 DEF DoNativeAllocationStore, TypeOK, Threads, Word
    <3>7. /\ \A u \in Threads : pc'[u] = "sub" => arg'[u] \in Ptrs
          /\ \A u \in Threads : pc'[u] = "add" => arg'[u] \in Sizes
      BY <2>2 DEF DoNativeAllocationStore, TypeOK, Threads
    <3>8. QED
      BY <2>2, <3>3, <3>5, <3>6, <3>7 DEF DoNativeAllocationStore, TypeOK
  <2>3. ASSUME NEW t \in Cleaners, NEW p \in Ptrs, FinalizeLoad(t, p)
        PROVE  TypeOK'
    BY <2>3 DEF FinalizeLoad, TypeOK, Threads
  <2>4. ASSUME NEW t \in Cleaners, FinalizeStore(t)
        PROVE  TypeOK'
    <3>1. arg[t] \in Ptrs
      BY <2>4 DEF FinalizeStore, TypeOK, Threads
    <3>2. heap[arg[t]] \in Word \cup {Unallocated}
      BY <3>1 DEF TypeOK
    <3>3. (tmp[t] - heap[arg[t]]) % Mod \in Word
      BY <3>2, WrapInWord DEF TypeOK, Threads, Word, Unallocated
    <3>4. heap' \in [Ptrs -> Word \cup {Unallocated}]
      BY <2>4, <3>1 DEF FinalizeStore, TypeOK
    <3>5. /\ pc' \in [Threads -> {"idle", "add", "sub"}]
          /\ tmp' \in [Threads -> Word]
          /\ arg' \in [Threads -> Ptrs \cup Sizes \cup {0}]
      BY <2>4 DEF FinalizeStore, TypeOK, Threads, Word
    <3>6. /\ \A u \in Threads : pc'[u] = "sub" => arg'[u] \in Ptrs
          /\ \A u \in Threads : pc'[u] = "add" => arg'[u] \in Sizes
      BY <2>4 DEF FinalizeStore, TypeOK, Threads
    <3>7. QED
      BY <2>4, <3>3, <3>4, <3>5, <3>6 DEF FinalizeStore, TypeOK
  <2>5. CASE UNCHANGED vars
    BY <2>5 DEF vars, TypeOK
  <2>6. QED
    BY <2>1, <2>2, <2>3, <2>4, <2>5, Zenon DEF Next
<1>3. QED
  BY <1>1, <1>2, PTL DEF Spec

(* OwnershipExclusive is an invariant: doNativeAllocation hands a fresh    *)
(* `new uint64_t` to the registry, the registry passes each to finalize    *)
(* once, and finalize deletes exactly the pointer it was given, so every   *)
(* live allocation has one owner.  Inductive together with TypeOK.         *)
THEOREM OwnershipInvariant == Spec => []OwnershipExclusive
<1> DEFINE Inv == TypeOK /\ OwnershipExclusive
<1>1. Init => Inv
  BY SizesAssumption DEF Init, TypeOK, Word, Unallocated, OwnershipExclusive,
     Allocated, Finalizing
<1>2. Inv /\ [Next]_vars => OwnershipExclusive'
  <2> SUFFICES ASSUME TypeOK, OwnershipExclusive, [Next]_vars
               PROVE  OwnershipExclusive'
    OBVIOUS
  <2>1. ASSUME NEW t \in Mutators, NEW size \in Sizes,
               DoNativeAllocationLoad(t, size)
        PROVE  OwnershipExclusive'
    <3>1. Allocated' = Allocated /\ Finalizing' = Finalizing
      BY <2>1 DEF DoNativeAllocationLoad, Allocated, Finalizing, TypeOK, Threads
    <3>2. QED
      BY <2>1, <3>1 DEF DoNativeAllocationLoad, OwnershipExclusive, TypeOK, Threads
  <2>2. ASSUME NEW t \in Mutators, DoNativeAllocationStore(t)
        PROVE  OwnershipExclusive'
    <3>1. PICK p \in Ptrs \ Allocated :
                 heap' = [heap EXCEPT ![p] = ToUint64(arg[t])]
                 /\ registered' = registered \cup {p}
      BY <2>2 DEF DoNativeAllocationStore
    <3>2. ToUint64(arg[t]) # Unallocated
      <4>1. arg[t] \in Int
        BY <2>2, SizesAreInts DEF DoNativeAllocationStore, TypeOK, Threads
      <4>2. QED
        BY <4>1, WrapInWord DEF ToUint64, Word, Unallocated
    <3>3. Allocated' = Allocated \cup {p}
      BY <3>1, <3>2 DEF Allocated, TypeOK
    <3>4. Finalizing' = Finalizing
      BY <2>2 DEF DoNativeAllocationStore, Finalizing, TypeOK, Threads
    <3>5. p \notin Finalizing
      BY <3>1 DEF OwnershipExclusive
    <3>6. QED
      BY <2>2, <3>1, <3>3, <3>4, <3>5
         DEF DoNativeAllocationStore, OwnershipExclusive, TypeOK, Threads
  <2>3. ASSUME NEW t \in Cleaners, NEW p \in Ptrs, FinalizeLoad(t, p)
        PROVE  OwnershipExclusive'
    <3>1. Allocated' = Allocated
      BY <2>3 DEF FinalizeLoad, Allocated
    <3>2. Finalizing' = Finalizing \cup {p}
      BY <2>3 DEF FinalizeLoad, Finalizing, TypeOK, Threads
    <3>3. \A u \in Threads : pc[u] = "sub" => arg[u] # p
      BY <2>3 DEF FinalizeLoad, OwnershipExclusive, Finalizing
    <3>4. QED
      BY <2>3, <3>1, <3>2, <3>3 DEF FinalizeLoad, OwnershipExclusive, TypeOK, Threads
  <2>4. ASSUME NEW t \in Cleaners, FinalizeStore(t)
        PROVE  OwnershipExclusive'
    <3> DEFINE q == arg[t]
    <3>1. q \in Ptrs /\ pc[t] = "sub"
      BY <2>4 DEF FinalizeStore, TypeOK, Threads
    <3>2. Allocated' = Allocated \ {q}
      BY <2>4, <3>1 DEF FinalizeStore, Allocated, TypeOK
    <3>3. Finalizing' = Finalizing \ {q}
      BY <2>4, <3>1 DEF FinalizeStore, Finalizing, OwnershipExclusive, TypeOK, Threads
    <3>4. q \in Finalizing
      BY <3>1 DEF Finalizing, Threads
    <3>5. QED
      BY <2>4, <3>2, <3>3, <3>4 DEF FinalizeStore, OwnershipExclusive, TypeOK, Threads
  <2>5. CASE UNCHANGED vars
    BY <2>5 DEF vars, OwnershipExclusive, Allocated, Finalizing
  <2>6. QED
    BY <2>1, <2>2, <2>3, <2>4, <2>5, Zenon DEF Next
<1>3. QED
  BY <1>1, <1>2, TypeCorrect, PTL DEF Spec

=============================================================================
