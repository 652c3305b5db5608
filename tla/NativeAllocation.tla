-------------------------- MODULE NativeAllocation --------------------------
(***************************************************************************)
(* The native half of NativeAllocationRegistryTest                         *)
(* (luni/src/test/native/libcore_libcore_util_NativeAllocationRegistryTest *)
(* .cpp): a global uint64_t byte counter gNumNativeBytesAllocated, raised  *)
(* by doNativeAllocation(size) and lowered by the native finalizer         *)
(* finalize(ptr), which the Java NativeAllocationRegistry runs once per    *)
(* registered allocation, either on the thread that frees it explicitly or *)
(* on the Cleaner daemon after a GC.                                       *)
(*                                                                         *)
(* The counter is a plain uint64_t, so "+=" and "-=" are a load and a      *)
(* store; two threads running them at once is a data race, whose outcomes  *)
(* on the targets are the interleavings of those loads and stores (each   *)
(* operation is therefore split into a Load and a Store step).  The width  *)
(* of the counter is the constant Width (64 in the code).                  *)
(***************************************************************************)
EXTENDS Integers, FiniteSets, FiniteSetsExt

CONSTANTS
    Mutators,   \* threads calling doNativeAllocation (the test thread)
    Cleaners,   \* threads on which the registry runs finalize
    Ptrs,       \* addresses `new uint64_t` can return
    Sizes,      \* jlong sizes passed to doNativeAllocation
    Width       \* bit width of uint64_t / jlong

Threads == Mutators \cup Cleaners
Mod == 2 ^ Width
Word == 0 .. Mod - 1                                  \* uint64_t
Jlong == -(2 ^ (Width - 1)) .. 2 ^ (Width - 1) - 1    \* jlong

ASSUME WidthAssumption == Width \in Nat \ {0}
\* A fact of arithmetic the provers cannot derive (they lack ^).
ASSUME ModAssumption == Mod \in Nat \ {0}
ASSUME SizesAssumption == Sizes \subseteq Jlong
ASSUME PtrsAssumption == IsFiniteSet(Ptrs) /\ Ptrs # {}
ASSUME ThreadsAssumption == Threads # {}

\* A heap cell that does not hold a live `new uint64_t`.
Unallocated == -1

(* static_cast<uint64_t>(jlong) and static_cast<jlong>(uint64_t).         *)
ToUint64(x) == x % Mod
ToJlong(w) == IF w >= 2 ^ (Width - 1) THEN w - Mod ELSE w

VARIABLES
    gNumNativeBytesAllocated, \* the global counter
    heap,        \* heap[p]: the uint64_t stored at p, or Unallocated
    registered,  \* allocations handed to Java and not yet being finalized
    pc,          \* pc[t]: "idle", "add" (inside +=) or "sub" (inside -=)
    tmp,         \* tmp[t]: the counter value thread t loaded
    arg          \* arg[t]: the size being added, or the ptr being freed

vars == << gNumNativeBytesAllocated, heap, registered, pc, tmp, arg >>

Allocated == { p \in Ptrs : heap[p] # Unallocated }
Finalizing == { arg[t] : t \in { u \in Threads : pc[u] = "sub" } }

Init ==
    /\ gNumNativeBytesAllocated = 0
    /\ heap = [p \in Ptrs |-> Unallocated]
    /\ registered = {}
    /\ pc = [t \in Threads |-> "idle"]
    /\ tmp = [t \in Threads |-> 0]
    /\ arg = [t \in Threads |-> 0]

(* Model bound: an allocation is only started while a free address is     *)
(* left for it (in the code `new` would abort the process).                *)
HeapHasRoom ==
    Cardinality(Allocated) + Cardinality({ t \in Threads : pc[t] = "add" })
        < Cardinality(Ptrs)

(* Mutant: doNativeAllocation without line 88 (the counter never rises).  *)
DoNativeAllocationStoreNoAdd(t) ==
    /\ pc[t] = "add"
    /\ \E p \in Ptrs \ Allocated :
          /\ heap' = [heap EXCEPT ![p] = ToUint64(arg[t])]
          /\ registered' = registered \cup {p}
    /\ gNumNativeBytesAllocated' = tmp[t]
    /\ pc' = [pc EXCEPT ![t] = "idle"]
    /\ tmp' = [tmp EXCEPT ![t] = 0]
    /\ arg' = [arg EXCEPT ![t] = 0]

(* Mutant: finalize without `delete ptr` (a leak).                         *)
FinalizeStoreLeak(t) ==
    /\ pc[t] = "sub"
    /\ gNumNativeBytesAllocated' = (tmp[t] - heap[arg[t]]) % Mod
    /\ pc' = [pc EXCEPT ![t] = "idle"]
    /\ tmp' = [tmp EXCEPT ![t] = 0]
    /\ arg' = [arg EXCEPT ![t] = 0]
    /\ UNCHANGED << registered, heap >>

(* Mutant: the counter kept as a mathematical integer, no uint64 wrap.    *)
FinalizeStoreNoWrap(t) ==
    /\ pc[t] = "sub"
    /\ gNumNativeBytesAllocated' = tmp[t] - heap[arg[t]]
    /\ heap' = [heap EXCEPT ![arg[t]] = Unallocated]
    /\ pc' = [pc EXCEPT ![t] = "idle"]
    /\ tmp' = [tmp EXCEPT ![t] = 0]
    /\ arg' = [arg EXCEPT ![t] = 0]
    /\ UNCHANGED registered

(* doNativeAllocation, line 88, first half of `+= size`: load.            *)
DoNativeAllocationLoad(t, size) ==
    /\ pc[t] = "idle"
    /\ HeapHasRoom
    /\ tmp' = [tmp EXCEPT ![t] = gNumNativeBytesAllocated]
    /\ arg' = [arg EXCEPT ![t] = size]
    /\ pc' = [pc EXCEPT ![t] = "add"]
    /\ UNCHANGED << gNumNativeBytesAllocated, heap, registered >>

(* The rest of doNativeAllocation: store the sum, `new uint64_t` holding  *)
(* the size, and return the pointer, which the registry then owns.        *)
DoNativeAllocationStore(t) ==
    /\ pc[t] = "add"
    /\ \E p \in Ptrs \ Allocated :
          /\ heap' = [heap EXCEPT ![p] = ToUint64(arg[t])]
          /\ registered' = registered \cup {p}
    /\ gNumNativeBytesAllocated' = (tmp[t] + ToUint64(arg[t])) % Mod
    /\ pc' = [pc EXCEPT ![t] = "idle"]
    /\ tmp' = [tmp EXCEPT ![t] = 0]
    /\ arg' = [arg EXCEPT ![t] = 0]

(* The registry calls finalize(ptr) for a registered allocation; line 75, *)
(* first half of `-= *ptr`: load.                                          *)
FinalizeLoad(t, p) ==
    /\ pc[t] = "idle"
    /\ p \in registered
    /\ registered' = registered \ {p}
    /\ tmp' = [tmp EXCEPT ![t] = gNumNativeBytesAllocated]
    /\ arg' = [arg EXCEPT ![t] = p]
    /\ pc' = [pc EXCEPT ![t] = "sub"]
    /\ UNCHANGED << gNumNativeBytesAllocated, heap >>

(* Rest of finalize: store the difference, then `delete ptr`.             *)
FinalizeStore(t) ==
    /\ pc[t] = "sub"
    /\ gNumNativeBytesAllocated' = (tmp[t] - heap[arg[t]]) % Mod
    /\ heap' = [heap EXCEPT ![arg[t]] = Unallocated]
    /\ pc' = [pc EXCEPT ![t] = "idle"]
    /\ tmp' = [tmp EXCEPT ![t] = 0]
    /\ arg' = [arg EXCEPT ![t] = 0]
    /\ UNCHANGED registered

Next ==
    \/ \E t \in Mutators, size \in Sizes : DoNativeAllocationLoad(t, size)
    \/ \E t \in Mutators : DoNativeAllocationStore(t)
    \/ \E t \in Cleaners, p \in Ptrs : FinalizeLoad(t, p)
    \/ \E t \in Cleaners : FinalizeStore(t)

Spec == Init /\ [][Next]_vars

-----------------------------------------------------------------------------
(* getNumNativeBytesAllocated: the counter as a jlong.                     *)
NumNativeBytesAllocated == ToJlong(gNumNativeBytesAllocated)

(* The bytes the live allocations stand for, as the uint64 counter should  *)
(* hold them.                                                              *)
LiveBytes == MapThenSumSet(LAMBDA p : heap[p], Allocated) % Mod

Quiescent == \A t \in Threads : pc[t] = "idle"

TypeOK ==
    /\ gNumNativeBytesAllocated \in Word
    /\ heap \in [Ptrs -> Word \cup {Unallocated}]
    /\ registered \subseteq Ptrs
    /\ pc \in [Threads -> {"idle", "add", "sub"}]
    /\ tmp \in [Threads -> Word]
    /\ arg \in [Threads -> Ptrs \cup Sizes \cup {0}]
    /\ \A t \in Threads : pc[t] = "sub" => arg[t] \in Ptrs
    /\ \A t \in Threads : pc[t] = "add" => arg[t] \in Sizes

(* Every live `new uint64_t` is owned by exactly one party: the registry   *)
(* (registered) or one running finalize; nothing owned is already deleted. *)
(* Broken by a finalize that skips `delete ptr` (a leak) or by freeing one *)
(* allocation twice.                                                       *)
OwnershipExclusive ==
    /\ Allocated = registered \cup Finalizing
    /\ registered \cap Finalizing = {}
    /\ \A t, u \in Threads :
          (t # u /\ pc[t] = "sub" /\ pc[u] = "sub") => arg[t] # arg[u]

(* Whenever no thread is inside doNativeAllocation or finalize, the value  *)
(* getNumNativeBytesAllocated reports is the sum of the sizes of the live  *)
(* allocations (what NativeAllocationRegistryTest relies on).  A lost      *)
(* update of the racy `+=`/`-=` breaks it.                                 *)
CounterMatchesLive ==
    Quiescent => NumNativeBytesAllocated = ToJlong(LiveBytes)

=============================================================================
