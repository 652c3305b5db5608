# Verification project for libcore's native glue (android_9.0.0_r45)

This directory holds TLA+ models of the native (C/C++) part of libcore in
this repository fragment, the TLC configurations that check them, and TLAPS
proofs about them. The source is under `src/libcore`. The swap routines that
`libcore_io_Memory_test.cpp` drives live in `libcore_io_Memory.cpp`, which is
not in the fragment. Where the models need them, they are modelled from
`spec.md` and marked `spec_modelled` in `PROJECT.json`.

## 1. Inventory

The fragment is JNI glue. There are native-method tables, thin wrappers into
the VM, and test helpers. No component is large, but several hold shared
state or run on more than one thread, and those are the ones worth checking.

| Component | Source | State it keeps | Operations | Interacts with |
|---|---|---|---|---|
| Native allocation bookkeeping | `luni/src/test/native/libcore_libcore_util_NativeAllocationRegistryTest.cpp` | global `uint64_t gNumNativeBytesAllocated`; heap cells `new uint64_t` holding each size | `doNativeAllocation(size)`, `finalize(ptr)` (handed out by `getNativeFinalizer`), `getNumNativeBytesAllocated`, `isNativeBridgedABI` | Java `NativeAllocationRegistry`. It runs `finalize` once per registered pointer, on the test thread (explicit free) or on the Cleaner daemon after a GC. |
| Library load/unload | `luni/src/main/native/Register.cpp` | `JniConstants` cache (libnativehelper); the registered native tables | `JNI_OnLoad` (GetEnv or abort, `JniConstants::init`, 16 `register_*` calls), `JNI_OnUnload` (unregister ICU, `ClearJniConstantsCache`) | The VM calls these on load/unload. A process can host several VMs one after another (comment at line 62). |
| Socket tagging | `ojluni/src/main/native/socket_tagger_util.cpp` | none of its own; reads `JniConstants::socketTaggerClass` | `tagSocket(env, fd)`: returns early if an exception is pending, then makes five JNI calls, two of them calls into Java | `JniConstants` cache; Java `SocketTagger`. |
| Thread-name test | `luni/src/test/native/libcore_java_lang_ThreadTest.cpp` | `javaVm`; per test a `pthread_t`, a result `std::string*` | main: create, join and report for two helper threads; helper `TestThreadNaming`: setname, attach, `prctl(PR_GET_NAME)`, compare, detach | pthreads; VM attach/detach, which renames the thread. |
| File-name test | `luni/src/test/native/libcore_java_io_FileTest.cpp` | `struct stat sb` | `nativeTestFilesWithSurrogatePairs` (two `stat` calls, throws on failure); `installSeccompFilter` (BPF: `fstatat` gives EPERM, everything else is allowed) | kernel `stat` and seccomp; JNI exceptions. |
| Native method tables | `ojluni/.../Thread.c`, `luni/.../java_lang_invoke_VarHandle.cpp`, `dalvik/.../NativeTestTarget.cpp` | static `JNINativeMethod[]` tables | `register_*` functions; the 31 VarHandle access-mode stubs, each throwing `UnsupportedOperationException` | VM `RegisterNatives`. |
| Endian swap tests and benchmark | `luni/src/test/native/libcore_io_Memory_test.cpp`, `luni/src/benchmark/native/libcore_io_Memory_bench.cpp` | test buffers | `swap_align_test` over 8x8 alignments; peek/poke tests; benchmarks | `swapShorts/Ints/Longs` and `Memory_peek*/poke*`. These are not in the fragment (spec section 4.1). |
| Direct-buffer test helpers | `luni/src/test/native/libcore_java_nio_BufferTest.cpp` | none | three one-line forwards to JNI | VM. |

### What is hard here

* **Data race.** The allocation counter is a plain `uint64_t`. `+=` runs on
  the test thread and `-=` on the registry's Cleaner daemon, so the two race.
  A lost update changes what `getNumNativeBytesAllocated` reports.
* **Width and sign.** A jlong size goes into a uint64 sum, and the sum comes
  back as a jlong.
* **Pending JNI exceptions.** `tagSocket`, `nativeTestFilesWithSurrogatePairs`
  and the thread-name test keep going after a call has thrown or they have
  thrown. They make further JNI calls, or throw again, while an exception is
  pending. The file test then reads an uninitialised `struct stat`.
* **Partial failure in the thread test.** If `pthread_create` fails, the code
  throws and then still joins the never-created thread. It reads and deletes
  the uninitialised result pointer. If detach fails, its message overwrites
  (and leaks) an earlier one.
* **VM restart.** `JNI_OnUnload` must clear the `JniConstants` cache. If it
  does not, a second VM in the same process uses the first VM's class
  references (through `tagSocket`).

### Properties that make each component correct

* Allocation bookkeeping:
  * When no call is in progress, the counter equals the sum of the sizes of
    the live allocations.
  * Every live allocation has exactly one owner: the registry, or one running
    `finalize`.
* Load/unload and socket tagging: native code of a VM only uses `JniConstants`
  that were initialised for that VM.
* JNI natives: no JNI call other than the exception-safe ones is made while
  an exception is pending. Nothing uninitialised is read.
* Thread-name test:
  * Each result pointer that is read or deleted was set by a successful join.
  * Every message allocated is returned or freed.
  * Test *k* attaches the way its comment says.
* Swap (spec): applying the swap twice gives the input back. Alignment does
  not matter. (The spec also promises in-place safety; no code in the
  fragment swaps in place, and the element-wise `Swap` modelled from the
  spec has it by construction, so it is not checked.)

## 2. Plan

Modules, in the order they are built. The most important behaviour comes
first.

1. `NativeAllocation` (done). This is the counter and heap under concurrent
   `doNativeAllocation` / `finalize`.
   * `MCNativeAllocation` with two configurations: an explicit free on the
     test thread (pass) and the Cleaner daemon (violation).
   * `NativeAllocationProofs` proves `TypeOK` and `OwnershipExclusive`.
2. `JniLifecycle` (done): `JNI_OnLoad`/`JNI_OnUnload` across VM restarts, the
   `JniConstants` cache (spec_modelled, libnativehelper), the registration
   tables. `tagSocket` as a reader of the cache is left to module 3.
   * Property: the cache is fresh for the running VM.
   * Mutant: drop `ClearJniConstantsCache`.
3. Pending-exception discipline (done), split by component: `SocketTagging`
   (`tagSocket` over the life cycle), `FileTestNative` (the file test and
   the seccomp filter), and `NoNewStringWhilePending` in `ThreadNaming`.
4. `ThreadNaming` (done): main thread plus helper threads, with create/join failure
   and the VM's attach naming as nondeterministic outcomes.
   * Properties on result pointers and message ownership.
   * The swapped test comments are described in its section, not checked.
5. `EndianSwap` (done; spec_modelled algorithm) with the `swap_align_test` oracle
   from the test source. Checked against a reference byte reversal over
   bounded buffers. No RECURSIVE operator in modules that get proofs.
6. `VarHandleNatives` and `LibraryLoad` (done): the VarHandle stub table and
   reflective calls of its stubs. `JNI_OnLoad` is taken one `REGISTER` line
   at a time, with NativeTestTarget's four tables, and it refines
   `JniLifecycle`.

Theorems (done): `NativeAllocationProofs`, `JniLifecycleProofs`,
`LibraryLoadProofs` (the refinement),
`FileTestProofs` (the verdict and the filter) and `ThreadNamingProofs`.
Next: the peek/poke alignment tests, which need `libcore_io_Memory.cpp`'s
contract.

Properties that stay with TLC, and why:
* `CounterMatchesLive` (NativeAllocation): the counter is compared with a
  fold over the live set. What a fold computes for every set needs
  induction over data, which the provers cannot do with an operator
  parameter.
* `AlignTestPasses` (EndianSwap): the module uses `Bitwise`, which no
  module with a theorem may reach, and the swap is a recursive function
  whose result for every input needs induction.
* The properties of the violation runs: TLC shows each false.

## 3. Modules, runs and what they show

### NativeAllocation

State:

| Variable | Code |
|---|---|
| `gNumNativeBytesAllocated` | the global counter, modulo `2^Width` |
| `heap` | the `uint64_t` cells from `new` (`Unallocated` once deleted) |
| `registered` | pointers the registry owns and has not yet finalized |
| `pc`, `tmp`, `arg` | per-thread position inside `+=`/`-=`, the loaded counter, and the size or pointer |

Each `+=`/`-=` is a `Load` step and a `Store` step. The data race makes
every interleaving of these possible. `new` and `delete` are folded into the
store step, because the pointer is private to the thread until it is
returned.

Runs (`MCNativeAllocation`: `Width = 3`, 4 addresses, sizes {1,2,3}):

* `alloc_explicit`: `Mutators = Cleaners = {main}` (free through the
  registry's Runnable on the test thread). It checks:
  * `TypeOK`;
  * `OwnershipExclusive`;
  * `CounterMatchesLive`, in which the sum wraps mod 8 after a few
    allocations.

  It passes. With one thread this run checks the sequential bookkeeping of
  lines 75 and 88 modulo 2^Width; it cannot show the race, which needs a
  second thread. No interleaving property is claimed for this run: with a
  single thread every store follows its own load, so "no update is lost"
  would hold whatever the code did.
* `alloc_cleaner_race`: `Cleaners = {daemon}`, which is how
  `testNativeAllocation` frees after GC. TLC finds a lost increment in seven
  steps: the daemon loads, the test thread stores, and the daemon stores.
  This is a real data race in the test helper.

Bounds: 4 addresses allow several live allocations, address reuse after
`delete`, and a wrapping sum. Two threads are enough for any pair of
load/store interleavings.

No fairness is assumed. Whether and when a GC runs the Cleaner is not under
the code's control, so no liveness property is claimed.

Proved (`NativeAllocationProofs`, for all constants satisfying the
assumptions):

* `TypeCorrect` (`Spec => []TypeOK`).
* `OwnershipInvariant` (`Spec => []OwnershipExclusive`). Its inductive
  invariant is `TypeOK /\ OwnershipExclusive`.
`ModAssumption` (`2^Width` is a positive natural) is stated because the
provers have no exponentiation. `CounterMatchesLive` involves a sum over a
set and needs induction over that set, which the provers cannot do, so it
stays with TLC.

### JniLifecycle

State:

| Variable | Code |
|---|---|
| `vm`, `started` | the VM the process is running (`NoVm` between VMs), and those it brought up so far |
| `loaded` | `JNI_OnLoad` ran in `vm` and `JNI_OnUnload` has not |
| `registered` | the native tables bound in `vm` (the `register_*` calls of `Register.cpp`) |
| `cacheInit`, `cacheVm` | libnativehelper's "JniConstants initialized" mark, and the VM its class references came from |
| `aborted` | `abort()` after a failed `GetEnv` |

Actions:

* `OnLoad` is `JNI_OnLoad` (lines 28-59): `GetEnv`, then
  `JniConstants::init`, then every `register_*`.
* `OnUnload` is `JNI_OnUnload` (lines 63-80): `GetEnv`, unregistering ICU,
  then `ClearJniConstantsCache`.
* `OnLoadGetEnvFails` and `OnUnloadGetEnvFails` are the two `abort()` paths.
* `JniConstantsInit` is modelled from libnativehelper's contract
  (`spec_modelled`): a fast return when the mark is set, otherwise it looks
  the classes up in the calling VM.
* `StartVm` and `DestroyVm` are the environment. The VM tears down its classes,
  and with them every binding, only after unloading the library. This is the
  order the comment at line 62 describes.

`CacheMatchesVm` is checked in run `socket_tagging` (see SocketTagging). That
run drives the whole life cycle: three VMs, the ICU table and one other, with
`tagSocket` steps in between. While any native of the library is bound, the
cached class references belong to the running VM. It passes. The mutant
without `ClearJniConstantsCache` breaks it on the second VM. Three VMs allow a
restart after an abort-free unload, and a second restart after that.
`MCJniLifecycle` holds the model values both runs share.

Proved (`JniLifecycleProofs`): `CacheFresh`, `Spec => []CacheMatchesVm`, for
any sets of VMs and tables. `CacheMatchesVm` is not inductive by itself. A
state with bindings, a stale cache and `loaded` false would let `OnLoad` keep
the stale references. The inductive invariant `CacheInv` adds that the mark
is set exactly while the library is loaded, and that a set mark belongs to the
running VM.

### ThreadNaming

`nativeTestNativeThreadNames` (main) and the two `TestThreadNaming` helper
threads. `mainPc` and `helperPc[k]` are their positions.

| Variable | Code |
|---|---|
| `created[k]` | the outcome of `pthread_create` for test k |
| `resultPtr[k]` | `result_test_k`: a message kind, `"null"`, or `"garbage"` while never written |
| `msg[k]` | the helper's `exception_message` |
| `allocated` | the messages `new`ed and not yet deleted |
| `result`, `pending`, `returned` | what was appended to `result`, a pending Java exception, a non-null returned string |
| `threadName[k]`, `fault[k]` | the name the VM left on the thread; the environment calls that failed |

Every call into pthreads, prctl or the VM may fail, and the VM may leave any
of three names: right, "foozball", or "Thread-N". Strings are abstracted to
which message was built.

Reading the never-written `pthread_t` or `result_test_k` after a failed
create is undefined behaviour. It is modelled as its possible outcomes:
bionic aborts on the invalid thread, the pointer reads as null, or the
pointer is dereferenced and the process crashes.

Runs (`CHECK_DEADLOCK FALSE`, since main finishes or crashes):

* `thread_naming` checks `VerdictSound`: the test reports a failure exactly
  when something it checks went wrong. It passes over 992 states. The mutant
  that drops `attach_with_name &&` (line 53) breaks it.
* `thread_naming_leak` (violation of `NoMessageLeak`): if detach fails after
  prctl failed or a name mismatched, line 74 overwrites the only pointer to
  the first message.
* `thread_naming_uninit` (violation of `ResultSetBeforeUse`): after a failed
  `pthread_create`, main joins and reads state that nothing has set.
* `thread_naming_pending` (violation of `NoNewStringWhilePending`): test 1
  reports a message, then `pthread_create` fails for test 2. main goes on to
  `NewStringUTF` (line 124) with the IllegalStateException pending, which
  CheckJNI aborts on.

One more divergence was noticed while modelling. It is recorded here and not
given a run. The comments of lines 84-85 and 102-104 say test 1 attaches with
a name and test 2 without. The arguments (`0` for test 1, `1` for test 2) do
the opposite, so failures are reported under the other test's label.
`AttachArg` follows the code.

The model has no constants. Its state space is all of the program's
behaviours under these outcomes.

Proved (`ThreadNamingProofs`): `VerdictSoundThm`, `Spec => []VerdictSound`.
`VerdictSound` speaks only of `done`. The inductive invariant `VInv` adds
three things:
* an exception is pending exactly when some `pthread_create` failed;
* `HelperInv(k)`: helper k runs only if it was created. Until it has checked
  the name, it has no message, fault or name. From the check on, it has a
  message exactly when it saw something wrong (`HelperWrong(k)`: a failed
  call, or a name the VM should not have left);
* `MainInv(k)`: what `result_test_k` holds and whether k was appended, at
  each of main's positions. Once set, the pointer is the exited helper's
  message, or null after a failed create. After the report, k is in the
  result exactly when the pointer holds a message.

At `done`, both tests are past their report. So the result is non-empty
exactly when some helper saw something wrong. A failed create leaves its
helper at `"none"`, with nothing wrong, and sets `pending`. The proof
splits each action where the code branches, and under it proves each part
of `VInv` separately. It runs under 20 seconds.

### SocketTagging (composed with JniLifecycle)

`SocketTagging` EXTENDS `JniLifecycle` and adds one thread running
`tagSocket`. `tpc` is its position. `tpending` is the exception pending on
its JNIEnv. `getId`, `tagger`, `tagId` and `fdObj` are the handles the
function obtains. Each JNI call of lines 27-36 is one action. The caller
(a socket native of the library, not in this fragment) may enter with an
exception pending, and the calls in the constant `MayFail` may throw.

`misuse` holds the calls made with an exception pending or through a null
handle, which CheckJNI aborts on.

Life-cycle steps happen only between calls, since a library is unloaded only
when none of its natives can run. `tagSocket` is called only while the
library is loaded.

Runs (`MCSocketTagging`, the three VMs of `MCJniLifecycle`):

* `socket_tagging`, with `MayFail = {"tag"}`. This is the platform case: the
  methods exist in the boot class, and `get()` returns a static field. It
  checks `CacheMatchesVm` of `JniLifecycle` with `tagSocket` running between
  the life-cycle steps; the mutant without `ClearJniConstantsCache` breaks it
  (524 states). It checks nothing of `tagSocket` itself: with only `tag()`
  able to throw, nothing before it can leave an exception pending, so "no
  JNI call while pending" would only restate the entry check of line 27,
  and every read of `socketTaggerClass` happens while the library is loaded,
  so its freshness is `CacheMatchesVm` again.
* `socket_tagging_oom` adds `jniCreateFileDescriptor` to `MayFail`. TLC shows
  `CallVoidMethod(tagger, tag, nullptr)` being made with the
  OutOfMemoryError pending (line 36). This is the one question about
  `tagSocket` worth asking, and the code's answer is no, so nothing about
  `tagSocket` is proved.

### FileTestNative

This module covers `nativeTestFilesWithSurrogatePairs` and
`installSeccompFilter`. Its variables:
* `pc` is the position in the native;
* `sb` is `struct stat sb`, `"uninit"` until a stat writes it;
* `statResult` holds the outcome of each stat: a file type or `"fail"`;
* `pending` is the pending exception;
* `filter` is whether the seccomp filter is installed;
* `calls` counts the calls of the native, bounded by `MaxCalls = 2`.

The BPF program of lines 56-68 is data (`Filter`), run by a small
interpreter (`BpfRun`). bionic's `stat()` is `fstatat`, so once the filter is
in, every stat fails with EPERM. `jniThrowException` discards a pending
exception (libnativehelper), so a later throw replaces an earlier one.

Runs (`CHECK_DEADLOCK FALSE`: the native returns or crashes):

* `filetest` (116 states) checks two properties:
  * `FilterDeniesOnlyFstatat`: the mutant with the jump offsets swapped
    breaks it;
  * `FailsIffWrong`: the native throws exactly when an entry is missing or
    has the wrong type. The mutant without the `jniThrowIOException` breaks
    it, because the uninitialised `sb` may read as a directory.
  `FailsIffWrong` speaks only of whether the native throws, so it cannot
  tell a stale `sb` from a fresh one; the next run can.
* `filetest_failed_stat` (violation of `FailedStatReported`: when a stat
  fails, the native returns with the IOException carrying its errno).
  Neither `jniThrowIOException` is followed by a return. TLC's trace, six
  states: the directory's stat succeeds and its check passes; the file's
  stat fails and throws IOException; line 50 tests the `sb` the directory's
  stat left, sees a directory, and replaces the IOException with
  IllegalStateException("expected file"). When the directory's stat fails
  instead, line 41 reads a `struct stat` nothing has written, with the same
  effect.

A second call of the native (`CallAgain`) shows that a filter installed
earlier in the process makes every later stat fail.

Proved (`FileTestProofs`): `FailsIffWrongThm`, `Spec => []FailsIffWrong`, for
any number of calls. The proof does not need the BPF program. It uses only
that a stat outcome is a type or `"fail"`.

`FailsIffWrong` speaks only of `done`, so it is not inductive. The inductive
invariant `VerdictInv` says, at each position of the native, when an
exception is pending:
* after the first stat, exactly when it failed;
* before the second stat, exactly when the first entry is not a directory;
* after a successful stat, `sb` holds that stat's type.

The throw replacing an earlier exception never clears it. That is why the
verdict survives the check that reads an unwritten `sb`.

Proved as well: `FilterDeniesOnlyFstatatThm`. The interpreter's `exec` is a
recursive function `exec[i][acc]`, and to the provers it is
`CHOOSE exec : exec = [...]`. `TableSolves` shows that an explicit table,
`FilterTable`, satisfies that equation. So the CHOOSE picks a solution, and
`FilterVerdicts` unfolds any solution from instruction 1:
* load the number;
* the `jeq` goes to the EPERM return when the number is fstatat, and past
  it otherwise.

This is finite unfolding of a program that only jumps forward, not
induction over programs. It says nothing about other BPF programs.
`exec` is curried (a function of `i` returning a function of `acc`) because
the SMT backend cannot encode functions of two arguments.

### EndianSwap

The three `swap_align_test` TESTs of `libcore_io_Memory_test.cpp`:
* the buffers and the `init_func` oracles, computed byte by byte;
* the 8x8 loop over dst/src offsets, with `memset`, `memcpy`, swap and
  `memcmp` as one `Iterate` step;
* `posix_memalign` failure.

Memory is one function from addresses to bytes, with `Undef` for bytes no one
wrote. The swap routines themselves are in `libcore_io_Memory.cpp`, which is
not in the fragment. `Swap` is modelled from spec section 4.1 and marked
`spec_modelled`: each element's bytes are read, then written back reversed.

Run `endian_swap` (463 states, `Alignment = 8` as in the test):
* `AlignTestPasses`: no TEST sees a mismatch. A batched `swapShorts` that
  drops the odd tail element breaks it, which is what the 9-element test
  exists to catch.

The memory is byte-level because the property is: the oracles are built
byte by byte from shifted ORs, and a swap is wrong exactly when one byte
lands in the wrong place at some offset pair.

The module uses `Bitwise` (the `init_func` ORs), so it holds no theorems.

### VarHandleNatives and LibraryLoad (refines JniLifecycle)

`VarHandleNatives` covers `java_lang_invoke_VarHandle.cpp`:
* `Modes` is the 31 names of `gMethods`.
* `TableSig` is the signature each entry is registered with, by return type.
* `StubLiteral` is the access-mode string each `VarHandle_<mode>` stub passes
  to `ThrowUnsupportedOperationForAccessMode`.
* `JavaReturn` is the return type `VarHandle.java` declares for each mode.
  That file is outside the fragment, so this is `spec_modelled` from its
  contract.
* `VarHandleTableMatches` is what `RegisterNatives` checks of the table.
* `InvokeReflectively(t, m)` is a reflective call of a stub by thread `t`. It
  leaves an UnsupportedOperationException naming the stub's literal.
  `Catch(t)` is the caller catching it.

`LibraryLoad` is `JNI_OnLoad` of `Register.cpp` taken one `REGISTER` line at
a time, with the VarHandle stubs callable once their table is bound.

| Variable | Code |
|---|---|
| `vm`, `started`, `loaded`, `cacheInit`, `cacheVm` | as in JniLifecycle |
| `bound` | the tables `RegisterNatives` has bound in `vm` |
| `abortedIn` | `"none"`, or where `abort()` was called (GetEnv, or the table `jniRegisterNativeMethods` saw rejected) |
| `ldPc` | 0, or the index in `Order` of the `REGISTER` line `JNI_OnLoad` is at (`Len(Order)+1`: the `return`) |
| `nttSub` | which of the four `jniRegisterNativeMethods` calls of `register_org_apache_harmony_dalvik_NativeTestTarget` is next |
| `preLoad` | auxiliary (history) variable: the abstract state when `JNI_OnLoad` was entered |
| `pending` | per Java thread: the mode its pending exception names |

Actions:
* `OnLoadGetEnvFails` and `OnLoadEnter` split `JNI_OnLoad` at `GetEnv`.
  `OnLoadEnter` includes `JniConstants::init`.
* `RegisterVarHandle` is `register_java_lang_invoke_VarHandle`.
* `RegisterNativeTestTarget` is one of `NativeTestTarget.cpp`'s four
  registrations: `gMethods_NormalOnly`, `gMethods`, `gMethods_Fast` and
  `gMethods_Critical`. A table the VM's class does not match (the constant
  `Mismatch`, a set of `<<vm, table>>` pairs) aborts.
* `RegisterOther` is each of the 14 `register_*` functions outside the
  fragment. Each binds its one table.
* `OnLoadReturn` is `JNI_OnLoad` returning.
* `OnUnload`, `OnUnloadGetEnvFails`, `StartVm` and `DestroyVm` are as in
  JniLifecycle.
* `StubCall(t)` is a Java thread calling a bound stub, or catching.

**Refinement.** `Abs == INSTANCE JniLifecycle WITH ...` maps:
* `registered` to the functions all of whose tables are bound;
* `aborted` to `abortedIn # "none"`.

While a load is in progress, the mapping shows the state `preLoad` saved at
entry. So the abstract `OnLoad` happens at `OnLoadReturn`. A register step
maps to a stutter. An abort inside a register function maps to the abstract
`OnLoadGetEnvFails`, whose effect (`aborted`, and nothing else) is the same.

**Fairness.** None is assumed, and no liveness property is checked.
`JNI_OnLoad` is 16 straight-line `REGISTER` calls: under weak fairness of the
loading thread it would finish by the shape of the code, which says nothing
about the code.

Run `library_load` (`MCLibraryLoad`) has:
* 3 VMs;
* one Java thread;
* a VM `v2` whose `NativeTestTarget` class does not match `gMethods_Critical`,
  the fourth table, so every earlier table is bound before the abort.

It reaches 18196 distinct states. It checks:
* `ImplementsLifecycle` (`Abs!Spec`). The mutant `OnLoadReturnEarly` returns
  before the last `REGISTER` line. It breaks the property: the abstract
  `OnLoad` binds every table.
* `RegistrationSucceeds`: `register_java_lang_invoke_VarHandle` never aborts.
  The mutant that registers `compareAndSet` with the Object signature breaks
  it.

The stubs' literals are not checked: `StubLiteral` is the identity on the 31
modes, because every literal at lines 41-190 is its own stub's mode, so a
property that each stub names its own mode would restate that definition.

Proved (`LibraryLoadProofs`, for all `Vms`, `Threads` and `Mismatch`
satisfying `MismatchAssumption`):
* `Refinement`, `Spec => ImplementsLifecycle`;
* `RegistrationSucceedsThm`.

The inductive invariant `LInv` has two parts:
* `LTypeOK`, in which `abortedIn` ranges over causes that exclude
  `"VarHandle"` (this uses `VarHandleMatches`, which the provers check over
  all 31 modes);
* `LoadInv`.

`LoadInv` is what the refinement needs of a load in progress:
* the VM is up and the library is not loaded;
* the cache was filled at entry, and `cacheVm` is the entry's value or the
  running VM;
* every `REGISTER` line passed, and every NativeTestTarget table already
  registered, is bound.

With it, `OnLoadReturn` binds exactly `RegisterFns`, and an abort happens
where the abstract `OnLoadGetEnvFails` is enabled.

The refinement cannot notice a `REGISTER` line missing from the code: the
abstract table set `RegisterFns` is built from the same `Order` list.

The comments on `kVarHandleBooleanSignature` and `kVarHandleObjectSignature`
(lines 22-26) are swapped: "returning an object reference" sits above the
boolean signature, and the other way round. The code is right; only the
comments are wrong.

## 4. Not modelled

* `isNativeBridgedABI`: popen and string search on `uname -m`. It is pure
  I/O plus a choice on the build architecture.
* `BufferTest` forwards and the bodies of `NativeTestTarget`'s natives:
  they have no state. The four tables and their registration are modelled in
  `LibraryLoad`.
* `Thread.c`'s `register_java_lang_Thread`. It is called from libopenjdk's
  `JNI_OnLoad`, which is not in the fragment. Its table maps to `JVM_*`
  entry points outside it. It ignores the results of `FindClass` and
  `RegisterNatives`, which is listed as a hazard without a property.
* The Memory peek/poke alignment tests: they drive `Memory_peek*`/`poke*`,
  whose code is not in the fragment and which the spec does not describe.
* Benchmarks: timing only.
* Liveness of anything driven by GC.
