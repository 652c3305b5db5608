----------------------------- MODULE EndianSwap -----------------------------
(***************************************************************************)
(* The swap_align_test gtests of luni/src/test/native/                     *)
(* libcore_io_Memory_test.cpp and the swapShorts/swapInts/swapLongs        *)
(* routines they drive.  The routines are in libcore_io_Memory.cpp, which  *)
(* is not in this repository; they are modelled from their contract       *)
(* (spec.md section 4.1): element by element, the element's bytes are     *)
(* read through byte-granular loads and written back reversed.            *)
(*                                                                         *)
(* Memory is a function from addresses to bytes; Undef marks a byte no     *)
(* one has written (posix_memalign does not clear).  The dst allocation   *)
(* starts at address 0 and the src allocation at SrcBase, both aligned to  *)
(* Alignment.  Multi-byte values are stored little-endian, as on every     *)
(* Android ABI.                                                            *)
(***************************************************************************)
EXTENDS Naturals, Sequences, FiniteSetsExt, Bitwise

CONSTANT Alignment   \* ALIGNMENT: the offsets tried are 0..Alignment-1

ASSUME AlignmentAssumption == Alignment \in Nat \ {0}

\* The three TESTs: element width sizeof(T) and NUM_ELEMENTS.
Tests == << [w |-> 2, n |-> 9], [w |-> 4, n |-> 10], [w |-> 8, n |-> 10] >>

Undef == -1

\* sizeof(T) * NUM_ELEMENTS + ALIGNMENT bytes per allocation.
BufSize(t) == t.w * t.n + Alignment
SrcBase == Max({BufSize(Tests[x]) : x \in DOMAIN Tests})
Addr == 0..2 * SrcBase - 1

\* Byte p of the uint64_t value c << (8 * q), for c < 2^24.
ShiftedByte(c, q, p) ==
    LET shr[k \in 0..7] == IF k = 0 THEN c ELSE shr[k - 1] \div 256
    IN  IF p >= q THEN shr[p - q] % 256 ELSE 0

OrAll(S) == FoldSet(LAMBDA a, b : a | b, 0, S)

\* init_func: the bytes of *src and *dst for element i, truncated to T.
\* src ORs w*(i+j) << 8*(w-1-j) over j; dst ORs w*(i+j) << 8*j.
InitSrc(t, i) ==
    [p \in 0..t.w - 1 |->
        OrAll({ShiftedByte(t.w * (i + j), t.w - 1 - j, p) : j \in 0..t.w - 1})]
InitDst(t, i) ==
    [p \in 0..t.w - 1 |->
        OrAll({ShiftedByte(t.w * (i + j), j, p) : j \in 0..t.w - 1})]

\* src_buf / dst_buf as byte arrays of sizeof(T) * NUM_ELEMENTS bytes.
SrcBuf(t) == [k \in 0..t.w * t.n - 1 |-> InitSrc(t, k \div t.w)[k % t.w]]
DstBuf(t) == [k \in 0..t.w * t.n - 1 |-> InitDst(t, k \div t.w)[k % t.w]]

\* Elements 0..k-1 swapped from s to d, in order; each element's bytes are
\* all read before any of them is written.
SwapPrefix(mem, d, s, k, w) ==
    LET step[i \in 0..k] ==
            IF i = 0 THEN mem
            ELSE LET m    == step[i - 1]
                     off  == (i - 1) * w
                     elem == [b \in 0..w - 1 |-> m[s + off + b]]
                 IN  [a \in DOMAIN m |->
                        IF a - d - off \in 0..w - 1
                        THEN elem[w - 1 - (a - d - off)] ELSE m[a]]
    IN  step[k]

\* Mutant: a batched swapShorts that forgets the odd last element.
SwapSkipsTail(mem, d, s, n, w) ==
    SwapPrefix(mem, d, s, IF w = 2 THEN 2 * (n \div 2) ELSE n, w)

\* swapShorts / swapInts / swapLongs(dst, src, count).
Swap(mem, d, s, n, w) == SwapPrefix(mem, d, s, n, w)

VARIABLES
    test,      \* index of the running TEST in Tests, Len(Tests)+1 at the end
    pc,        \* "alloc", "loop" or "end"
    dstAlign,  \* dst_align
    srcAlign,  \* src_align
    mem,       \* both allocations
    verdict    \* verdict[x]: "none", "pass", "alloc_failed" or "mismatch"

vars == << test, pc, dstAlign, srcAlign, mem, verdict >>

Init ==
    /\ test = 1
    /\ pc = "alloc"
    /\ dstAlign = 0
    /\ srcAlign = 0
    /\ mem = [a \in Addr |-> Undef]
    /\ verdict = [x \in DOMAIN Tests |-> "none"]

\* The TEST ends with verdict v and gtest runs the next one.
EndTest(v) ==
    /\ verdict' = [verdict EXCEPT ![test] = v]
    /\ test' = test + 1
    /\ pc' = IF test = Len(Tests) THEN "end" ELSE "alloc"

(* The two posix_memalign calls (ASSERT_EQ returns from the test when one  *)
(* fails) and the init_func loop filling src_buf and dst_buf.              *)
Alloc ==
    /\ pc = "alloc"
    /\ \/ /\ pc' = "loop"
          /\ mem' = [a \in Addr |-> Undef]
          /\ dstAlign' = 0 /\ srcAlign' = 0
          /\ UNCHANGED << test, verdict >>
       \/ /\ EndTest("alloc_failed")
          /\ UNCHANGED << dstAlign, srcAlign, mem >>

(* One pass of the inner loop: memset the dst window, memcpy src_buf into *)
(* the src window, swap, memcmp against dst_buf (ASSERT_EQ returns on a    *)
(* mismatch); then the next alignment pair, or free and the next TEST.     *)
Iterate ==
    LET t       == Tests[test]
        len     == t.w * t.n
        d       == dstAlign
        s       == SrcBase + srcAlign
        cleared == [a \in Addr |-> IF a - d \in 0..len - 1 THEN 0
                                   ELSE IF a - s \in 0..len - 1
                                        THEN SrcBuf(t)[a - s] ELSE mem[a]]
        after   == Swap(cleared, d, s, t.n, t.w)
        same    == \A k \in 0..len - 1 : after[d + k] = DstBuf(t)[k]
        lastSrc == srcAlign = Alignment - 1
    IN  /\ pc = "loop"
        /\ mem' = after
        /\ IF ~same
           THEN EndTest("mismatch") /\ UNCHANGED << dstAlign, srcAlign >>
           ELSE IF lastSrc /\ dstAlign = Alignment - 1
           THEN EndTest("pass") /\ UNCHANGED << dstAlign, srcAlign >>
           ELSE /\ srcAlign' = IF lastSrc THEN 0 ELSE srcAlign + 1
                /\ dstAlign' = IF lastSrc THEN dstAlign + 1 ELSE dstAlign
                /\ UNCHANGED << test, pc, verdict >>

Next == Alloc \/ Iterate

Spec == Init /\ [][Next]_vars

-----------------------------------------------------------------------------
(* Every swap_align_test that gets its buffers passes: for every pair of   *)
(* dst and src offsets, swapping the init_func source gives the init_func *)
(* expectation, including the odd last short that the comment at line 60   *)
(* says the 9-element test exists to reach.                                *)
AlignTestPasses ==
    \A x \in DOMAIN Tests : verdict[x] # "mismatch"

====
