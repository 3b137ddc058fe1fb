-------------------------- MODULE BitUnpack_proofs --------------------------
(***************************************************************************)
(* Theorems about BitUnpack, for any set of calls (any number of values,   *)
(* any slice, any dictionary) whose table entries are Sound, for the loads *)
(* and gathers, or Aligned and InOrder, for the answer.  MCBitUnpack has   *)
(* TLC evaluate these on every entry of the code's tables.                 *)
(***************************************************************************)
EXTENDS BitUnpack, FiniteSetTheorems, SequenceTheorems, TLAPS

(* Anything a value list may hold but an element read behind the           *)
(* dictionary.                                                             *)
Decoded == Nat \cup {Garbage}

-----------------------------------------------------------------------------
(* Arithmetic on blocks, kept apart from the definitions it serves.        *)

(* q whole blocks of s fit into what the division of n by s yields.        *)
LEMMA WholeBlocks ==
    ASSUME NEW n \in Int, NEW s \in Nat \ {0}, NEW q \in Int, q <= n \div s
    PROVE  q * s <= n
<1>1. (n \div s) * s <= n
    BY SMT
<1>2. q * s <= (n \div s) * s
    BY SMT
<1> QED
    BY <1>1, <1>2, SMT

(* A full block's bytes are among the required ones.                       *)
LEMMA RequiredCoversBlocks ==
    ASSUME NEW n \in Nat, NEW w \in Nat, NEW stride \in Nat, NEW size \in Nat \ {0},
           8 * stride = w * size
    PROVE  stride * (n \div size) <= (n * w + 7) \div 8
<1> DEFINE f == n \div size
<1>1. f \in Nat /\ f * size <= n
    BY WholeBlocks, SMT
<1>2. (f * size) * w <= n * w
    <2> HIDE DEF f
    <2> QED
        BY <1>1, SMT
<1>3. (f * size) * w = 8 * (stride * f)
    <2> HIDE DEF f
    <2>1. (f * size) * w = f * (w * size)
        BY <1>1, SMT
    <2>2. f * (8 * stride) = 8 * (stride * f)
        BY <1>1, SMT
    <2> QED
        BY <2>1, <2>2
<1>4. stride * f \in Nat /\ n * w \in Nat
    BY <1>1, SMT
<1>5. \A a, b \in Nat : 8 * a <= b => a <= (b + 7) \div 8
    BY SMT
<1>6. 8 * (stride * f) <= n * w
    BY <1>2, <1>3
<1> HIDE DEF f
<1> QED
    BY <1>4, <1>5, <1>6 DEF f

(* Blocks b + 1 .. m - 1 lie between block b and the end.                  *)
LEMMA BlocksBefore ==
    ASSUME NEW s \in Nat, NEW b \in Int, NEW m \in Int, b <= m
    PROVE  b * s <= s * m
<1>1. \A d \in Nat : d * s >= 0
    BY SMT
<1>2. (m - b) * s = s * m - b * s
    BY SMT
<1> QED
    BY <1>1, <1>2, SMT

-----------------------------------------------------------------------------
(* How many blocks a rule lets run.                                        *)

LEMMA SafeBlocksBounded ==
    ASSUME NEW c \in Call, HasKernel(c), Aligned(c, Arm(c))
    PROVE  /\ BlockSize(Arm(c).kernel) \in Nat \ {0}
           /\ Safe(c) \in Int
           /\ Safe(c) <= c.n \div BlockSize(Arm(c).kernel)
<1> DEFINE e == Arm(c)
           size == BlockSize(e.kernel)
           stride == e.kernel.stride
           full == c.n \div size
<1>1. c.n \in Nat /\ c.w \in Nat /\ c.len \in Nat
    BY DEF Call
<1>2. size \in Nat /\ stride \in Nat \ {0} /\ 8 * stride = c.w * size
    BY DEF Aligned, BlockSize
<1>3. size # 0
    <2> SUFFICES ASSUME size = 0 PROVE FALSE
        OBVIOUS
    <2> HIDE DEF size, stride
    <2>1. c.w * size = 0
        BY <1>1, SMT
    <2> QED
        BY <1>2, <2>1, SMT
<1>4. full \in Nat
    <2> HIDE DEF size
    <2> QED
        BY <1>1, <1>2, <1>3, SMT
<1>5. e.rule.by \in Nat /\ e.rule.rule \in {"exact", "dropone", "fit"}
    BY DEF Aligned
<1>6. Safe(c) = SafeBlocks(e.rule, stride, full, c.len)
    BY DEF Safe
<1>7. SafeBlocks(e.rule, stride, full, c.len) \in Int
        /\ SafeBlocks(e.rule, stride, full, c.len) <= full
    <2> HIDE DEF e, size, stride, full
    <2>1. (c.len - e.rule.by) \div stride \in Int
        BY <1>1, <1>2, <1>5, SMT
    <2> QED
        BY <1>1, <1>2, <1>4, <1>5, <2>1, SMT DEF SafeBlocks
<1> QED
    BY <1>2, <1>3, <1>6, <1>7

(* The loads of a block that is about to run end within the slice.         *)
LEMMA BlockLoadsInside ==
    ASSUME NEW c \in Call, HasKernel(c), Sound(c, Arm(c)),
           c.len >= Required(c),
           NEW b \in Nat, b < Safe(c),
           NEW r \in Arm(c).kernel.reads
    PROVE  b * Arm(c).kernel.stride + r[1] + r[2] <= c.len
<1> DEFINE e == Arm(c)
           size == BlockSize(e.kernel)
           stride == e.kernel.stride
           full == c.n \div size
           reach == r[1] + r[2]
           by == e.rule.by
<1>1. c.n \in Nat /\ c.w \in Nat /\ c.len \in Nat
    BY DEF Call
<1>2. /\ size \in Nat \ {0} /\ stride \in Nat \ {0} /\ by \in Nat
      /\ 8 * stride = c.w * size
      /\ e.rule.rule \in {"exact", "dropone", "fit"}
    BY SafeBlocksBounded DEF Sound, Aligned
<1>3. Reach(e, r) /\ reach \in Nat
    <2>1. Reach(e, r)
        BY DEF Sound
    <2>2. r[1] \in Nat /\ r[2] \in Nat
        BY <2>1 DEF Reach
    <2> QED
        BY <2>1, <2>2, SMT
<1>4. full \in Nat /\ stride * full <= c.len
    <2>1. Required(c) = (c.n * c.w + 7) \div 8
        BY DEF Required
    <2>2. stride * full <= Required(c)
        BY <1>1, <1>2, <2>1, RequiredCoversBlocks
    <2> HIDE DEF size, stride, e
    <2>3. stride * full \in Int /\ Required(c) \in Int /\ full \in Nat
        BY <1>1, <1>2, <2>1, SMT
    <2> QED
        BY <1>1, <2>2, <2>3, SMT
<1>5. Safe(c) = SafeBlocks(e.rule, stride, full, c.len)
    BY DEF Safe
<1>6. CASE e.rule.rule = "exact"
    <2>1. b + 1 <= full /\ reach <= stride
        BY <1>3, <1>5, <1>6, <1>4, SMT DEF SafeBlocks, Reach
    <2> HIDE DEF e, stride, full, reach, size
    <2>2. (b + 1) * stride <= stride * full
        BY <1>2, <1>4, <2>1, BlocksBefore
    <2>3. (b + 1) * stride = b * stride + stride
        BY <1>2, SMT
    <2>4. b * stride \in Int /\ stride * full \in Int
        BY <1>2, <1>4, SMT
    <2>5. b * stride + reach <= c.len
        BY <1>1, <1>2, <1>3, <1>4, <2>1, <2>2, <2>3, <2>4, SMT
    <2> QED
        BY <1>3, <2>4, <2>5, SMT DEF reach, stride, e, Reach
<1>7. CASE e.rule.rule = "dropone"
    <2>1. reach <= by /\ reach <= 2 * stride
        BY <1>3, <1>7 DEF Reach
    <2>2. \/ b <= full - 1 /\ c.len >= stride * (full - 1) + by
          \/ b <= full - 2
        BY <1>4, <1>5, <1>7, SMT DEF SafeBlocks
    <2> HIDE DEF e, stride, full, reach, size, by
    <2>3. b * stride \in Int /\ stride * full \in Int
        BY <1>2, <1>4, SMT
    <2>4. CASE b <= full - 1 /\ c.len >= stride * (full - 1) + by
        <3>1. b * stride <= stride * (full - 1)
            BY <1>2, <1>4, <2>4, BlocksBefore, SMT
        <3>2. stride * (full - 1) \in Int
            BY <1>2, <1>4, SMT
        <3> QED
            BY <1>1, <1>2, <1>3, <2>1, <2>3, <2>4, <3>1, <3>2, SMT
               DEF reach, stride, e, Reach
    <2>5. CASE b <= full - 2
        <3>1. b * stride <= stride * (full - 2)
            BY <1>2, <1>4, <2>5, BlocksBefore, SMT
        <3>2. stride * (full - 2) = stride * full - 2 * stride
            BY <1>2, <1>4, SMT
        <3> QED
            BY <1>1, <1>2, <1>3, <1>4, <2>1, <2>3, <3>1, <3>2, SMT
               DEF reach, stride, e, Reach
    <2> QED
        BY <2>2, <2>4, <2>5
<1>8. CASE e.rule.rule = "fit"
    <2>1. reach <= by + stride
        BY <1>3, <1>8 DEF Reach
    <2>2. b + 1 <= (c.len - by) \div stride
        <3> DEFINE fits == (c.len - by) \div stride
        <3>1. Safe(c) = IF c.len < 16 THEN 0
                        ELSE IF fits < full THEN fits ELSE full
            BY <1>5, <1>8 DEF SafeBlocks
        <3> HIDE DEF e, size, stride, full, by
        <3>2. fits \in Int
            BY <1>1, <1>2, SMT
        <3> HIDE DEF fits
        <3>3. b + 1 <= fits
            BY <1>4, <3>1, <3>2, SMT
        <3> QED
            BY <3>3 DEF fits
    <2> HIDE DEF e, stride, full, reach, size, by
    <2>3. (b + 1) * stride <= c.len - by
        <3>1. c.len - by \in Int /\ b + 1 \in Int
            BY <1>1, <1>2, SMT
        <3> QED
            BY <1>2, <2>2, <3>1, WholeBlocks
    <2>4. (b + 1) * stride = b * stride + stride /\ b * stride \in Int
        BY <1>2, SMT
    <2> QED
        BY <1>1, <1>2, <1>3, <2>1, <2>3, <2>4, SMT DEF reach, stride, e, Reach
<1> QED
    BY <1>2, <1>6, <1>7, <1>8

-----------------------------------------------------------------------------
(* The values the kernels, the scalar tails and the sinks produce.         *)

LEMMA BlockTyped ==
    ASSUME NEW c, NEW e, Aligned(c, e), NEW b \in Nat
    PROVE  BlockValues(e.kernel, b) \in Seq(Decoded)
<1> DEFINE k == e.kernel
           val(j) == IF k.lanes[j].held >= k.w
                     THEN 8 * k.stride * b + k.lanes[j].bit ELSE Garbage
<1>1. k.stride \in Nat /\ k.lanes \in Seq(Lane)
    BY DEF Aligned
<1>2. BlockSize(k) \in Nat /\ BlockSize(k) = Len(k.lanes)
    BY <1>1 DEF BlockSize
<1>3. ASSUME NEW j \in 1 .. BlockSize(k) PROVE val(j) \in Decoded
    <2>1. k.lanes[j] \in Lane
        BY <1>1, <1>2
    <2>2. k.lanes[j].bit \in Nat
        BY <2>1 DEF Lane
    <2> HIDE DEF k
    <2>3. 8 * k.stride * b \in Nat
        BY <1>1, SMT
    <2> QED
        BY <2>2, <2>3, SMT DEF Decoded
<1>4. BlockValues(k, b) = [j \in 1 .. BlockSize(k) |-> val(j)]
    BY DEF BlockValues
<1> HIDE DEF val, k
<1>5. [j \in 1 .. BlockSize(k) |-> val(j)] \in [1 .. BlockSize(k) -> Decoded]
    BY <1>3
<1> QED
    BY <1>2, <1>4, <1>5, IsASeq DEF k

LEMMA TailTyped ==
    ASSUME NEW w \in Nat, NEW acc, NEW from \in Nat, NEW count \in Nat
    PROVE  scalar_bw_n(w, acc, from, count) \in Seq(Decoded)
<1> DEFINE val(i) == IF w + 7 <= acc THEN 8 * from + (i - 1) * w ELSE Garbage
<1>1. ASSUME NEW i \in 1 .. count PROVE val(i) \in Decoded
    <2>1. (i - 1) * w \in Nat
        BY SMT
    <2> QED
        BY <2>1, SMT DEF Decoded
<1>2. scalar_bw_n(w, acc, from, count) = [i \in 1 .. count |-> val(i)]
    BY DEF scalar_bw_n
<1> HIDE DEF val
<1>3. [i \in 1 .. count |-> val(i)] \in [1 .. count -> Decoded]
    BY <1>1
<1> QED
    BY <1>2, <1>3, IsASeq

LEMMA PushedTyped ==
    ASSUME NEW c, NEW v \in Seq(Decoded)
    PROVE  PushedUpTo(c, v) \in Seq(Decoded)
<1> DEFINE good == {i \in DOMAIN v : \A j \in 1 .. i : InDict(c, v[j])}
<1>1. Len(v) \in Nat /\ DOMAIN v = 1 .. Len(v)
    OBVIOUS
<1>2. IsFiniteSet(1 .. Len(v)) /\ Cardinality(1 .. Len(v)) = Len(v)
    BY <1>1, FS_Interval, SMT
<1>3. good \subseteq 1 .. Len(v)
    BY <1>1
<1>4. Cardinality(good) \in Nat /\ Cardinality(good) <= Len(v)
    BY <1>2, <1>3, FS_Subset, FS_CardinalityType
<1> HIDE DEF good
<1>5. SubSeq(v, 1, Cardinality(good)) \in Seq(Decoded)
    BY <1>1, <1>4, SMT
<1> QED
    BY <1>5 DEF PushedUpTo, good

LEMMA ReadTyped ==
    ASSUME NEW c, NEW v \in Seq(Decoded), \A p \in Decoded : InDict(c, p)
    PROVE  Read(c, v) \in Seq(Decoded)
<1>1. \A i \in DOMAIN v : v[i] \in Decoded
    OBVIOUS
<1>2. Read(c, v) = [i \in DOMAIN v |-> v[i]]
    BY <1>1, Zenon DEF Read
<1>3. DOMAIN v = 1 .. Len(v) /\ Len(v) \in Nat
    OBVIOUS
<1>4. Read(c, v) \in [1 .. Len(v) -> Decoded]
    BY <1>1, <1>2, <1>3
<1> QED
    BY <1>3, <1>4, IsASeq

LEMMA MarkedTyped ==
    ASSUME NEW c, NEW v \in Seq(Decoded), NEW first \in Nat
    PROVE  Marked(c, v, first) \subseteq Nat
<1>1. DOMAIN v \subseteq Nat \ {0}
    <2>1. DOMAIN v = 1 .. Len(v) /\ Len(v) \in Nat
        OBVIOUS
    <2> QED
        BY <2>1, SMT
<1> QED
    BY <1>1, SMT DEF Marked

(* With more entries than the largest index, no index is bad.              *)
LEMMA EveryIndexInDict ==
    ASSUME NEW c \in Call, NEW arg \in Int,
           arg >= 2 ^ c.w - 1, c.dict > arg, c.dict > 0
    PROVE  \A p : InDict(c, p)
<1>1. 2 ^ c.w \in Int /\ c.dict \in Nat
    BY SMT DEF Call
<1> QED
    BY <1>1, SMT DEF InDict, Index

-----------------------------------------------------------------------------
(* The inductive invariant.                                                *)

States  == {"enter", "kernel", "block", "chunk", "pack", "done"}
Results == {"none", "ok", "width", "dict", "mask", "short", "panic"}

Typed ==
    /\ call \in Calls /\ blk \in Nat /\ bits \in SUBSET Nat
    /\ pc \in States /\ result \in Results
    /\ staged \in Seq(Decoded) /\ out \in Seq(Decoded)

(* What the path to a loop has established about the call.                 *)
Entered ==
    /\ pc \in {"kernel", "block"} => HasKernel(call)
    /\ pc = "block" => call.len >= Required(call)
    /\ pc = "chunk" /\ call.op = "lookup" => call.w <= 32

IInv == Typed /\ Entered

LEMMA CallTyped ==
    ASSUME IInv
    PROVE  /\ call \in Call
           /\ call.n \in Nat /\ call.w \in Nat /\ call.len \in Nat
           /\ call.dict \in Nat
    BY CallsAssumption DEF IInv, Typed, Call

LEMMA ZerosTyped ==
    ASSUME NEW n \in Nat
    PROVE  [i \in 1 .. n |-> 0] \in Seq(Decoded)
<1>1. [i \in 1 .. n |-> 0] \in [1 .. n -> Decoded]
    BY DEF Decoded
<1> QED
    BY <1>1, IsASeq

LEMMA InitIInv == Init => IInv
<1>1. <<>> \in Seq(Decoded)
    OBVIOUS
<1> QED
    BY <1>1 DEF Init, IInv, Typed, Entered, States, Results

(* The four ways an action ends.                                           *)
LEMMA ReturnKeeps ==
    ASSUME IInv, NEW r \in Results, NEW o \in Seq(Decoded), Return(r, o)
    PROVE  IInv'
    BY DEF IInv, Typed, Entered, Return, States

LEMMA UnpackedKeeps ==
    ASSUME IInv, NEW o \in Seq(Decoded), Unpacked(o)
    PROVE  IInv'
<1>1. CASE call.op = "bitmap" /\ ~Fused(call)
    BY <1>1 DEF IInv, Typed, Entered, Unpacked, States
<1>2. CASE ~(call.op = "bitmap" /\ ~Fused(call))
    <2>1. Return("ok", o)
        BY <1>2 DEF Unpacked
    <2> QED
        BY <2>1, ReturnKeeps DEF Results
<1> QED
    BY <1>1, <1>2

LEMMA StageKeeps ==
    ASSUME IInv, NEW v \in Seq(Decoded), Stage(v)
    PROVE  IInv'
<1>1. staged \o v \in Seq(Decoded)
    BY DEF IInv, Typed
<1>2. blk + 1 \in Nat
    BY SMT DEF IInv, Typed
<1>3. HasKernel(call)' = HasKernel(call) /\ Required(call)' = Required(call)
    BY DEF Stage, HasKernel, Required, Fused, Arm
<1> QED
    BY <1>1, <1>2, <1>3 DEF IInv, Typed, Entered, Stage

LEMMA StartKeeps ==
    ASSUME IInv, pc = "kernel", StartBlocks
    PROVE  IInv'
<1>1. CASE call.len < Required(call)
    BY <1>1, ReturnKeeps DEF StartBlocks, Results, IInv, Typed
<1>2. CASE ~(call.len < Required(call))
    <2>1. Goto("block")
        BY <1>2 DEF StartBlocks
    <2>2. Required(call) \in Int
        BY CallTyped, SMT DEF Required
    <2>3. call.len >= Required(call)
        BY <1>2, <2>2, CallTyped, SMT
    <2>4. HasKernel(call)' = HasKernel(call) /\ Required(call)' = Required(call)
        BY <2>1 DEF Goto, HasKernel, Required, Fused, Arm
    <2> QED
        BY <2>1, <2>3, <2>4 DEF IInv, Typed, Entered, Goto, States
<1> QED
    BY <1>1, <1>2

LEMMA GotoKeeps ==
    ASSUME IInv, NEW label \in {"kernel", "chunk"}, Goto(label),
           label = "kernel" => HasKernel(call),
           label = "chunk" /\ call.op = "lookup" => call.w <= 32
    PROVE  IInv'
<1>1. HasKernel(call)' = HasKernel(call)
    BY DEF Goto, HasKernel, Fused, Arm
<1> QED
    BY <1>1 DEF IInv, Typed, Entered, Goto, States

(* The tail behind a kernel's blocks is a list of values again.            *)
LEMMA TailValuesTyped ==
    ASSUME IInv, KernelsSound, pc = "block", blk = Safe(call)
    PROVE  TailValues \in Seq(Decoded) /\ Processed \in Nat
<1> DEFINE size == BlockSize(Arm(call).kernel)
<1>1. HasKernel(call) /\ Sound(call, Arm(call)) /\ call \in Call
    BY CallTyped DEF IInv, Entered, Typed, KernelsSound
<1>2. /\ size \in Nat \ {0} /\ Safe(call) \in Nat
      /\ Safe(call) <= call.n \div size
    BY <1>1, SafeBlocksBounded DEF IInv, Typed, Sound
<1>3. Processed = Safe(call) * size
    BY DEF Processed
<1> HIDE DEF size
<1>4. Processed <= call.n
    BY <1>2, <1>3, CallTyped, WholeBlocks
<1>5. Processed \in Nat
    BY <1>2, <1>3, SMT
<1>6. call.n - Processed \in Nat /\ (Processed * call.w) \div 8 \in Nat
    <2>1. Processed * call.w \in Nat
        BY <1>5, CallTyped, SMT
    <2> QED
        BY <1>4, <1>5, <2>1, CallTyped, SMT
<1> QED
    BY <1>5, <1>6, CallTyped, TailTyped DEF TailValues

LEMMA BlockValuesTyped ==
    ASSUME IInv, KernelsSound, pc = "block"
    PROVE  Block \in Seq(Decoded)
    BY CallTyped, BlockTyped DEF IInv, Entered, Typed, KernelsSound, Block, Sound

LEMMA ChunkTyped ==
    ASSUME IInv
    PROVE  ChunkValues \in Seq(Decoded) /\ ChunkTail \in Seq(Decoded)
<1> DEFINE val(i) == IF call.w + (((i - 1) * call.w) % 8) <= Acc
                     THEN 32 * call.w * blk + (i - 1) * call.w ELSE Garbage
<1>1. blk \in Nat
    BY DEF IInv, Typed
<1>2. ASSUME NEW i \in 1 .. 32 PROVE val(i) \in Decoded
    <2>1. (i - 1) * call.w \in Nat /\ 32 * call.w * blk \in Nat
        BY <1>1, CallTyped, SMT
    <2> QED
        BY <2>1, SMT DEF Decoded
<1>3. ChunkValues = [i \in 1 .. 32 |-> val(i)]
    BY DEF ChunkValues
<1>4. ChunkValues \in Seq(Decoded)
    <2> HIDE DEF val
    <2>1. [i \in 1 .. 32 |-> val(i)] \in [1 .. 32 -> Decoded]
        BY <1>2
    <2> QED
        BY <1>3, <2>1, IsASeq
<1>5. ChunkTail \in Seq(Decoded)
    <2>1. 4 * call.w * blk \in Nat /\ call.n % 32 \in Nat
        BY <1>1, CallTyped, SMT
    <2> QED
        BY <2>1, CallTyped, TailTyped DEF ChunkTail
<1> QED
    BY <1>4, <1>5

LEMMA StagedThen ==
    ASSUME IInv, NEW v \in Seq(Decoded)
    PROVE  staged \o v \in Seq(Decoded)
    BY DEF IInv, Typed

-----------------------------------------------------------------------------
(* One lemma per action.                                                   *)

LEMMA StepIndices ==
    ASSUME IInv, unpack_indices_into PROVE IInv'
<1>1. CASE call.w > 32 /\ Return("width", out)
    BY <1>1, ReturnKeeps DEF IInv, Typed, Results
<1>2. CASE Unpacked([i \in 1 .. call.n |-> 0])
    BY <1>2, CallTyped, ZerosTyped, UnpackedKeeps
<1>3. CASE /\ call.w \in 1 .. 32
           /\ Goto(IF Arm(call) = Scalar THEN "chunk" ELSE "kernel")
    <2>1. call.op # "lookup"
        BY DEF unpack_indices_into
    <2>2. CASE Arm(call) = Scalar
        BY <1>3, <2>1, <2>2, GotoKeeps
    <2>3. CASE Arm(call) # Scalar
        BY <1>3, <2>3, GotoKeeps DEF HasKernel
    <2> QED
        BY <2>2, <2>3
<1> QED
    BY <1>1, <1>2, <1>3 DEF unpack_indices_into

LEMMA StepLookup ==
    ASSUME IInv, unpack_lookup_into PROVE IInv'
<1>1. CASE \E r \in Results : Return(r, out)
    BY <1>1, ReturnKeeps DEF IInv, Typed
<1>2. CASE Return("ok", [i \in 1 .. call.n |-> 0])
    BY <1>2, CallTyped, ZerosTyped, ReturnKeeps DEF Results
<1>3. CASE /\ call.w \in 1 .. 32
           /\ Goto(IF Arm(call) = Scalar THEN "chunk" ELSE "kernel")
    <2>1. call.w <= 32
        BY <1>3, SMT
    <2>2. CASE Arm(call) = Scalar
        BY <1>3, <2>1, <2>2, GotoKeeps
    <2>3. CASE Arm(call) # Scalar
        BY <1>3, <2>3, GotoKeeps DEF HasKernel
    <2> QED
        BY <2>2, <2>3
<1> QED
    BY <1>1, <1>2, <1>3 DEF unpack_lookup_into, Results

LEMMA StepIndices64 ==
    ASSUME IInv, unpack_indices64_into PROVE IInv'
<1>1. CASE Return("width", out)
    BY <1>1, ReturnKeeps DEF IInv, Typed, Results
<1>2. CASE Return("ok", [i \in 1 .. call.n |-> 0])
    BY <1>2, CallTyped, ZerosTyped, ReturnKeeps DEF Results
<1>3. CASE Goto("chunk")
    BY <1>3, GotoKeeps DEF unpack_indices64_into
<1> QED
    BY <1>1, <1>2, <1>3 DEF unpack_indices64_into

LEMMA StepFused ==
    ASSUME IInv, fused_bitmap_chunk PROVE IInv'
    BY GotoKeeps DEF fused_bitmap_chunk, HasKernel

LEMMA StepPack ==
    ASSUME IInv, PackBits PROVE IInv'
<1>1. Marked(call, out, 0) \subseteq Nat
    BY MarkedTyped DEF IInv, Typed
<1> QED
    BY <1>1 DEF PackBits, IInv, Typed, Entered, States, Results

LEMMA StepCheck ==
    ASSUME IInv, CheckUnpack \/ CheckLookup \/ CheckPredicate PROVE IInv'
<1>1. CASE \E r \in Results : Return(r, out)
    BY <1>1, ReturnKeeps DEF IInv, Typed
<1>2. CASE pc = "kernel" /\ StartBlocks
    BY <1>2, StartKeeps
<1> QED
    BY <1>1, <1>2 DEF CheckUnpack, CheckLookup, CheckPredicate, Results

LEMMA StepUnpackBlock ==
    ASSUME IInv, KernelsSound, UnpackBlock PROVE IInv'
    BY BlockValuesTyped, StageKeeps DEF UnpackBlock, InBlock

(* An unchecked gather only runs on a dictionary no index can miss.        *)
LEMMA StepLookupBlock ==
    ASSUME IInv, KernelsSound, LookupBlock PROVE IInv'
<1>1. pc = "block" /\ Arm(call).kind = "lookup"
    BY DEF LookupBlock, InBlock
<1>2. CASE call.dict > Arm(call).arg /\ Stage(Read(call, Block))
    <2>1. Sound(call, Arm(call))
        BY <1>1 DEF IInv, Entered, Typed, KernelsSound
    <2>2. Arm(call).arg \in Nat /\ Arm(call).arg >= 2 ^ call.w - 1
        BY <1>1, <2>1 DEF Sound, Aligned
    <2>3. call.dict > 0 /\ Arm(call).arg \in Int
        BY <1>2, <2>2, CallTyped, SMT
    <2>4. \A p : InDict(call, p)
        BY <1>2, <2>2, <2>3, CallTyped, EveryIndexInDict
    <2>5. Read(call, Block) \in Seq(Decoded)
        BY <1>1, <2>4, BlockValuesTyped, ReadTyped
    <2> QED
        BY <1>2, <2>5, StageKeeps
<1>3. CASE Stage(Block)
    BY <1>1, <1>3, BlockValuesTyped, StageKeeps
<1>4. CASE Return("dict", out)
    BY <1>4, ReturnKeeps DEF IInv, Typed, Results
<1> QED
    BY <1>2, <1>3, <1>4 DEF LookupBlock

LEMMA StepPredicateBlock ==
    ASSUME IInv, KernelsSound, PredicateBlock PROVE IInv'
<1>1. pc = "block" /\ blk \in Nat
    BY DEF PredicateBlock, InBlock, IInv, Typed
<1>2. 8 * blk \in Nat /\ blk + 1 \in Nat
    BY <1>1, SMT
<1>3. Marked(call, Block, 8 * blk) \subseteq Nat
    BY <1>1, <1>2, BlockValuesTyped, MarkedTyped
<1>4. HasKernel(call)' = HasKernel(call) /\ Required(call)' = Required(call)
    BY DEF PredicateBlock, HasKernel, Required, Fused, Arm
<1> QED
    BY <1>2, <1>3, <1>4 DEF PredicateBlock, IInv, Typed, Entered

LEMMA StepTail ==
    ASSUME IInv, KernelsSound, UnpackTail \/ LookupTail \/ PredicateTail
    PROVE  IInv'
<1>1. TailValues \in Seq(Decoded) /\ Processed \in Nat
    BY TailValuesTyped
       DEF UnpackTail, LookupTail, PredicateTail, BlocksDone
<1>2. CASE UnpackTail
    BY <1>1, <1>2, StagedThen, UnpackedKeeps DEF UnpackTail
<1>3. CASE LookupTail
    <2>1. staged \o PushedUpTo(call, TailValues) \in Seq(Decoded)
        BY <1>1, PushedTyped, StagedThen
    <2> QED
        BY <1>3, <2>1, ReturnKeeps DEF LookupTail, Results
<1>4. CASE PredicateTail
    <2>1. Marked(call, TailValues, Processed) \subseteq Nat
        BY <1>1, MarkedTyped
    <2> QED
        BY <1>4, <2>1
           DEF PredicateTail, IInv, Typed, Entered, States, Results
<1> QED
    BY <1>2, <1>3, <1>4

LEMMA BoundsSafeReads ==
    ASSUME IInv, pc = "chunk", call.op = "lookup", BoundsSafe,
           NEW v \in Seq(Decoded)
    PROVE  Read(call, v) \in Seq(Decoded)
<1>1. call.w <= 32 /\ 2 ^ call.w > 0
    BY PowerAssumption DEF IInv, Typed, Entered
<1>2. 2 ^ call.w \in Int
    BY CallTyped, SMT
<1>3. 2 ^ call.w - 1 < call.dict
    BY DEF BoundsSafe
<1>4. 2 ^ call.w - 1 \in Int /\ call.dict > 2 ^ call.w - 1 /\ call.dict > 0
    BY <1>1, <1>2, <1>3, CallTyped, SMT
<1>5. \A p : InDict(call, p)
    BY <1>4, CallTyped, EveryIndexInDict
<1> QED
    BY <1>5, ReadTyped

LEMMA StepChunk ==
    ASSUME IInv, UnpackChunk PROVE IInv'
<1>1. pc = "chunk" /\ ChunkValues \in Seq(Decoded)
    BY ChunkTyped DEF UnpackChunk, InChunk
<1>2. CASE Return("panic", out) \/ Return("dict", staged)
    BY <1>2, ReturnKeeps DEF IInv, Typed, Results
<1>3. CASE /\ BoundsSafe
           /\ Stage(IF call.op = "lookup" THEN Read(call, ChunkValues)
                    ELSE ChunkValues)
    BY <1>1, <1>3, BoundsSafeReads, StageKeeps
<1>4. CASE Stage(ChunkValues)
    BY <1>1, <1>4, StageKeeps
<1> QED
    BY <1>2, <1>3, <1>4 DEF UnpackChunk

LEMMA StepChunkTail ==
    ASSUME IInv, UnpackChunkTail PROVE IInv'
<1>1. pc = "chunk" /\ ChunkTail \in Seq(Decoded)
    BY ChunkTyped DEF UnpackChunkTail
<1>2. CASE Return("panic", staged)
    BY <1>2, ReturnKeeps DEF IInv, Typed, Results
<1>3. CASE Unpacked(staged \o ChunkTail)
    BY <1>1, <1>3, StagedThen, UnpackedKeeps
<1>4. CASE /\ call.op = "lookup" /\ BoundsSafe
           /\ Return("ok", staged \o Read(call, ChunkTail))
    BY <1>1, <1>4, BoundsSafeReads, StagedThen, ReturnKeeps DEF Results
<1>5. CASE \E r \in Results :
             Return(r, staged \o PushedUpTo(call, ChunkTail))
    BY <1>1, <1>5, PushedTyped, StagedThen, ReturnKeeps
<1> QED
    BY <1>2, <1>3, <1>4, <1>5 DEF UnpackChunkTail, Results

LEMMA NextIInv ==
    ASSUME IInv, KernelsSound, [Next]_vars PROVE IInv'
<1>1. CASE UNCHANGED vars
    BY <1>1 DEF IInv, Typed, Entered, vars, HasKernel, Required, Fused, Arm
<1> QED
    BY <1>1, StepIndices, StepLookup, StepIndices64, StepFused, StepPack,
       StepCheck, StepUnpackBlock, StepLookupBlock, StepPredicateBlock,
       StepTail, StepChunk, StepChunkTail DEF Next

-----------------------------------------------------------------------------
(* Every call keeps to the types of its variables: no bit of a bitmap      *)
(* before its first row, no value that is neither decoded nor garbage.     *)
THEOREM TypeCorrect == KernelsSound => (Spec => []TypeOK)
<1> SUFFICES ASSUME KernelsSound PROVE Spec => []TypeOK
    OBVIOUS
<1>1. IInv => TypeOK
    BY CallTyped DEF IInv, Typed, TypeOK, States, Results, Decoded, Garbage
<1> QED
    BY <1>1, InitIInv, NextIInv, PTL DEF Spec

(* The safe_full_blocks rules are right for slices of every length: given  *)
(* sound table entries no block is run whose loads would leave the slice.  *)
THEOREM LoadsStayInside == KernelsSound => (Spec => []LoadsInPacked)
<1> SUFFICES ASSUME KernelsSound PROVE Spec => []LoadsInPacked
    OBVIOUS
<1>1. IInv => LoadsInPacked
    <2> SUFFICES ASSUME IInv, pc = "block", blk < Safe(call),
                        NEW r \in Arm(call).kernel.reads
                 PROVE  blk * Arm(call).kernel.stride + r[1] + r[2] <= call.len
        BY DEF LoadsInPacked
    <2>1. /\ HasKernel(call) /\ Sound(call, Arm(call)) /\ call \in Call
          /\ call.len >= Required(call) /\ blk \in Nat
        BY CallTyped DEF IInv, Entered, Typed, KernelsSound
    <2> QED
        BY <2>1, BlockLoadsInside
<1> QED
    BY <1>1, InitIInv, NextIInv, PTL DEF Spec

(* Turning the index checks off above a dictionary size is sound for       *)
(* dictionaries of every size, in the kernels and in the scalar workers.   *)
THEOREM GathersStayInside == KernelsSound => (Spec => []GathersInDict)
<1> SUFFICES ASSUME KernelsSound PROVE Spec => []GathersInDict
    OBVIOUS
<1>1. IInv => GathersInDict
    <2>1. \A s \in Seq(Decoded) : \A i \in DOMAIN s : s[i] # Wild
        <3>1. Wild \notin Decoded
            BY SMT DEF Wild, Decoded, Garbage
        <3> QED
            BY <3>1
    <2> QED
        BY <2>1 DEF IInv, Typed, GathersInDict
<1> QED
    BY <1>1, InitIInv, NextIInv, PTL DEF Spec

-----------------------------------------------------------------------------
(* What the values are.  A list spells the stream when it is a prefix of   *)
(* the values in order; a sink that checks has found every index in the    *)
(* dictionary.                                                             *)
Spells(s)  == Len(s) <= call.n /\ \A i \in DOMAIN s : s[i] = (i - 1) * call.w
Checked(s) == call.op = "lookup" => \A i \in DOMAIN s : InDict(call, s[i])

(* What the blocks run so far have left behind.                            *)
AfterBlocks ==
    /\ out = <<>> /\ call.len >= Required(call)
    /\ blk = 0 \/ blk <= Safe(call)
    /\ IF Arm(call).kind = "predicate"
       THEN staged = <<>> /\ bits = call.big \cap (0 .. 8 * blk - 1)
       ELSE /\ Len(staged) = blk * BlockSize(Arm(call).kernel)
            /\ Spells(staged) /\ Checked(staged)

(* And the chunks of a scalar worker.                                      *)
AfterChunks ==
    /\ out = <<>> /\ ~Fused(call) /\ call.n > 0
    /\ call.w \in 1 .. 64 /\ (call.op # "indices64" => call.w <= 32)
    /\ blk <= call.n \div 32 /\ (blk > 0 => 4 * call.w * blk <= call.len)
    /\ Len(staged) = 32 * blk /\ Spells(staged) /\ Checked(staged)

Unpacking ==
    /\ pc \in {"enter", "kernel"} =>
         blk = 0 /\ staged = <<>> /\ out = <<>> /\ bits = {}
    /\ pc \in {"kernel", "block"} => HasKernel(call)
    /\ pc = "kernel" => call.n > 0 \/ Fused(call)
    /\ pc = "block" => AfterBlocks
    /\ pc = "chunk" => AfterChunks
    /\ pc = "pack" => /\ call.op = "bitmap" /\ ~Fused(call)
                      /\ Len(out) = call.n /\ Spells(out)
                      /\ call.w > 0 => call.len >= Required(call)

Lists ==
    /\ call \in Calls /\ blk \in Nat
    /\ staged \in Seq(Int) /\ out \in Seq(Int)
    /\ pc \in States /\ (result = "none" <=> pc # "done")

AInv == Lists /\ Unpacking /\ AnswerIsReference /\ OutcomeDeserved

LEMMA AInvCall ==
    ASSUME AInv
    PROVE  /\ call \in Call
           /\ call.n \in Nat /\ call.w \in Nat /\ call.len \in Nat
           /\ call.dict \in Nat /\ call.big \in SUBSET Nat
           /\ call.op = "bitmap" /\ call.w = 0 => call.big = {}
    BY CallsAssumption DEF AInv, Lists, Call

LEMMA SpellsIsPrefix ==
    ASSUME AInv, NEW s \in Seq(Int), Spells(s)
    PROVE  Len(s) <= call.n /\ s = SubSeq(Reference(call), 1, Len(s))
<1> DEFINE ref == Reference(call)
<1>1. Len(s) \in Nat /\ Len(s) <= call.n /\ call.n \in Nat /\ call.w \in Nat
    BY AInvCall DEF Spells
<1>2. \A i \in 1 .. call.n : (i - 1) * call.w \in Int
    BY <1>1, SMT
<1>3. ref \in Seq(Int) /\ Len(ref) = call.n /\ \A i \in 1 .. call.n : ref[i] = (i - 1) * call.w
    <2>1. ref \in [1 .. call.n -> Int]
        BY <1>2 DEF Reference
    <2>2. \A i \in 1 .. call.n : ref[i] = (i - 1) * call.w
        BY DEF Reference
    <2> QED
        BY <1>1, <2>1, <2>2
<1> HIDE DEF ref
<1>4. \A i \in 1 .. Len(s) : s[i] = ref[i]
    BY <1>1, <1>3 DEF Spells
<1> QED
    BY <1>1, <1>3, <1>4 DEF ref

LEMMA SpellsMore ==
    ASSUME AInv, NEW s \in Seq(Int), Spells(s), NEW v \in Seq(Int),
           Len(s) + Len(v) <= call.n,
           \A j \in 1 .. Len(v) : v[j] = (Len(s) + j - 1) * call.w
    PROVE  s \o v \in Seq(Int) /\ Len(s \o v) = Len(s) + Len(v) /\ Spells(s \o v)
<1>1. s \o v \in Seq(Int) /\ Len(s \o v) = Len(s) + Len(v) /\ Len(s) \in Nat /\ Len(v) \in Nat
    OBVIOUS
<1>2. ASSUME NEW i \in 1 .. Len(s) + Len(v) PROVE (s \o v)[i] = (i - 1) * call.w
    <2>1. CASE i <= Len(s)
        BY <1>1, <2>1 DEF Spells
    <2>2. CASE i > Len(s)
        <3>1. i - Len(s) \in 1 .. Len(v) /\ (s \o v)[i] = v[i - Len(s)]
            BY <1>1, <2>2
        <3>2. Len(s) + (i - Len(s)) - 1 = i - 1
            BY <1>1, SMT
        <3> QED
            BY <3>1, <3>2
    <2> QED
        BY <1>1, <2>1, <2>2
<1> QED
    BY <1>1, <1>2 DEF Spells

LEMMA CheckedMore ==
    ASSUME NEW s \in Seq(Int), Checked(s), NEW v \in Seq(Int),
           call.op = "lookup" => AllIn(call, v)
    PROVE  Checked(s \o v)
<1> SUFFICES ASSUME call.op = "lookup", NEW i \in DOMAIN (s \o v)
             PROVE  InDict(call, (s \o v)[i])
    BY DEF Checked
<1>1. CASE i <= Len(s)
    <2>1. (s \o v)[i] = s[i] /\ i \in DOMAIN s
        BY <1>1
    <2> QED
        BY <2>1 DEF Checked
<1>2. CASE i > Len(s)
    <2>1. (s \o v)[i] = v[i - Len(s)] /\ i - Len(s) \in DOMAIN v
        BY <1>2
    <2> QED
        BY <2>1 DEF AllIn
<1> QED
    BY <1>1, <1>2

(* All values of the stream are in it: what a whole answer says.           *)
LEMMA AllSpelled ==
    ASSUME AInv, NEW s \in Seq(Int), Spells(s), Len(s) = call.n
    PROVE  call.op = "lookup" /\ Checked(s) => ~BadIndex(call)
<1> SUFFICES ASSUME call.op = "lookup", Checked(s), NEW i \in 0 .. call.n - 1
             PROVE  InDict(call, i * call.w)
    BY DEF BadIndex
<1>1. i + 1 \in DOMAIN s /\ (i + 1) - 1 = i
    BY AInvCall
<1> QED
    BY <1>1 DEF Spells, Checked

(* A value of the stream without an entry.                                 *)
LEMMA OneBad ==
    ASSUME AInv, NEW first \in Nat, NEW v \in Seq(Int), first + Len(v) <= call.n,
           \A j \in 1 .. Len(v) : v[j] = (first + j - 1) * call.w, ~AllIn(call, v)
    PROVE  BadIndex(call)
<1>1. PICK j \in DOMAIN v : ~InDict(call, v[j])
    BY DEF AllIn
<1>2. j \in 1 .. Len(v) /\ Len(v) \in Nat
    OBVIOUS
<1>3. first + j - 1 \in 0 .. call.n - 1
    BY <1>2, AInvCall, SMT
<1>4. v[j] = (first + j - 1) * call.w
    BY <1>2
<1> QED
    BY <1>1, <1>3, <1>4 DEF BadIndex

(* The elements a checked loop pushes.                                     *)
LEMMA PushedPrefix ==
    ASSUME NEW c, NEW v \in Seq(Int)
    PROVE  /\ PushedUpTo(c, v) \in Seq(Int) /\ Len(PushedUpTo(c, v)) <= Len(v)
           /\ \A j \in 1 .. Len(PushedUpTo(c, v)) : PushedUpTo(c, v)[j] = v[j]
           /\ AllIn(c, v) => PushedUpTo(c, v) = v
<1> DEFINE good == {i \in DOMAIN v : \A j \in 1 .. i : InDict(c, v[j])}
<1>1. Len(v) \in Nat /\ DOMAIN v = 1 .. Len(v)
    OBVIOUS
<1>2. IsFiniteSet(1 .. Len(v)) /\ Cardinality(1 .. Len(v)) = Len(v)
    BY <1>1, FS_Interval, SMT
<1>3. good \subseteq 1 .. Len(v)
    BY <1>1
<1>4. Cardinality(good) \in Nat /\ Cardinality(good) <= Len(v)
    BY <1>2, <1>3, FS_Subset, FS_CardinalityType
<1>5. AllIn(c, v) => good = 1 .. Len(v)
    <2> SUFFICES ASSUME AllIn(c, v), NEW i \in 1 .. Len(v), NEW j \in 1 .. i
                 PROVE  InDict(c, v[j])
        BY <1>1
    <2>1. j \in DOMAIN v
        BY <1>1
    <2> QED
        BY <2>1 DEF AllIn
<1>6. PushedUpTo(c, v) = SubSeq(v, 1, Cardinality(good))
    BY DEF PushedUpTo
<1> HIDE DEF good
<1>7. /\ SubSeq(v, 1, Cardinality(good)) \in Seq(Int)
      /\ Len(SubSeq(v, 1, Cardinality(good))) = Cardinality(good)
      /\ \A j \in 1 .. Cardinality(good) : SubSeq(v, 1, Cardinality(good))[j] = v[j]
    BY <1>1, <1>4
<1>8. SubSeq(v, 1, Len(v)) = v
    OBVIOUS
<1> QED
    BY <1>2, <1>4, <1>5, <1>6, <1>7, <1>8

-----------------------------------------------------------------------------
(* Arithmetic on positions.                                                *)
LEMMA Quotient ==
    ASSUME NEW q \in Nat, NEW w \in Nat \ {0}
    PROVE  (q * w) \div w = q
<1>1. \A a \in Nat : \A b \in Nat : a * w <= b /\ b < a * w + w => b \div w = a
    <2> SUFFICES ASSUME NEW a \in Nat, NEW b \in Nat, a * w <= b, b < a * w + w
                 PROVE  b \div w = a
        OBVIOUS
    <2> DEFINE d == b \div w
    <2>1. d \in Nat /\ d * w <= b /\ b < d * w + w
        BY SMT
    <2> HIDE DEF d
    <2>2. ~(d < a)
        <3> SUFFICES ASSUME d < a PROVE FALSE
            OBVIOUS
        <3>1. (a - d - 1) * w >= 0 /\ (a - d - 1) * w = a * w - d * w - w
            BY <2>1, SMT
        <3> QED
            BY <2>1, <3>1, SMT
    <2>3. ~(d > a)
        <3> SUFFICES ASSUME d > a PROVE FALSE
            OBVIOUS
        <3>1. (d - a - 1) * w >= 0 /\ (d - a - 1) * w = d * w - a * w - w
            BY <2>1, SMT
        <3> QED
            BY <2>1, <3>1, SMT
    <2> QED
        BY <2>1, <2>2, <2>3, SMT DEF d
<1>2. q * w \in Nat /\ q * w <= q * w /\ q * w < q * w + w
    BY SMT
<1> QED
    BY <1>1, <1>2

(* The bits set for the values from `first' on.                            *)
LEMMA MarkedAre ==
    ASSUME AInv, call.w > 0, NEW first \in Nat, NEW v \in Seq(Int),
           \A j \in 1 .. Len(v) : v[j] = (first + j - 1) * call.w
    PROVE  Marked(call, v, first) = call.big \cap (first .. first + Len(v) - 1)
<1>1. ASSUME NEW j \in 1 .. Len(v) PROVE IsTop(call, v[j]) <=> first + j - 1 \in call.big
    <2>1. v[j] \div call.w = first + j - 1
        BY AInvCall, Quotient
    <2> QED
        BY <2>1 DEF IsTop
<1>2. Marked(call, v, first) \subseteq call.big \cap (first .. first + Len(v) - 1)
    <2> SUFFICES ASSUME NEW j \in DOMAIN v, IsTop(call, v[j])
                 PROVE  first + j - 1 \in call.big \cap (first .. first + Len(v) - 1)
        BY DEF Marked
    <2>1. j \in 1 .. Len(v) /\ Len(v) \in Nat
        OBVIOUS
    <2>2. first + j - 1 \in first .. first + Len(v) - 1
        BY <2>1, SMT
    <2> QED
        BY <1>1, <2>1, <2>2
<1>3. ASSUME NEW x \in call.big \cap (first .. first + Len(v) - 1)
      PROVE  x \in Marked(call, v, first)
    <2> DEFINE j == x - first + 1
    <2>1. j \in DOMAIN v /\ first + j - 1 = x
        OBVIOUS
    <2> HIDE DEF j
    <2>2. IsTop(call, v[j])
        BY <1>1, <2>1
    <2> QED
        BY <2>1, <2>2 DEF Marked
<1> QED
    BY <1>2, <1>3

(* The values of a block.                                                  *)
LEMMA BlockSpells ==
    ASSUME AInv, KernelsExact, pc = "block"
    PROVE  /\ Block \in Seq(Int) /\ Len(Block) = BlockSize(Arm(call).kernel)
           /\ \A j \in 1 .. Len(Block) :
                Block[j] = (blk * BlockSize(Arm(call).kernel) + j - 1) * call.w
<1> DEFINE k == Arm(call).kernel
           size == BlockSize(k)
           val(j) == IF k.lanes[j].held >= k.w
                     THEN 8 * k.stride * blk + k.lanes[j].bit ELSE Garbage
<1>1. Aligned(call, Arm(call)) /\ InOrder(Arm(call)) /\ blk \in Nat
    BY DEF AInv, Lists, Unpacking, KernelsExact
<1>2. /\ k.stride \in Nat /\ size = Len(k.lanes) /\ size \in Nat /\ k.w = call.w
      /\ 8 * k.stride = call.w * size /\ DOMAIN k.lanes = 1 .. size
    BY <1>1 DEF Aligned, BlockSize
<1>3. ASSUME NEW j \in 1 .. size PROVE val(j) = (blk * size + j - 1) * call.w
    <2>1. val(j) = 8 * k.stride * blk + (j - 1) * call.w
        BY <1>1, <1>2 DEF InOrder
    <2> HIDE DEF k, size, val
    <2>2. 8 * k.stride * blk = (8 * k.stride) * blk /\ (8 * k.stride) * blk = (call.w * size) * blk
        BY <1>1, <1>2, SMT
    <2>3. (call.w * size) * blk = (blk * size) * call.w
        BY <1>1, <1>2, AInvCall, SMT
    <2>4. (blk * size) * call.w + (j - 1) * call.w = (blk * size + j - 1) * call.w
        <3> DEFINE b == blk * size
        <3>1. b \in Int
            BY <1>1, <1>2, SMT
        <3> HIDE DEF b
        <3>2. b * call.w + (j - 1) * call.w = (b + j - 1) * call.w
            BY <3>1, AInvCall, SMT
        <3> QED
            BY <3>2 DEF b
    <2> QED
        BY <2>1, <2>2, <2>3, <2>4
<1>4. Block = [j \in 1 .. size |-> val(j)]
    BY DEF Block, BlockValues
<1> HIDE DEF k, size, val
<1>5. \A j \in 1 .. size : (blk * size + j - 1) * call.w \in Int
    BY <1>1, <1>2, AInvCall, SMT
<1>6. Block \in [1 .. size -> Int]
    BY <1>3, <1>4, <1>5
<1>7. Block \in Seq(Int) /\ Len(Block) = size
    BY <1>2, <1>6
<1> QED
    BY <1>3, <1>4, <1>7 DEF k, size

LEMMA KernelWidth ==
    ASSUME AInv, HasKernel(call) PROVE call.w \in 1 .. 32
    BY DEF HasKernel, Fused, FusedWidths

(* The values of the tail behind the blocks.                               *)
LEMMA TailSpells ==
    ASSUME AInv, KernelsExact, pc = "block", blk = Safe(call)
    PROVE  /\ Processed \in Nat /\ Processed <= call.n
           /\ Processed = blk * BlockSize(Arm(call).kernel)
           /\ TailValues \in Seq(Int) /\ Len(TailValues) = call.n - Processed
           /\ \A j \in 1 .. Len(TailValues) :
                TailValues[j] = (Processed + j - 1) * call.w
<1> DEFINE k == Arm(call).kernel
           size == BlockSize(k)
           from == (Processed * call.w) \div 8
<1>1. HasKernel(call) /\ Aligned(call, Arm(call)) /\ blk \in Nat
    BY DEF AInv, Lists, Unpacking, KernelsExact
<1>2. /\ size \in Nat \ {0} /\ Safe(call) <= call.n \div size
      /\ k.stride \in Nat /\ 8 * k.stride = call.w * size
    BY <1>1, AInvCall, SafeBlocksBounded DEF Aligned
<1>3. Processed = blk * size
    BY DEF Processed
<1>4. call.w \in Nat /\ call.w <= 32 /\ call.n \in Nat
    BY <1>1, AInvCall, KernelWidth
<1> HIDE DEF k, size
<1>5. Processed \in Nat /\ Processed <= call.n
    <2>1. blk * size <= call.n
        BY <1>1, <1>2, <1>4, WholeBlocks
    <2>2. blk * size \in Nat
        BY <1>1, <1>2, SMT
    <2> QED
        BY <1>3, <2>1, <2>2
<1>6. 8 * from = Processed * call.w
    <2>1. (blk * size) * call.w = (call.w * size) * blk
        BY <1>1, <1>2, <1>4, SMT
    <2>2. (8 * k.stride) * blk = 8 * (k.stride * blk) /\ k.stride * blk \in Int
        BY <1>1, <1>2, SMT
    <2>3. Processed * call.w = 8 * (k.stride * blk)
        BY <1>2, <1>3, <2>1, <2>2
    <2>4. \A a \in Int : (8 * a) \div 8 = a
        BY SMT
    <2>5. from = k.stride * blk
        BY <2>2, <2>3, <2>4
    <2> QED
        BY <2>3, <2>5
<1> HIDE DEF from
<1>7. TailValues = [i \in 1 .. call.n - Processed |-> 8 * from + (i - 1) * call.w]
    BY <1>4 DEF TailValues, scalar_bw_n, from
<1>8. \A j \in 1 .. call.n - Processed :
         /\ 8 * from + (j - 1) * call.w = (Processed + j - 1) * call.w
         /\ (Processed + j - 1) * call.w \in Int
    BY <1>4, <1>5, <1>6, SMT
<1>9. TailValues \in [1 .. call.n - Processed -> Int]
    BY <1>7, <1>8
<1>10. TailValues \in Seq(Int) /\ Len(TailValues) = call.n - Processed
    BY <1>4, <1>5, <1>9
<1> QED
    BY <1>3, <1>5, <1>7, <1>8, <1>10 DEF size, k

(* The values of a chunk.                                                  *)
LEMMA ChunkSpells ==
    ASSUME AInv, pc = "chunk", blk < call.n \div 32
    PROVE  /\ ChunkValues \in Seq(Int) /\ Len(ChunkValues) = 32 /\ 32 * blk + 32 <= call.n
           /\ \A j \in 1 .. 32 : ChunkValues[j] = (32 * blk + j - 1) * call.w
<1>1. call.w \in 1 .. 64 /\ (call.op # "indices64" => call.w <= 32) /\ blk \in Nat
    BY DEF AInv, Lists, Unpacking, AfterChunks
<1>2. call.w + 7 <= Acc
    BY <1>1, SMT DEF Acc
<1>3. ASSUME NEW i \in 1 .. 32
      PROVE  /\ call.w + (((i - 1) * call.w) % 8) <= Acc
             /\ 32 * call.w * blk + (i - 1) * call.w = (32 * blk + i - 1) * call.w
             /\ (32 * blk + i - 1) * call.w \in Int
    <2> DEFINE x == (i - 1) * call.w
    <2>1. x \in Int
        BY <1>1, SMT
    <2>2. x % 8 \in 0 .. 7
        <3> HIDE DEF x
        <3> QED
            BY <2>1, SMT
    <2>3. Acc \in Int
        BY DEF Acc
    <2>4. call.w + (x % 8) <= Acc
        <3> HIDE DEF x
        <3> QED
            BY <1>1, <1>2, <2>2, <2>3, SMT
    <2>5. /\ 32 * call.w * blk + (i - 1) * call.w = (32 * blk + i - 1) * call.w
          /\ (32 * blk + i - 1) * call.w \in Int
        BY <1>1, SMT
    <2> QED
        BY <2>4, <2>5
<1>4. ChunkValues = [i \in 1 .. 32 |-> (32 * blk + i - 1) * call.w]
    BY <1>3 DEF ChunkValues
<1>5. ChunkValues \in [1 .. 32 -> Int]
    BY <1>3, <1>4
<1>6. ChunkValues \in Seq(Int) /\ Len(ChunkValues) = 32
    <2>1. \A m \in Nat : \A s \in [1 .. m -> Int] : s \in Seq(Int) /\ Len(s) = m
        OBVIOUS
    <2> QED
        BY <1>5, <2>1
<1>7. 32 * blk + 32 <= call.n
    BY <1>1, AInvCall, SMT
<1> QED
    BY <1>4, <1>6, <1>7

LEMMA ChunkTailSpells ==
    ASSUME AInv, pc = "chunk", blk = call.n \div 32
    PROVE  /\ ChunkTail \in Seq(Int) /\ Len(ChunkTail) = call.n % 32
           /\ 32 * blk + Len(ChunkTail) = call.n
           /\ \A j \in 1 .. Len(ChunkTail) : ChunkTail[j] = (32 * blk + j - 1) * call.w
<1> DEFINE m == call.n % 32
<1>1. call.w \in 1 .. 64 /\ (call.op # "indices64" => call.w <= 32) /\ blk \in Nat
    BY DEF AInv, Lists, Unpacking, AfterChunks
<1>2. call.w + 7 <= Acc
    BY <1>1, SMT DEF Acc
<1>3. m \in Nat /\ 32 * blk + m = call.n
    BY <1>1, AInvCall, SMT
<1> HIDE DEF m
<1>4. ChunkTail = [i \in 1 .. m |-> 8 * (4 * call.w * blk) + (i - 1) * call.w]
    BY <1>2 DEF ChunkTail, scalar_bw_n, m
<1>5. \A j \in 1 .. m :
         /\ 8 * (4 * call.w * blk) + (j - 1) * call.w = (32 * blk + j - 1) * call.w
         /\ (32 * blk + j - 1) * call.w \in Int
    BY <1>1, SMT
<1>6. ChunkTail \in [1 .. m -> Int]
    BY <1>4, <1>5
<1>7. ChunkTail \in Seq(Int) /\ Len(ChunkTail) = m
    BY <1>3, <1>6
<1> QED
    BY <1>3, <1>4, <1>5, <1>7 DEF m

(* The bytes of whole chunks, and of whole chunks and a tail.              *)
LEMMA ChunkBytes ==
    ASSUME NEW n \in Nat, NEW w \in Nat, NEW b \in Nat
    PROVE  /\ 32 * b + 32 <= n => 4 * w * (b + 1) <= (n * w + 7) \div 8
           /\ 4 * w * b + ((n - 32 * b) * w + 7) \div 8 = (n * w + 7) \div 8
<1> DEFINE a == 4 * w * b
           r == (n - 32 * b) * w
<1>1. a \in Int /\ r \in Int /\ n * w = 8 * a + r /\ 4 * w * (b + 1) = a + 4 * w
    BY SMT
<1>2. 32 * b + 32 <= n => r >= 32 * w
    <2> SUFFICES ASSUME 32 * b + 32 <= n PROVE r >= 32 * w
        OBVIOUS
    <2>1. (n - 32 * b - 32) * w >= 0 /\ (n - 32 * b - 32) * w = r - 32 * w
        BY SMT
    <2> QED
        BY <2>1, <1>1, SMT
<1> HIDE DEF a, r
<1>3. (8 * a + r + 7) \div 8 = a + (r + 7) \div 8
    BY <1>1, SMT
<1>4. 32 * b + 32 <= n => 4 * w <= (r + 7) \div 8
    BY <1>1, <1>2, SMT
<1>5. (n * w + 7) \div 8 = a + (r + 7) \div 8
    BY <1>1, <1>3
<1>6. (r + 7) \div 8 \in Int
    BY <1>1, SMT
<1>7. 32 * b + 32 <= n => a + 4 * w <= a + (r + 7) \div 8
    BY <1>1, <1>4, <1>6, SMT
<1> QED
    BY <1>1, <1>5, <1>7 DEF a, r

-----------------------------------------------------------------------------
(* What a result says of the call, and of the values and bits left by it.  *)
Deserves(r, o, b) ==
    /\ r = "ok" => /\ call.w > 0 => call.len >= Required(call)
                   /\ call.op = "lookup" => ~BadIndex(call)
                   /\ call.op # "bitmap" => Len(o) = call.n
                   /\ call.op = "bitmap" => b = call.big \cap (0 .. call.n - 1)
    /\ r = "dict" => call.op = "lookup" /\ BadIndex(call)
    /\ r \in {"short", "panic"} => call.len < Required(call)
    /\ r = "width" => call.w > 32

LEMMA Ended ==
    ASSUME AInv, NEW r \in Results \ {"none"}, NEW o \in Seq(Int), Spells(o), NEW b,
           Deserves(r, o, b), pc' = "done", result' = r, out' = o, bits' = b,
           UNCHANGED <<call, blk, staged>>
    PROVE  AInv'
<1>1. Lists'
    BY DEF AInv, Lists, States
<1>2. Unpacking'
    BY DEF Unpacking
<1>3. Len(o) <= call.n /\ o = SubSeq(Reference(call), 1, Len(o))
    BY SpellsIsPrefix
<1>4. AnswerIsReference'
    BY <1>3 DEF AnswerIsReference, Deserves
<1>5. OutcomeDeserved'
    BY DEF OutcomeDeserved, Deserves, BadIndex
<1> QED
    BY <1>1, <1>2, <1>4, <1>5 DEF AInv

LEMMA Returned ==
    ASSUME AInv, NEW r \in Results \ {"none"}, NEW o \in Seq(Int), Spells(o),
           Deserves(r, o, bits), Return(r, o)
    PROVE  AInv'
    BY Ended DEF Return

(* A refusal leaves what was there before.                                 *)
LEMMA OutSpells ==
    ASSUME AInv, pc \in {"enter", "kernel", "block", "chunk"}
    PROVE  out = <<>> /\ out \in Seq(Int) /\ Spells(out) /\ bits = bits
<1>1. out = <<>>
    BY DEF AInv, Unpacking, AfterBlocks, AfterChunks
<1> QED
    BY <1>1, AInvCall DEF Spells

LEMMA Refused ==
    ASSUME AInv, pc \in {"enter", "kernel", "block", "chunk"},
           NEW r \in Results \ {"none", "ok"}, Deserves(r, out, bits), Return(r, out)
    PROVE  AInv'
<1>1. r \in Results \ {"none"}
    OBVIOUS
<1> QED
    BY <1>1, OutSpells, Returned

(* While the call goes on, nothing is claimed of its result.               *)
LEMMA GoesOn ==
    ASSUME AInv, pc # "done", Lists', Unpacking', pc' # "done", call' = call, result' = result,
           out' = out \/ Spells(out')
    PROVE  AInv'
<1>1. result = "none" /\ out' \in Seq(Int)
    BY DEF AInv, Lists
<1>2. out' = out => Len(out') <= call.n /\ out' = SubSeq(Reference(call), 1, Len(out'))
    BY DEF AInv, AnswerIsReference
<1>3. Spells(out') => Len(out') <= call.n /\ out' = SubSeq(Reference(call), 1, Len(out'))
    BY <1>1, SpellsIsPrefix
<1>4. AnswerIsReference'
    BY <1>1, <1>2, <1>3 DEF AnswerIsReference
<1>5. OutcomeDeserved'
    BY <1>1 DEF OutcomeDeserved
<1> QED
    BY <1>4, <1>5 DEF AInv

LEMMA WentTo ==
    ASSUME AInv, pc = "enter", Goto("kernel"), HasKernel(call), call.n > 0 \/ Fused(call)
    PROVE  AInv'
<1>1. Lists'
    BY DEF AInv, Lists, Goto, States
<1>2. HasKernel(call)' /\ (call.n > 0 \/ Fused(call))'
    BY DEF Goto, HasKernel, Fused, Arm
<1>3. Unpacking'
    BY <1>2 DEF AInv, Unpacking, Goto
<1> QED
    BY <1>1, <1>3, GoesOn DEF Goto

LEMMA WentToChunks ==
    ASSUME AInv, pc = "enter", Goto("chunk"), ~Fused(call), call.n > 0,
           call.w \in 1 .. 64, call.op # "indices64" => call.w <= 32
    PROVE  AInv'
<1>1. Lists'
    BY DEF AInv, Lists, Goto, States
<1>2. blk = 0 /\ staged = <<>> /\ out = <<>>
    BY DEF AInv, Unpacking
<1>3. 0 <= call.n \div 32
    BY AInvCall, SMT
<1>4. /\ Len(staged) = 32 * blk /\ Spells(staged) /\ Checked(staged)
    BY <1>2, AInvCall DEF Spells, Checked
<1>5. AfterChunks
    BY <1>2, <1>3, <1>4 DEF AfterChunks
<1>6. AfterChunks'
    BY <1>5 DEF Goto, AfterChunks, Fused, Spells, Checked, InDict, Index, IsTop
<1>7. Unpacking'
    BY <1>6 DEF Unpacking, Goto
<1> QED
    BY <1>1, <1>7, GoesOn DEF Goto

(* A whole list unpacked: the answer, or what the bitmap is packed from.   *)
LEMMA WasUnpacked ==
    ASSUME AInv, NEW o \in Seq(Int), Spells(o), Len(o) = call.n, Unpacked(o), pc # "done",
           call.op # "lookup", ~Fused(call),
           call.w > 0 => call.len >= Required(call)
    PROVE  AInv'
<1>1. CASE call.op = "bitmap"
    <2>1. pc' = "pack" /\ out' = o /\ UNCHANGED <<call, blk, staged, bits, result>>
        BY <1>1 DEF Unpacked
    <2>2. Lists'
        BY <2>1 DEF AInv, Lists, States
    <2>3. Unpacking'
        BY <1>1, <2>1 DEF Unpacking, Spells, Fused, Required
    <2> QED
        BY <2>1, <2>2, <2>3, GoesOn
<1>2. CASE call.op # "bitmap"
    <2>1. Return("ok", o)
        BY <1>2 DEF Unpacked
    <2>2. Deserves("ok", o, bits)
        BY <1>2 DEF Deserves
    <2>3. "ok" \in Results \ {"none"}
        BY DEF Results
    <2> QED
        BY <2>1, <2>2, <2>3, Returned
<1> QED
    BY <1>1, <1>2

LEMMA ZerosSpell ==
    ASSUME AInv, call.n = 0 \/ call.w = 0
    PROVE  /\ [i \in 1 .. call.n |-> 0] \in Seq(Int) /\ Len([i \in 1 .. call.n |-> 0]) = call.n
           /\ Spells([i \in 1 .. call.n |-> 0])
<1>1. [i \in 1 .. call.n |-> 0] \in [1 .. call.n -> Int]
    OBVIOUS
<1>2. call.n \in Nat /\ call.w \in Nat
    BY AInvCall
<1>3. \A i \in 1 .. call.n : 0 = (i - 1) * call.w
    BY <1>2, SMT
<1>4. [i \in 1 .. call.n |-> 0] \in Seq(Int) /\ Len([i \in 1 .. call.n |-> 0]) = call.n
    BY <1>1, <1>2
<1>5. DOMAIN [i \in 1 .. call.n |-> 0] = 1 .. call.n
    OBVIOUS
<1>6. \A i \in 1 .. call.n : [j \in 1 .. call.n |-> 0][i] = (i - 1) * call.w
    BY <1>3
<1> QED
    BY <1>2, <1>4, <1>5, <1>6 DEF Spells

(* No values need no bytes.                                                *)
LEMMA NothingRequired ==
    ASSUME AInv, call.n = 0 PROVE Required(call) = 0 /\ ~BadIndex(call)
<1>1. 0 * call.w = 0
    BY AInvCall, SMT
<1> QED
    BY <1>1, SMT DEF Required, BadIndex

-----------------------------------------------------------------------------
(* One lemma per action again.                                             *)
LEMMA IndicesAnswer ==
    ASSUME AInv, unpack_indices_into PROVE AInv'
<1>1. pc = "enter" /\ call.op \in {"indices", "bitmap"} /\ ~Fused(call) /\ call.w \in Nat
    BY AInvCall DEF unpack_indices_into
<1>2. CASE call.w > 32 /\ Return("width", out)
    <2>1. Deserves("width", out, bits) /\ "width" \in Results \ {"none", "ok"}
        BY <1>2 DEF Deserves, Results
    <2> QED
        BY <1>1, <1>2, <2>1, Refused
<1>3. CASE (call.n = 0 \/ call.w = 0) /\ Unpacked([i \in 1 .. call.n |-> 0])
    <2>1. call.w > 0 => call.len >= Required(call)
        BY <1>3, NothingRequired, AInvCall
    <2> QED
        BY <1>1, <1>3, <2>1, ZerosSpell, WasUnpacked
<1>4. CASE /\ call.w \in 1 .. 32 /\ call.n > 0
           /\ Goto(IF Arm(call) = Scalar THEN "chunk" ELSE "kernel")
    <2>1. CASE Arm(call) = Scalar
        <3>1. call.w \in 1 .. 64 /\ call.w <= 32
            BY <1>4
        <3> QED
            BY <1>1, <1>4, <2>1, <3>1, WentToChunks
    <2>2. CASE Arm(call) # Scalar
        BY <1>1, <1>4, <2>2, WentTo DEF HasKernel
    <2> QED
        BY <2>1, <2>2
<1> QED
    BY <1>2, <1>3, <1>4 DEF unpack_indices_into

LEMMA LookupAnswer ==
    ASSUME AInv, unpack_lookup_into PROVE AInv'
<1>1. pc = "enter" /\ call.op = "lookup" /\ ~Fused(call) /\ call.w \in Nat
    BY AInvCall DEF unpack_lookup_into, Fused
<1>2. CASE call.w > 32 /\ Return("width", out)
    <2>1. Deserves("width", out, bits) /\ "width" \in Results \ {"none", "ok"}
        BY <1>2 DEF Deserves, Results
    <2> QED
        BY <1>1, <1>2, <2>1, Refused
<1>3. CASE call.n = 0 /\ Return("ok", out)
    <2>1. Len(out) = 0 /\ out \in Seq(Int) /\ Spells(out)
        BY <1>1, OutSpells
    <2>2. Deserves("ok", out, bits) /\ "ok" \in Results \ {"none"}
        BY <1>1, <1>3, <2>1, NothingRequired, AInvCall DEF Deserves, Results
    <2> QED
        BY <1>3, <2>1, <2>2, Returned
<1>4. CASE /\ call.w = 0 /\ call.n > 0
           /\ IF call.dict = 0 THEN Return("dict", out)
              ELSE Return("ok", [i \in 1 .. call.n |-> 0])
    <2>1. \A p : Index(call, p) = 0
        BY <1>4 DEF Index, IsTop
    <2>2. CASE call.dict = 0
        <3>1. 0 \in 0 .. call.n - 1 /\ ~InDict(call, 0 * call.w)
            BY <1>4, <2>1, <2>2, AInvCall DEF InDict
        <3>2. Deserves("dict", out, bits) /\ "dict" \in Results \ {"none", "ok"}
            BY <1>1, <3>1 DEF Deserves, Results, BadIndex
        <3> QED
            BY <1>1, <1>4, <2>2, <3>2, Refused
    <2>3. CASE call.dict # 0
        <3>1. \A p : InDict(call, p)
            BY <2>1, <2>3, AInvCall DEF InDict
        <3>2. ~BadIndex(call) /\ "ok" \in Results \ {"none"}
            BY <3>1 DEF BadIndex, Results
        <3>3. Len([i \in 1 .. call.n |-> 0]) = call.n
            BY <1>4, ZerosSpell
        <3>4. Deserves("ok", [i \in 1 .. call.n |-> 0], bits)
            <4>1. ~(call.w > 0) /\ call.op = "lookup"
                BY <1>1, <1>4
            <4> QED
                BY <3>2, <3>3, <4>1 DEF Deserves
        <3> QED
            BY <1>4, <2>3, <3>2, <3>4, ZerosSpell, Returned
    <2> QED
        BY <2>2, <2>3
<1>5. CASE /\ call.w \in 1 .. 32 /\ call.n > 0
           /\ Goto(IF Arm(call) = Scalar THEN "chunk" ELSE "kernel")
    <2>1. CASE Arm(call) = Scalar
        <3>1. call.w \in 1 .. 64 /\ call.w <= 32
            BY <1>5
        <3> QED
            BY <1>1, <1>5, <2>1, <3>1, WentToChunks
    <2>2. CASE Arm(call) # Scalar
        BY <1>1, <1>5, <2>2, WentTo DEF HasKernel
    <2> QED
        BY <2>1, <2>2
<1> QED
    BY <1>2, <1>3, <1>4, <1>5 DEF unpack_lookup_into

LEMMA Indices64Answer ==
    ASSUME AInv, unpack_indices64_into PROVE AInv'
<1>1. pc = "enter" /\ call.op = "indices64" /\ ~Fused(call) /\ call.w \in Nat
    BY AInvCall DEF unpack_indices64_into, Fused
<1>2. CASE call.w > 64 /\ Return("width", out)
    <2>1. Deserves("width", out, bits) /\ "width" \in Results \ {"none", "ok"}
        BY <1>1, <1>2 DEF Deserves, Results
    <2> QED
        BY <1>1, <1>2, <2>1, Refused
<1>3. CASE (call.n = 0 \/ call.w = 0) /\ Return("ok", [i \in 1 .. call.n |-> 0])
    <2>1. call.w > 0 => call.len >= Required(call)
        BY <1>3, NothingRequired, AInvCall
    <2>2. Deserves("ok", [i \in 1 .. call.n |-> 0], bits) /\ "ok" \in Results \ {"none"}
        BY <1>1, <1>3, <2>1, ZerosSpell DEF Deserves, Results
    <2> QED
        BY <1>3, <2>2, ZerosSpell, Returned
<1>4. CASE call.w \in 1 .. 64 /\ call.n > 0 /\ Goto("chunk")
    BY <1>1, <1>4, WentToChunks
<1> QED
    BY <1>2, <1>3, <1>4 DEF unpack_indices64_into

LEMMA FusedAnswer ==
    ASSUME AInv, fused_bitmap_chunk PROVE AInv'
    BY WentTo DEF fused_bitmap_chunk, HasKernel

LEMMA PackAnswer ==
    ASSUME AInv, PackBits PROVE AInv'
<1>1. /\ call.op = "bitmap" /\ Len(out) = call.n /\ Spells(out) /\ out \in Seq(Int)
      /\ call.w > 0 => call.len >= Required(call)
    BY DEF PackBits, AInv, Lists, Unpacking
<1>2. Marked(call, out, 0) = call.big \cap (0 .. call.n - 1)
    <2>1. CASE call.w = 0
        <3>1. call.big = {}
            BY <1>1, <2>1, AInvCall
        <3>2. Marked(call, out, 0) = {}
            BY <2>1 DEF Marked, IsTop
        <3> QED
            BY <3>1, <3>2
    <2>2. CASE call.w # 0
        <3>1. \A j \in 1 .. Len(out) : out[j] = (0 + j - 1) * call.w
            BY <1>1 DEF Spells
        <3>2. call.w > 0 /\ 0 \in Nat
            BY <2>2, AInvCall
        <3>3. Marked(call, out, 0) = call.big \cap (0 .. 0 + Len(out) - 1)
            BY <1>1, <3>1, <3>2, MarkedAre
        <3>4. 0 + Len(out) - 1 = call.n - 1
            BY <1>1, AInvCall
        <3> QED
            BY <3>3, <3>4
    <2> QED
        BY <2>1, <2>2
<1>3. Deserves("ok", out, Marked(call, out, 0)) /\ "ok" \in Results \ {"none"}
    BY <1>1, <1>2 DEF Deserves, Results
<1> QED
    BY <1>1, <1>3, Ended DEF PackBits

(* Checks before the blocks.                                               *)
LEMMA Started ==
    ASSUME AInv, KernelsExact, pc = "kernel", StartBlocks PROVE AInv'
<1>1. /\ blk = 0 /\ staged = <<>> /\ out = <<>> /\ bits = {} /\ HasKernel(call)
    BY DEF AInv, Unpacking
<1>2. CASE call.len < Required(call)
    <2>1. Return("short", out)
        BY <1>2 DEF StartBlocks
    <2>2. Deserves("short", out, bits) /\ "short" \in Results \ {"none", "ok"}
        BY <1>2 DEF Deserves, Results
    <2> QED
        BY <2>1, <2>2, Refused
<1>3. CASE ~(call.len < Required(call))
    <2>1. Goto("block")
        BY <1>3 DEF StartBlocks
    <2>2. Required(call) \in Int
        BY AInvCall, SMT DEF Required
    <2>3. call.len >= Required(call)
        BY <1>3, <2>2, AInvCall
    <2>4. Lists'
        BY <2>1 DEF AInv, Lists, Goto, States
    <2>5. HasKernel(call)'
        BY <1>1, <2>1 DEF Goto, HasKernel, Fused, Arm
    <2>6. AfterBlocks
        <3>1. 8 * blk - 1 = -1 /\ 0 .. -1 = {}
            BY <1>1
        <3>2. CASE Arm(call).kind = "predicate"
            BY <1>1, <2>3, <3>1, <3>2 DEF AfterBlocks
        <3>3. CASE Arm(call).kind # "predicate"
            <4>1. 0 * BlockSize(Arm(call).kernel) = 0
                <5>1. BlockSize(Arm(call).kernel) \in Nat
                    BY <1>1, AInvCall, SafeBlocksBounded DEF KernelsExact, AInv, Lists
                <5> QED
                    BY <5>1, SMT
            <4>2. Spells(staged) /\ Checked(staged) /\ Len(staged) = 0
                BY <1>1, AInvCall DEF Spells, Checked
            <4> QED
                BY <1>1, <2>3, <3>3, <4>1, <4>2, AInvCall DEF AfterBlocks
        <3> QED
            BY <3>2, <3>3
    <2>7. AfterBlocks'
        BY <2>1, <2>6 DEF Goto, AfterBlocks, Required, Safe, Arm, Fused, Spells, Checked,
                          InDict, Index, IsTop
    <2>8. Unpacking'
        BY <2>1, <2>5, <2>7 DEF Goto, Unpacking
    <2> QED
        BY <2>1, <2>4, <2>8, GoesOn DEF Goto
<1> QED
    BY <1>2, <1>3

(* With no entry at all, the first index is bad already.                   *)
LEMMA FirstIsBad ==
    ASSUME AInv, call.op = "lookup", call.w <= 32, call.dict = 0, call.n > 0
    PROVE  BadIndex(call)
<1>1. 2 ^ call.w > 0 /\ 2 ^ call.w \in Int
    <2>1. 2 ^ call.w > 0
        BY PowerAssumption DEF AInv, Lists
    <2>2. 2 ^ call.w \in Int
        BY AInvCall, SMT
    <2> QED
        BY <2>1, <2>2
<1>2. \A p : ~(Index(call, p) < 0)
    BY <1>1, SMT DEF Index
<1>3. \A p : ~InDict(call, p)
    BY <1>2 DEF InDict
<1>4. 0 \in 0 .. call.n - 1
    BY AInvCall
<1> QED
    BY <1>3, <1>4 DEF BadIndex

LEMMA ChecksAnswer ==
    ASSUME AInv, KernelsExact, CheckUnpack \/ CheckLookup \/ CheckPredicate PROVE AInv'
<1>1. /\ pc = "kernel" /\ HasKernel(call) /\ Arm(call).kind = Kind(call)
      /\ call.n > 0 \/ Fused(call)
    BY DEF CheckUnpack, CheckLookup, CheckPredicate, AInv, Lists, Unpacking, KernelsExact, Aligned
<1>2. CASE StartBlocks
    BY <1>1, <1>2, Started
<1>3. CASE Arm(call).kind = "lookup" /\ call.dict = 0 /\ Return("dict", out)
    <2>1. call.op = "lookup" /\ ~Fused(call)
        BY <1>1, <1>3 DEF Kind, Fused
    <2>2. call.n > 0 /\ call.w <= 32
        BY <1>1, <2>1, KernelWidth
    <2>3. BadIndex(call)
        BY <1>3, <2>1, <2>2, FirstIsBad
    <2>4. Deserves("dict", out, bits) /\ "dict" \in Results \ {"none", "ok"}
        BY <2>1, <2>3 DEF Deserves, Results
    <2> QED
        BY <1>1, <1>3, <2>4, Refused
<1>4. CASE Return("mask", out)
    <2>1. Deserves("mask", out, bits) /\ "mask" \in Results \ {"none", "ok"}
        BY DEF Deserves, Results
    <2> QED
        BY <1>1, <1>4, <2>1, Refused
<1>5. CASE Arm(call).kind = "predicate" /\ call.n = 0 /\ Return("ok", out)
    <2>1. call.op = "bitmap"
        BY <1>1, <1>5 DEF Kind, Fused
    <2>2. bits = call.big \cap (0 .. call.n - 1)
        <3>1. bits = {}
            BY <1>1 DEF AInv, Unpacking
        <3>2. 0 .. call.n - 1 = {}
            BY <1>5
        <3> QED
            BY <3>1, <3>2
    <2>3. call.len >= Required(call)
        BY <1>5, NothingRequired, AInvCall
    <2>4. Deserves("ok", out, bits) /\ "ok" \in Results \ {"none"}
        BY <2>1, <2>2, <2>3 DEF Deserves, Results
    <2> QED
        BY <1>1, <1>5, <2>4, OutSpells, Returned
<1> QED
    BY <1>2, <1>3, <1>4, <1>5 DEF CheckUnpack, CheckLookup, CheckPredicate

(* A block's values behind those of the blocks before.                     *)
LEMMA BlockStaged ==
    ASSUME AInv, KernelsExact, pc = "block", blk < Safe(call), Arm(call).kind # "predicate",
           call.op = "lookup" => AllIn(call, Block), Stage(Block)
    PROVE  AInv'
<1> DEFINE size == BlockSize(Arm(call).kernel)
<1>1. HasKernel(call) /\ Aligned(call, Arm(call)) /\ blk \in Nat /\ staged \in Seq(Int)
    BY DEF AInv, Lists, Unpacking, KernelsExact
<1>2. /\ out = <<>> /\ call.len >= Required(call)
      /\ Len(staged) = blk * size /\ Spells(staged) /\ Checked(staged)
    BY DEF AInv, Unpacking, AfterBlocks
<1>3. size \in Nat \ {0} /\ Safe(call) \in Int /\ Safe(call) <= call.n \div size
    BY <1>1, AInvCall, SafeBlocksBounded
<1>4. /\ Block \in Seq(Int) /\ Len(Block) = size
      /\ \A j \in 1 .. Len(Block) : Block[j] = (Len(staged) + j - 1) * call.w
    BY <1>2, BlockSpells
<1>5. /\ blk + 1 <= Safe(call) /\ Len(staged) + Len(Block) = (blk + 1) * size
      /\ Len(staged) + Len(Block) <= call.n
    <2> HIDE DEF size
    <2>1. blk + 1 <= Safe(call) /\ blk + 1 <= call.n \div size /\ blk + 1 \in Int
        BY <1>1, <1>3, AInvCall
    <2>2. (blk + 1) * size <= call.n
        BY <1>3, <2>1, AInvCall, WholeBlocks
    <2>3. blk * size + size = (blk + 1) * size
        BY <1>1, <1>3, SMT
    <2> QED
        BY <1>2, <1>4, <2>1, <2>2, <2>3
<1>6. /\ staged \o Block \in Seq(Int) /\ Len(staged \o Block) = (blk + 1) * size
      /\ Spells(staged \o Block)
    BY <1>1, <1>2, <1>4, <1>5, SpellsMore
<1>7. Checked(staged \o Block)
    BY <1>1, <1>2, <1>4, CheckedMore
<1>8. /\ staged' = staged \o Block /\ blk' = blk + 1
      /\ UNCHANGED <<call, pc, out, bits, result>>
    BY DEF Stage
<1>9. Lists'
    BY <1>1, <1>6, <1>8 DEF AInv, Lists
<1>10. AfterBlocks'
    BY <1>2, <1>5, <1>6, <1>7, <1>8
       DEF AfterBlocks, Required, Safe, Arm, Fused, Spells, Checked, InDict, Index, IsTop
<1>11. HasKernel(call)'
    BY <1>1, <1>8 DEF HasKernel, Fused, Arm
<1>12. Unpacking'
    BY <1>8, <1>10, <1>11 DEF Unpacking
<1> QED
    BY <1>8, <1>9, <1>12, GoesOn

LEMMA UnpackBlockAnswer ==
    ASSUME AInv, KernelsExact, UnpackBlock PROVE AInv'
<1>1. pc = "block" /\ blk < Safe(call) /\ Arm(call).kind = "indices" /\ Stage(Block)
    BY DEF UnpackBlock, InBlock
<1>2. call.op # "lookup"
    <2>1. HasKernel(call) /\ call \in Calls
        BY <1>1 DEF AInv, Lists, Unpacking
    <2>2. Arm(call).kind = Kind(call)
        BY <2>1 DEF KernelsExact, Aligned
    <2> QED
        BY <1>1, <2>2 DEF Kind
<1> QED
    BY <1>1, <1>2, BlockStaged

(* A lookup that does not check reads what a lookup that checks would.     *)
LEMMA UncheckedReads ==
    ASSUME AInv, NEW v \in Seq(Int), \A p : InDict(call, p)
    PROVE  Read(call, v) = v /\ AllIn(call, v)
<1>1. Read(call, v) = [i \in DOMAIN v |-> v[i]]
    BY Zenon DEF Read
<1>2. v = [i \in DOMAIN v |-> v[i]]
    OBVIOUS
<1> QED
    BY <1>1, <1>2 DEF AllIn

LEMMA LookupBlockAnswer ==
    ASSUME AInv, KernelsExact, LookupBlock PROVE AInv'
<1>1. pc = "block" /\ blk < Safe(call) /\ Arm(call).kind = "lookup"
    BY DEF LookupBlock, InBlock
<1>2. HasKernel(call) /\ call \in Calls /\ blk \in Nat /\ staged \in Seq(Int)
    BY <1>1 DEF AInv, Lists, Unpacking
<1>3. Aligned(call, Arm(call)) /\ call.op = "lookup"
    BY <1>1, <1>2 DEF KernelsExact, Aligned, Kind
<1>4. Block \in Seq(Int)
    BY <1>1, BlockSpells
<1>5. CASE AllIn(call, Block) /\ Stage(Block)
    BY <1>1, <1>5, BlockStaged
<1>6. CASE call.dict > Arm(call).arg /\ Stage(Read(call, Block))
    <2>1. Arm(call).arg \in Nat /\ Arm(call).arg >= 2 ^ call.w - 1
        BY <1>1, <1>3 DEF Aligned
    <2>2. call.dict > 0 /\ Arm(call).arg \in Int
        BY <1>6, <2>1, AInvCall, SMT
    <2>3. \A p : InDict(call, p)
        BY <1>6, <2>1, <2>2, AInvCall, EveryIndexInDict
    <2>4. Read(call, Block) = Block /\ AllIn(call, Block)
        BY <1>4, <2>3, UncheckedReads
    <2> QED
        BY <1>1, <1>6, <2>4, BlockStaged
<1>7. CASE ~AllIn(call, Block) /\ Return("dict", out)
    <2> DEFINE size == BlockSize(Arm(call).kernel)
    <2>1. /\ Len(Block) = size
          /\ \A j \in 1 .. Len(Block) : Block[j] = (blk * size + j - 1) * call.w
        BY <1>1, BlockSpells
    <2>2. blk * size \in Nat /\ blk * size + size <= call.n
        <3>1. size \in Nat \ {0} /\ Safe(call) \in Int /\ Safe(call) <= call.n \div size
            BY <1>2, <1>3, AInvCall, SafeBlocksBounded
        <3> HIDE DEF size
        <3>2. blk + 1 <= call.n \div size /\ blk + 1 \in Int
            BY <1>1, <1>2, <3>1, AInvCall, SMT
        <3>3. (blk + 1) * size <= call.n
            BY <3>1, <3>2, AInvCall, WholeBlocks
        <3> QED
            BY <1>2, <3>1, <3>3, SMT
    <2>3. BadIndex(call)
        BY <1>4, <1>7, <2>1, <2>2, OneBad
    <2>4. Deserves("dict", out, bits) /\ "dict" \in Results \ {"none", "ok"}
        BY <1>3, <2>3 DEF Deserves, Results
    <2> QED
        BY <1>1, <1>7, <2>4, Refused
<1> QED
    BY <1>5, <1>6, <1>7 DEF LookupBlock

LEMMA PredicateBlockAnswer ==
    ASSUME AInv, KernelsExact, PredicateBlock PROVE AInv'
<1>1. /\ pc = "block" /\ blk < Safe(call) /\ Arm(call).kind = "predicate"
      /\ bits' = bits \cup Marked(call, Block, 8 * blk)
      /\ blk' = blk + 1 /\ UNCHANGED <<call, pc, staged, out, result>>
    BY DEF PredicateBlock, InBlock
<1>2. HasKernel(call) /\ call \in Calls /\ blk \in Nat
    BY <1>1 DEF AInv, Lists, Unpacking
<1>3. BlockSize(Arm(call).kernel) = 8 /\ Aligned(call, Arm(call)) /\ call.w > 0
    <2>1. call.w \in 1 .. 32
        BY <1>2, KernelWidth
    <2>2. call.w > 0
        BY <2>1
    <2> QED
        BY <1>1, <1>2, <2>2 DEF KernelsExact, Aligned
<1>4. /\ out = <<>> /\ call.len >= Required(call) /\ staged = <<>>
      /\ bits = call.big \cap (0 .. 8 * blk - 1)
    BY <1>1 DEF AInv, Unpacking, AfterBlocks
<1>5. /\ Block \in Seq(Int) /\ Len(Block) = 8
      /\ \A j \in 1 .. Len(Block) : Block[j] = (8 * blk + j - 1) * call.w
    BY <1>1, <1>2, <1>3, BlockSpells, SMT
<1>6. Marked(call, Block, 8 * blk) = call.big \cap (8 * blk .. 8 * blk + Len(Block) - 1)
    <2>1. 8 * blk \in Nat
        BY <1>2
    <2> QED
        BY <1>3, <1>5, <2>1, MarkedAre
<1>7. bits' = call.big \cap (0 .. 8 * (blk + 1) - 1)
    <2>1. (0 .. 8 * blk - 1) \cup (8 * blk .. 8 * blk + 8 - 1) = 0 .. 8 * (blk + 1) - 1
        BY <1>2
    <2> QED
        BY <1>1, <1>4, <1>5, <1>6, <2>1
<1>8. blk + 1 <= Safe(call) /\ blk + 1 \in Nat
    BY <1>1, <1>2, <1>3, AInvCall, SafeBlocksBounded
<1>9. Lists'
    BY <1>1, <1>8 DEF AInv, Lists
<1>10. AfterBlocks'
    BY <1>1, <1>4, <1>7, <1>8 DEF AfterBlocks, Required, Safe, Arm, Fused
<1>11. HasKernel(call)'
    BY <1>1, <1>2 DEF HasKernel, Fused, Arm
<1>12. Unpacking'
    BY <1>1, <1>10, <1>11 DEF Unpacking
<1> QED
    BY <1>1, <1>9, <1>12, GoesOn

(* The tails.                                                              *)
LEMMA KernelTailAnswer ==
    ASSUME AInv, KernelsExact, UnpackTail \/ LookupTail \/ PredicateTail PROVE AInv'
<1>1. pc = "block" /\ blk = Safe(call)
    BY DEF UnpackTail, LookupTail, PredicateTail, BlocksDone
<1>2. HasKernel(call) /\ call \in Calls /\ blk \in Nat /\ staged \in Seq(Int)
    BY <1>1 DEF AInv, Lists, Unpacking
<1>3. Arm(call).kind = Kind(call) /\ (Kind(call) = "predicate" => BlockSize(Arm(call).kernel) = 8)
    BY <1>2 DEF KernelsExact, Aligned
<1>4. /\ Processed \in Nat /\ Processed <= call.n /\ Processed = blk * BlockSize(Arm(call).kernel)
      /\ TailValues \in Seq(Int) /\ Len(TailValues) = call.n - Processed
      /\ \A j \in 1 .. Len(TailValues) : TailValues[j] = (Processed + j - 1) * call.w
    BY <1>1, TailSpells
<1>5. out = <<>> /\ call.len >= Required(call) /\ call.w > 0
    <2>1. call.w \in 1 .. 32
        BY <1>2, KernelWidth
    <2>2. call.w > 0
        BY <2>1
    <2> QED
        BY <1>1, <2>2 DEF AInv, Unpacking, AfterBlocks
<1>6. ASSUME Kind(call) # "predicate"
      PROVE  /\ Len(staged) = Processed /\ Spells(staged) /\ Checked(staged)
             /\ Spells(staged \o TailValues) /\ staged \o TailValues \in Seq(Int)
             /\ Len(staged \o TailValues) = call.n
    <2>1. Len(staged) = Processed /\ Spells(staged) /\ Checked(staged)
        BY <1>1, <1>3, <1>4, <1>6 DEF AInv, Unpacking, AfterBlocks
    <2>2. Len(staged) + Len(TailValues) = call.n
        BY <1>4, <2>1, AInvCall
    <2>3. Len(staged) + Len(TailValues) <= call.n
        BY <2>2, AInvCall
    <2> QED
        BY <1>2, <1>4, <2>1, <2>2, <2>3, SpellsMore
<1>7. CASE UnpackTail
    <2>1. Arm(call).kind = "indices" /\ Unpacked(staged \o TailValues)
        BY <1>7 DEF UnpackTail, BlocksDone
    <2>2. Kind(call) # "predicate" /\ call.op # "lookup" /\ ~Fused(call)
        BY <1>3, <2>1 DEF Kind
    <2> QED
        BY <1>1, <1>5, <1>6, <2>1, <2>2, WasUnpacked
<1>8. CASE LookupTail
    <2>1. Arm(call).kind = "lookup"
        BY <1>8 DEF LookupTail, BlocksDone
    <2>2. Kind(call) # "predicate" /\ call.op = "lookup"
        BY <1>3, <2>1 DEF Kind
    <2> DEFINE pushed == PushedUpTo(call, TailValues)
    <2>3. /\ pushed \in Seq(Int) /\ Len(pushed) <= Len(TailValues)
          /\ \A j \in 1 .. Len(pushed) : pushed[j] = TailValues[j]
          /\ AllIn(call, TailValues) => pushed = TailValues
        BY <1>4, PushedPrefix
    <2> HIDE DEF pushed
    <2>4. Len(staged) + Len(pushed) <= call.n
        BY <1>2, <1>4, <1>6, <2>2, <2>3, AInvCall
    <2>5. \A j \in 1 .. Len(pushed) : pushed[j] = (Len(staged) + j - 1) * call.w
        <3>1. Len(staged) = Processed
            BY <1>6, <2>2
        <3> SUFFICES ASSUME NEW j \in 1 .. Len(pushed)
                     PROVE  pushed[j] = (Processed + j - 1) * call.w
            BY <3>1
        <3>2. j \in 1 .. Len(TailValues)
            BY <1>4, <2>3, AInvCall
        <3> QED
            BY <1>4, <2>3, <3>2
    <2>6. staged \o pushed \in Seq(Int) /\ Spells(staged \o pushed)
        BY <1>2, <1>6, <2>2, <2>3, <2>4, <2>5, SpellsMore
    <2>7. CASE AllIn(call, TailValues)
        <3>1. Return("ok", staged \o pushed) /\ pushed = TailValues
            BY <1>8, <2>3, <2>7 DEF LookupTail, pushed
        <3>2. Checked(staged \o pushed)
            BY <1>2, <1>4, <1>6, <2>2, <2>7, <3>1, CheckedMore
        <3>3. ~BadIndex(call)
            BY <1>6, <2>2, <2>6, <3>1, <3>2, AllSpelled
        <3>4. Deserves("ok", staged \o pushed, bits) /\ "ok" \in Results \ {"none"}
            BY <1>5, <1>6, <2>2, <3>1, <3>3 DEF Deserves, Results
        <3> QED
            BY <2>6, <3>1, <3>4, Returned
    <2>8. CASE ~AllIn(call, TailValues)
        <3>1. Return("dict", staged \o pushed)
            BY <1>8, <2>8 DEF LookupTail, pushed
        <3>2. Processed + Len(TailValues) <= call.n
            BY <1>4, AInvCall
        <3>3. BadIndex(call)
            BY <1>4, <2>8, <3>2, OneBad
        <3>4. Deserves("dict", staged \o pushed, bits) /\ "dict" \in Results \ {"none"}
            BY <2>2, <3>3 DEF Deserves, Results
        <3> QED
            BY <2>6, <3>1, <3>4, Returned
    <2> QED
        BY <2>7, <2>8
<1>9. CASE PredicateTail
    <2>1. /\ Arm(call).kind = "predicate"
          /\ bits' = bits \cup Marked(call, TailValues, Processed)
          /\ pc' = "done" /\ result' = "ok" /\ UNCHANGED <<call, blk, staged, out>>
        BY <1>9 DEF PredicateTail, BlocksDone
    <2>2. call.op = "bitmap" /\ BlockSize(Arm(call).kernel) = 8
        BY <1>3, <2>1 DEF Kind, Fused
    <2>3. bits = call.big \cap (0 .. Processed - 1)
        <3>1. bits = call.big \cap (0 .. 8 * blk - 1)
            BY <1>1, <2>1 DEF AInv, Unpacking, AfterBlocks
        <3>2. Processed = 8 * blk
            BY <1>2, <1>4, <2>2, SMT
        <3> QED
            BY <3>1, <3>2
    <2>4. Marked(call, TailValues, Processed)
            = call.big \cap (Processed .. Processed + Len(TailValues) - 1)
        BY <1>4, <1>5, MarkedAre
    <2>5. bits' = call.big \cap (0 .. call.n - 1)
        <3>1. Processed + Len(TailValues) - 1 = call.n - 1
            BY <1>4, AInvCall
        <3>2. (0 .. Processed - 1) \cup (Processed .. call.n - 1) = 0 .. call.n - 1
            BY <1>4, AInvCall
        <3> QED
            BY <2>1, <2>3, <2>4, <3>1, <3>2
    <2>6. Deserves("ok", out, bits') /\ "ok" \in Results \ {"none"}
        BY <1>5, <2>2, <2>5 DEF Deserves, Results
    <2>7. out \in Seq(Int) /\ Spells(out)
        BY <1>1, OutSpells
    <2> QED
        BY <2>1, <2>6, <2>7, Ended
<1> QED
    BY <1>7, <1>8, <1>9

(* A scalar worker that skips its checks has a dictionary large enough.    *)
LEMMA ScalarReads ==
    ASSUME AInv, pc = "chunk", call.op = "lookup", BoundsSafe, NEW v \in Seq(Int)
    PROVE  Read(call, v) = v /\ AllIn(call, v)
<1>1. call.w <= 32 /\ call \in Calls
    BY DEF AInv, Lists, Unpacking, AfterChunks
<1>2. 2 ^ call.w > 0 /\ 2 ^ call.w - 1 < call.dict
    BY <1>1, PowerAssumption DEF BoundsSafe
<1>3. 2 ^ call.w \in Int
    BY AInvCall, SMT
<1>4. 2 ^ call.w - 1 \in Int /\ call.dict > 2 ^ call.w - 1 /\ call.dict > 0
    BY <1>2, <1>3, AInvCall, SMT
<1>5. \A p : InDict(call, p)
    BY <1>4, AInvCall, EveryIndexInDict
<1> QED
    BY <1>5, UncheckedReads

LEMMA ChunkStaged ==
    ASSUME AInv, pc = "chunk", blk < call.n \div 32, ChunkInSlice,
           call.op = "lookup" => AllIn(call, ChunkValues), Stage(ChunkValues)
    PROVE  AInv'
<1>1. blk \in Nat /\ staged \in Seq(Int) /\ AfterChunks
    BY DEF AInv, Lists, Unpacking
<1>2. Len(staged) = 32 * blk /\ Spells(staged) /\ Checked(staged)
    BY <1>1 DEF AfterChunks
<1>3. /\ ChunkValues \in Seq(Int) /\ Len(ChunkValues) = 32
      /\ Len(staged) + Len(ChunkValues) <= call.n
      /\ \A j \in 1 .. Len(ChunkValues) : ChunkValues[j] = (Len(staged) + j - 1) * call.w
    BY <1>2, ChunkSpells
<1>4. /\ staged \o ChunkValues \in Seq(Int) /\ Spells(staged \o ChunkValues)
      /\ Len(staged \o ChunkValues) = 32 * blk + 32
    BY <1>1, <1>2, <1>3, SpellsMore
<1>5. Checked(staged \o ChunkValues)
    BY <1>1, <1>2, <1>3, CheckedMore
<1>6. /\ staged' = staged \o ChunkValues /\ blk' = blk + 1
      /\ UNCHANGED <<call, pc, out, bits, result>>
    BY DEF Stage
<1>7. Lists'
    BY <1>1, <1>4, <1>6 DEF AInv, Lists
<1>8. blk + 1 <= call.n \div 32 /\ 32 * blk + 32 = 32 * (blk + 1)
    BY <1>1, AInvCall, SMT
<1>9. 4 * call.w * (blk + 1) <= call.len
    BY DEF ChunkInSlice
<1>10. AfterChunks'
    BY <1>1, <1>4, <1>5, <1>6, <1>8, <1>9
       DEF AfterChunks, Fused, Spells, Checked, InDict, Index, IsTop
<1>11. Unpacking'
    BY <1>6, <1>10 DEF Unpacking
<1> QED
    BY <1>6, <1>7, <1>11, GoesOn

LEMMA ChunkAnswer ==
    ASSUME AInv, UnpackChunk PROVE AInv'
<1>1. pc = "chunk" /\ blk < call.n \div 32 /\ blk \in Nat /\ staged \in Seq(Int)
    BY DEF UnpackChunk, InChunk, AInv, Lists
<1>2. /\ AfterChunks /\ 32 * blk + 32 <= call.n
      /\ ChunkValues \in Seq(Int) /\ Len(ChunkValues) = 32
      /\ \A j \in 1 .. 32 : ChunkValues[j] = (32 * blk + j - 1) * call.w
    BY <1>1, ChunkSpells DEF AInv, Unpacking
<1>3. CASE ~ChunkInSlice /\ Return("panic", out)
    <2>1. 4 * call.w * (blk + 1) <= Required(call)
        BY <1>1, <1>2, AInvCall, ChunkBytes DEF Required
    <2>2. ~(4 * call.w * (blk + 1) <= call.len)
        BY <1>3 DEF ChunkInSlice
    <2>3. 4 * call.w * (blk + 1) \in Int /\ Required(call) \in Int
        BY <1>1, AInvCall, SMT DEF Required
    <2>4. call.len < Required(call)
        <3> DEFINE x == 4 * call.w * (blk + 1)
        <3> HIDE DEF x
        <3>1. x <= Required(call) /\ ~(x <= call.len) /\ x \in Int
            BY <2>1, <2>2, <2>3 DEF x
        <3> QED
            BY <2>3, <3>1, AInvCall, SMT
    <2>5. Deserves("panic", out, bits) /\ "panic" \in Results \ {"none", "ok"}
        BY <2>4 DEF Deserves, Results
    <2> QED
        BY <1>1, <1>3, <2>5, Refused
<1>4. CASE /\ ChunkInSlice /\ BoundsSafe
           /\ Stage(IF call.op = "lookup" THEN Read(call, ChunkValues) ELSE ChunkValues)
    <2>1. CASE call.op = "lookup"
        BY <1>1, <1>2, <1>4, <2>1, ScalarReads, ChunkStaged
    <2>2. CASE call.op # "lookup"
        BY <1>1, <1>4, <2>2, ChunkStaged
    <2> QED
        BY <2>1, <2>2
<1>5. CASE ChunkInSlice /\ AllIn(call, ChunkValues) /\ Stage(ChunkValues)
    BY <1>1, <1>5, ChunkStaged
<1>6. CASE ~BoundsSafe /\ ~AllIn(call, ChunkValues) /\ Return("dict", staged)
    <2>1. call.op = "lookup"
        BY <1>6 DEF BoundsSafe
    <2>2. 32 * blk \in Nat /\ 32 * blk + Len(ChunkValues) <= call.n
        BY <1>1, <1>2
    <2>3. BadIndex(call)
        BY <1>2, <1>6, <2>2, OneBad
    <2>4. Deserves("dict", staged, bits) /\ "dict" \in Results \ {"none"}
        BY <2>1, <2>3 DEF Deserves, Results
    <2>5. Spells(staged)
        BY <1>2 DEF AfterChunks
    <2> QED
        BY <1>1, <1>6, <2>4, <2>5, Returned
<1> QED
    BY <1>3, <1>4, <1>5, <1>6 DEF UnpackChunk

LEMMA ChunkTailAnswer ==
    ASSUME AInv, UnpackChunkTail PROVE AInv'
<1>1. pc = "chunk" /\ blk = call.n \div 32 /\ blk \in Nat /\ staged \in Seq(Int)
    BY DEF UnpackChunkTail, AInv, Lists
<1>2. /\ ChunkTail \in Seq(Int) /\ Len(ChunkTail) = call.n % 32
      /\ 32 * blk + Len(ChunkTail) = call.n
      /\ \A j \in 1 .. Len(ChunkTail) : ChunkTail[j] = (32 * blk + j - 1) * call.w
    BY <1>1, ChunkTailSpells
<1>3. /\ Len(staged) = 32 * blk /\ Spells(staged) /\ Checked(staged) /\ ~Fused(call)
      /\ call.n > 0 /\ (blk > 0 => 4 * call.w * blk <= call.len)
    BY <1>1 DEF AInv, Unpacking, AfterChunks
<1>4. Required(call) = 4 * call.w * blk + ((call.n % 32) * call.w + 7) \div 8
    <2>1. call.n % 32 = call.n - 32 * blk
        BY <1>1, AInvCall, SMT
    <2> QED
        <3>1. 4 * call.w * blk + ((call.n - 32 * blk) * call.w + 7) \div 8 = (call.n * call.w + 7) \div 8
            BY <1>1, AInvCall, ChunkBytes
        <3> QED
            BY <2>1, <3>1, Zenon DEF Required
<1>5. /\ staged \o ChunkTail \in Seq(Int) /\ Spells(staged \o ChunkTail)
      /\ Len(staged \o ChunkTail) = call.n
    <2>1. Len(staged) + Len(ChunkTail) = call.n
        BY <1>2, <1>3
    <2>2. Len(staged) + Len(ChunkTail) <= call.n
        BY <2>1, AInvCall
    <2> QED
        BY <1>1, <1>2, <1>3, <2>1, <2>2, SpellsMore
<1>6. ASSUME call.n % 32 = 0 \/ TailInSlice PROVE call.len >= Required(call)
    <2>1. CASE TailInSlice
        <3>1. Required(call) <= call.len
            BY <1>4, <2>1 DEF TailInSlice
        <3> QED
            BY <3>1
    <2>2. CASE call.n % 32 = 0
        <3>1. 4 * call.w * blk \in Int
            BY <1>1, AInvCall, SMT
        <3>2. (0 * call.w + 7) \div 8 = 0
            BY AInvCall, SMT
        <3>3. Required(call) = 4 * call.w * blk
            BY <1>4, <2>2, <3>1, <3>2
        <3>4. blk > 0
            BY <1>1, <1>3, <2>2, AInvCall, SMT
        <3> QED
            BY <1>3, <3>3, <3>4
    <2> QED
        BY <1>6, <2>1, <2>2
<1>7. CASE call.n % 32 > 0 /\ ~TailInSlice /\ Return("panic", staged)
    <2>1. ~(Required(call) <= call.len)
        BY <1>4, <1>7 DEF TailInSlice
    <2>2. Required(call) \in Int
        BY AInvCall, SMT DEF Required
    <2>3. call.len < Required(call)
        BY <2>1, <2>2, AInvCall
    <2>4. Deserves("panic", staged, bits) /\ "panic" \in Results \ {"none"}
        BY <2>3 DEF Deserves, Results
    <2> QED
        BY <1>1, <1>3, <1>7, <2>4, Returned
<1>8. CASE /\ call.n % 32 = 0 \/ TailInSlice
           /\ call.op # "lookup" /\ Unpacked(staged \o ChunkTail)
    BY <1>1, <1>3, <1>5, <1>6, <1>8, WasUnpacked
<1>9. CASE /\ call.n % 32 = 0 \/ TailInSlice
           /\ call.op = "lookup"
           /\ IF BoundsSafe THEN Return("ok", staged \o Read(call, ChunkTail))
              ELSE Return(IF AllIn(call, ChunkTail) THEN "ok" ELSE "dict",
                          staged \o PushedUpTo(call, ChunkTail))
    <2> DEFINE pushed == IF BoundsSafe THEN Read(call, ChunkTail) ELSE PushedUpTo(call, ChunkTail)
    <2>1. BoundsSafe => Read(call, ChunkTail) = ChunkTail /\ AllIn(call, ChunkTail)
        BY <1>1, <1>2, <1>9, ScalarReads
    <2>2. /\ pushed \in Seq(Int) /\ Len(pushed) <= Len(ChunkTail)
          /\ \A j \in 1 .. Len(pushed) : pushed[j] = ChunkTail[j]
          /\ AllIn(call, ChunkTail) => pushed = ChunkTail
        <3>1. CASE BoundsSafe
            BY <1>2, <2>1, <3>1
        <3>2. CASE ~BoundsSafe
            BY <1>2, <3>2, PushedPrefix
        <3> QED
            BY <3>1, <3>2
    <2>3. Return(IF AllIn(call, ChunkTail) THEN "ok" ELSE "dict", staged \o pushed)
        BY <1>9, <2>1
    <2> HIDE DEF pushed
    <2>4. Len(staged) + Len(pushed) <= call.n
        BY <1>1, <1>2, <1>3, <2>2, AInvCall
    <2>5. \A j \in 1 .. Len(pushed) : pushed[j] = (Len(staged) + j - 1) * call.w
        <3> SUFFICES ASSUME NEW j \in 1 .. Len(pushed)
                     PROVE  pushed[j] = (32 * blk + j - 1) * call.w
            BY <1>3
        <3>1. j \in 1 .. Len(ChunkTail)
            BY <1>2, <2>2
        <3> QED
            BY <1>2, <2>2, <3>1
    <2>6. staged \o pushed \in Seq(Int) /\ Spells(staged \o pushed)
        BY <1>1, <1>3, <2>2, <2>4, <2>5, SpellsMore
    <2>7. CASE AllIn(call, ChunkTail)
        <3>1. Return("ok", staged \o pushed) /\ pushed = ChunkTail
            BY <2>2, <2>3, <2>7
        <3>2. Checked(staged \o pushed)
            BY <1>1, <1>2, <1>3, <2>7, <3>1, CheckedMore
        <3>3. ~BadIndex(call)
            BY <1>5, <1>9, <2>6, <3>1, <3>2, AllSpelled
        <3>4. Deserves("ok", staged \o pushed, bits) /\ "ok" \in Results \ {"none"}
            BY <1>5, <1>6, <1>9, <3>1, <3>3 DEF Deserves, Results
        <3> QED
            BY <2>6, <3>1, <3>4, Returned
    <2>8. CASE ~AllIn(call, ChunkTail)
        <3>1. Return("dict", staged \o pushed)
            BY <2>3, <2>8
        <3>2. 32 * blk \in Nat /\ 32 * blk + Len(ChunkTail) <= call.n
            <4>1. 32 * blk \in Nat
                BY <1>1
            <4>2. 32 * blk + Len(ChunkTail) <= call.n
                BY <1>2, AInvCall
            <4> QED
                BY <4>1, <4>2
        <3>3. BadIndex(call)
            BY <1>2, <2>8, <3>2, OneBad
        <3>4. Deserves("dict", staged \o pushed, bits) /\ "dict" \in Results \ {"none"}
            BY <1>9, <3>3 DEF Deserves, Results
        <3> QED
            BY <2>6, <3>1, <3>4, Returned
    <2> QED
        BY <2>7, <2>8
<1> QED
    BY <1>7, <1>8, <1>9 DEF UnpackChunkTail

LEMMA InitAnswer == Init => AInv
<1> SUFFICES ASSUME Init PROVE AInv
    OBVIOUS
<1>1. /\ call \in Calls /\ pc = "enter" /\ blk = 0 /\ result = "none"
      /\ staged = <<>> /\ out = <<>> /\ bits = {} /\ call.n \in Nat
    BY CallsAssumption DEF Init, Call
<1>2. Lists
    BY <1>1 DEF Lists, States
<1>3. Unpacking
    BY <1>1 DEF Unpacking
<1>4. out = SubSeq(Reference(call), 1, Len(out)) /\ Len(out) <= call.n
    <2>1. SubSeq(Reference(call), 1, 0) = <<>>
        OBVIOUS
    <2> QED
        BY <1>1, <2>1
<1>5. AnswerIsReference
    BY <1>1, <1>4 DEF AnswerIsReference
<1>6. OutcomeDeserved
    BY <1>1 DEF OutcomeDeserved
<1> QED
    BY <1>2, <1>3, <1>5, <1>6 DEF AInv

LEMMA NextAnswer ==
    ASSUME AInv, KernelsExact, [Next]_vars PROVE AInv'
<1>1. CASE UNCHANGED vars
    <2>1. Lists'
        BY <1>1 DEF AInv, Lists, vars
    <2>2. AfterBlocks => AfterBlocks'
        BY <1>1 DEF vars, AfterBlocks, Required, Safe, Arm, Fused, Spells, Checked,
                    InDict, Index, IsTop
    <2>3. AfterChunks => AfterChunks'
        BY <1>1 DEF vars, AfterChunks, Fused, Spells, Checked, InDict, Index, IsTop
    <2>4. HasKernel(call)' = HasKernel(call) /\ Fused(call)' = Fused(call)
        BY <1>1 DEF vars, HasKernel, Fused, Arm
    <2>5. Unpacking'
        BY <1>1, <2>2, <2>3, <2>4 DEF AInv, vars, Unpacking, Spells, Required
    <2>6. AnswerIsReference'
        BY <1>1 DEF AInv, vars, AnswerIsReference, Reference
    <2>7. OutcomeDeserved'
        BY <1>1 DEF AInv, vars, OutcomeDeserved, Required, BadIndex, InDict, Index, IsTop
    <2> QED
        BY <2>1, <2>5, <2>6, <2>7 DEF AInv
<1> QED
    BY <1>1, IndicesAnswer, LookupAnswer, Indices64Answer, FusedAnswer, PackAnswer,
       ChecksAnswer, UnpackBlockAnswer, LookupBlockAnswer, PredicateBlockAnswer,
       KernelTailAnswer, ChunkAnswer, ChunkTailAnswer DEF Next

-----------------------------------------------------------------------------
(* Whatever build bitpack.rs dispatches to and wherever its blocks end,    *)
(* unpack_indices_into, unpack_lookup_into, unpack_indices64_into and      *)
(* fused_bitmap_chunk decode the one stream: for any number of values,     *)
(* slice and dictionary, given tables whose lanes are in order.            *)
THEOREM OneStream == KernelsExact => (Spec => []AnswerIsReference)
<1> SUFFICES ASSUME KernelsExact PROVE Spec => []AnswerIsReference
    OBVIOUS
<1>1. AInv => AnswerIsReference
    BY DEF AInv
<1> QED
    BY <1>1, InitAnswer, NextAnswer, PTL DEF Spec

(* unpack_indices_into and the others refuse a call only for what is wrong *)
(* with it, and accept none whose slice or dictionary is too short.        *)
THEOREM RefusedForCause == KernelsExact => (Spec => []OutcomeDeserved)
<1> SUFFICES ASSUME KernelsExact PROVE Spec => []OutcomeDeserved
    OBVIOUS
<1>1. AInv => OutcomeDeserved
    BY DEF AInv
<1> QED
    BY <1>1, InitAnswer, NextAnswer, PTL DEF Spec
=============================================================================
