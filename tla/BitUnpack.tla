----------------------------- MODULE BitUnpack ------------------------------
(***************************************************************************)
(* One call of a bit-unpacking entry point: unpack_indices_into,           *)
(* unpack_lookup_into and unpack_indices64_into of bitpack.rs and          *)
(* fused_bitmap_chunk of dict.rs, on the three builds they dispatch to     *)
(* ("neon", "avx2", and "scalar" for a processor with neither).            *)
(*                                                                         *)
(* A call is n values of w bits in a slice of len bytes.  The values whose *)
(* position is in `big` hold the largest w-bit index, all others hold 0,   *)
(* so a dictionary of 2^w - 1 entries is too short for exactly those.      *)
(* out is what the caller's Vec holds: each element is named by the bit of *)
(* the stream it was decoded from (KernelShape).  bits is the bitmap of a  *)
(* predicate whose dict_mask selects the largest index only.  staged is    *)
(* what has been written behind the length of the Vec, before set_len.     *)
(***************************************************************************)
EXTENDS NeonKernels, Avx2Kernels, FiniteSets

CONSTANT Calls

Call == [op   : {"indices", "lookup", "bitmap", "indices64"},
         arch : {"neon", "avx2", "scalar"},
         w : Nat, n : Nat, len : Nat, dict : Nat, big : SUBSET Nat]

\* An index of no bits is 0, in every row.
ASSUME CallsAssumption == \A c \in Calls : c \in Call /\ (c.op = "bitmap" /\ c.w = 0 => c.big = {})

(* True of every width; the provers know nothing of exponents.             *)
ASSUME PowerAssumption ==
    \A c \in Calls : c.op = "lookup" /\ c.w <= 32 => 2 ^ c.w > 0

VARIABLES call, pc, blk, staged, out, bits, result
vars == <<call, pc, blk, staged, out, bits, result>>

Wild == -2          \* an element read behind the dictionary

(* ---- which function runs ---- *)

FusedWidths == {12, 14, 15, 16, 17, 18}
Fused(c) == c.op = "bitmap" /\ c.arch # "scalar" /\ c.w \in FusedWidths

Arm(c) ==
    CASE c.arch = "scalar" \/ c.op = "indices64" -> Scalar
      [] c.arch = "neon" /\ c.op = "lookup" ->
           IF c.w <= 21 THEN NeonLookups[c.w] ELSE Scalar
      [] c.arch = "avx2" /\ c.op = "lookup" ->
           IF c.w <= 21 THEN Avx2Lookups[c.w] ELSE Scalar
      [] c.arch = "neon" /\ Fused(c) -> NeonPredicates[c.w]
      [] c.arch = "avx2" /\ Fused(c) -> Avx2Predicates[c.w]
      [] c.arch = "neon" /\ c.op # "lookup" /\ ~Fused(c) -> NeonIndices[c.w]
      [] c.arch = "avx2" /\ c.op # "lookup" /\ ~Fused(c) -> Avx2Indices[c.w]

Required(c) == (c.n * c.w + 7) \div 8
Safe(c) == LET e == Arm(c)
           IN  SafeBlocks(e.rule, e.kernel.stride,
                          c.n \div BlockSize(e.kernel), c.len)

(* ---- what a value is ---- *)

IsTop(c, p) == c.w > 0 /\ p \div c.w \in c.big
Index(c, p) == IF IsTop(c, p) THEN 2 ^ c.w - 1 ELSE 0
InDict(c, p) == Index(c, p) < c.dict

Read(c, v) == [i \in DOMAIN v |-> IF InDict(c, v[i]) THEN v[i] ELSE Wild]
AllIn(c, v) == \A i \in DOMAIN v : InDict(c, v[i])

(* The elements a checked loop pushes before it meets a bad index.         *)
PushedUpTo(c, v) ==
    SubSeq(v, 1, Cardinality({i \in DOMAIN v :
                                \A j \in 1 .. i : InDict(c, v[j])}))

Marked(c, v, first) == {first + i - 1 : i \in {j \in DOMAIN v : IsTop(c, v[j])}}

(* ---- how a call ends ---- *)

Return(r, o) ==
    /\ pc' = "done" /\ result' = r /\ out' = o
    /\ UNCHANGED <<call, blk, staged, bits>>

Unpacked(o) ==
    IF call.op = "bitmap" /\ ~Fused(call)
    THEN pc' = "pack" /\ out' = o /\ UNCHANGED <<call, blk, staged, bits, result>>
    ELSE Return("ok", o)

Goto(label) == pc' = label /\ UNCHANGED <<call, blk, staged, out, bits, result>>

(* ---- entry points ---- *)

unpack_indices_into ==
    /\ pc = "enter" /\ call.op \in {"indices", "bitmap"} /\ ~Fused(call)
    /\ \/ call.w > 32 /\ Return("width", out)
       \/ /\ call.w <= 32 /\ (call.n = 0 \/ call.w = 0)
          /\ Unpacked([i \in 1 .. call.n |-> 0])
       \/ /\ call.w \in 1 .. 32 /\ call.n > 0
          /\ Goto(IF Arm(call) = Scalar THEN "chunk" ELSE "kernel")

unpack_lookup_into ==
    /\ pc = "enter" /\ call.op = "lookup"
    /\ \/ call.w > 32 /\ Return("width", out)
       \/ call.w <= 32 /\ call.n = 0 /\ Return("ok", out)
       \/ /\ call.w = 0 /\ call.n > 0
          /\ IF call.dict = 0 THEN Return("dict", out)
             ELSE Return("ok", [i \in 1 .. call.n |-> 0])
       \/ /\ call.w \in 1 .. 32 /\ call.n > 0
          /\ Goto(IF Arm(call) = Scalar THEN "chunk" ELSE "kernel")

unpack_indices64_into ==
    /\ pc = "enter" /\ call.op = "indices64"
    /\ \/ call.w > 64 /\ Return("width", out)
       \/ /\ call.w <= 64 /\ (call.n = 0 \/ call.w = 0)
          /\ Return("ok", [i \in 1 .. call.n |-> 0])
       \/ call.w \in 1 .. 64 /\ call.n > 0 /\ Goto("chunk")

fused_bitmap_chunk == pc = "enter" /\ Fused(call) /\ Goto("kernel")

(* ---- a function with a kernel: checks, whole blocks, tail ---- *)

StartBlocks_Strict ==
    IF call.len <= Required(call) THEN Return("short", out) ELSE Goto("block")

StartBlocks ==
    IF call.len < Required(call) THEN Return("short", out) ELSE Goto("block")

CheckUnpack == pc = "kernel" /\ Arm(call).kind = "indices" /\ StartBlocks

CheckLookup ==
    /\ pc = "kernel" /\ Arm(call).kind = "lookup"
    /\ IF call.dict = 0 THEN Return("dict", out) ELSE StartBlocks

CheckPredicate ==
    /\ pc = "kernel" /\ Arm(call).kind = "predicate"
    /\ IF call.dict < Arm(call).arg THEN Return("mask", out)
       ELSE IF call.n = 0 THEN Return("ok", out) ELSE StartBlocks

InBlock(kind) == pc = "block" /\ blk < Safe(call) /\ Arm(call).kind = kind
Block == BlockValues(Arm(call).kernel, blk)

Stage(v) == /\ staged' = staged \o v /\ blk' = blk + 1
            /\ UNCHANGED <<call, pc, out, bits, result>>

UnpackBlock == InBlock("indices") /\ Stage(Block)

LookupBlock_AtTop ==
    /\ InBlock("lookup")
    /\ \/ call.dict >= Arm(call).arg /\ Stage(Read(call, Block))
       \/ call.dict < Arm(call).arg /\ AllIn(call, Block) /\ Stage(Block)
       \/ /\ call.dict < Arm(call).arg /\ ~AllIn(call, Block)
          /\ Return("dict", out)

(* The sink of a lookup.  A bad index leaves through `?`, before set_len.  *)
LookupBlock ==
    /\ InBlock("lookup")
    /\ \/ call.dict > Arm(call).arg /\ Stage(Read(call, Block))
       \/ call.dict <= Arm(call).arg /\ AllIn(call, Block) /\ Stage(Block)
       \/ /\ call.dict <= Arm(call).arg /\ ~AllIn(call, Block)
          /\ Return("dict", out)

PredicateBlock ==
    /\ InBlock("predicate")
    /\ bits' = bits \cup Marked(call, Block, 8 * blk)
    /\ blk' = blk + 1 /\ UNCHANGED <<call, pc, staged, out, result>>

Processed == Safe(call) * BlockSize(Arm(call).kernel)
\* after all the blocks, those its rule dropped included
TailValues_AllBlocks ==
    LET blocks == call.n \div BlockSize(Arm(call).kernel)
    IN  scalar_bw_n(call.w, 64, (blocks * BlockSize(Arm(call).kernel) * call.w) \div 8,
                    call.n - Processed)

TailValues == scalar_bw_n(call.w, 64, (Processed * call.w) \div 8,
                          call.n - Processed)
BlocksDone(kind) == pc = "block" /\ blk = Safe(call) /\ Arm(call).kind = kind

UnpackTail == BlocksDone("indices") /\ Unpacked(staged \o TailValues)

LookupTail ==
    /\ BlocksDone("lookup")
    /\ Return(IF AllIn(call, TailValues) THEN "ok" ELSE "dict",
              staged \o PushedUpTo(call, TailValues))

PredicateTail ==
    /\ BlocksDone("predicate")
    /\ bits' = bits \cup Marked(call, TailValues, Processed)
    /\ pc' = "done" /\ result' = "ok"
    /\ UNCHANGED <<call, blk, staged, out>>

(* ---- the const-generic scalar workers: chunks of 32, tail ---- *)

Acc == IF call.op = "indices64" THEN 128 ELSE 64
BoundsSafe == IF call.op = "lookup" THEN 2 ^ call.w - 1 < call.dict ELSE TRUE

ChunkValues == [i \in 1 .. 32 |->
    IF call.w + (((i - 1) * call.w) % 8) <= Acc
    THEN 32 * call.w * blk + (i - 1) * call.w ELSE Garbage]

InChunk == pc = "chunk" /\ blk < call.n \div 32
ChunkInSlice == 4 * call.w * (blk + 1) <= call.len

(* A slice that ends inside a chunk panics before anything is committed;   *)
(* a bad index commits the chunks before its own.                          *)
UnpackChunk ==
    /\ InChunk
    /\ \/ ~ChunkInSlice /\ Return("panic", out)
       \/ /\ ChunkInSlice /\ BoundsSafe
          /\ Stage(IF call.op = "lookup" THEN Read(call, ChunkValues)
                   ELSE ChunkValues)
       \/ /\ ChunkInSlice /\ ~BoundsSafe /\ AllIn(call, ChunkValues)
          /\ Stage(ChunkValues)
       \/ /\ ChunkInSlice /\ ~BoundsSafe /\ ~AllIn(call, ChunkValues)
          /\ Return("dict", staged)

ChunkTail == scalar_bw_n(call.w, Acc, 4 * call.w * blk, call.n % 32)
TailInSlice == 4 * call.w * blk + ((call.n % 32) * call.w + 7) \div 8 <= call.len

UnpackChunkTail ==
    /\ pc = "chunk" /\ blk = call.n \div 32
    /\ \/ call.n % 32 > 0 /\ ~TailInSlice /\ Return("panic", staged)
       \/ (call.n % 32 = 0 \/ TailInSlice) /\ call.op # "lookup"
          /\ Unpacked(staged \o ChunkTail)
       \/ /\ call.n % 32 = 0 \/ TailInSlice
          /\ call.op = "lookup"
          /\ IF BoundsSafe THEN Return("ok", staged \o Read(call, ChunkTail))
             ELSE Return(IF AllIn(call, ChunkTail) THEN "ok" ELSE "dict",
                         staged \o PushedUpTo(call, ChunkTail))

(* The portable half of fused_bitmap_chunk.                                *)
PackBits ==
    /\ pc = "pack"
    /\ bits' = Marked(call, out, 0)
    /\ pc' = "done" /\ result' = "ok"
    /\ UNCHANGED <<call, blk, staged, out>>

Init ==
    /\ call \in Calls
    /\ pc = "enter" /\ blk = 0 /\ result = "none"
    /\ staged = <<>> /\ out = <<>> /\ bits = {}

Next ==
    \/ unpack_indices_into \/ unpack_lookup_into \/ unpack_indices64_into
    \/ fused_bitmap_chunk \/ PackBits
    \/ CheckUnpack \/ CheckLookup \/ CheckPredicate
    \/ UnpackBlock \/ LookupBlock \/ PredicateBlock
    \/ UnpackTail \/ LookupTail \/ PredicateTail
    \/ UnpackChunk \/ UnpackChunkTail

Spec == Init /\ [][Next]_vars

-----------------------------------------------------------------------------
(* What a table entry must satisfy for the code around it to be right: it  *)
(* belongs to the entry point that uses it, its stride is one block of     *)
(* values, and unchecked lookups start where no w-bit index is too large;  *)
Lane == [bit : Nat, held : Int]

Kind(c) == IF c.op = "lookup" THEN "lookup" ELSE IF Fused(c) THEN "predicate" ELSE "indices"

Aligned(c, e) ==
    /\ e.kernel.stride \in Nat \ {0} /\ e.kernel.lanes \in Seq(Lane)
    /\ e.kernel.w = c.w /\ 8 * e.kernel.stride = c.w * BlockSize(e.kernel)
    /\ e.rule.rule \in {"exact", "dropone", "fit"} /\ e.rule.by \in Nat
    /\ e.kind = Kind(c) /\ (e.kind = "predicate" => BlockSize(e.kernel) = 8)
    /\ e.kind = "lookup" => e.arg \in Nat /\ e.arg >= 2 ^ c.w - 1

(* the loads of the last block its rule keeps end within the bytes the     *)
(* rule asks for (or within the blocks it drops);                          *)
Reach(e, r) ==
    /\ r[1] \in Nat /\ r[2] \in Nat
    /\ CASE e.rule.rule = "exact"   -> r[1] + r[2] <= e.kernel.stride
         [] e.rule.rule = "dropone" -> /\ r[1] + r[2] <= e.rule.by
                                       /\ r[1] + r[2] <= 2 * e.kernel.stride
         [] e.rule.rule = "fit"     -> r[1] + r[2] <= e.rule.by + e.kernel.stride

Sound(c, e) == Aligned(c, e) /\ \A r \in e.kernel.reads : Reach(e, r)

(* and its lanes are the values of a block in order, each whole.           *)
InOrder(e) ==
    \A j \in DOMAIN e.kernel.lanes :
        /\ e.kernel.lanes[j].bit = (j - 1) * e.kernel.w
        /\ e.kernel.lanes[j].held >= e.kernel.w

HasKernel(c) == Fused(c) \/ (c.w \in 1 .. 32 /\ Arm(c) # Scalar)
KernelsSound == \A c \in Calls : HasKernel(c) => Sound(c, Arm(c))
KernelsExact == \A c \in Calls : HasKernel(c) => Aligned(c, Arm(c)) /\ InOrder(Arm(c))

(* The kernels load whole registers and the values they need end earlier;  *)
(* safe_full_blocks exists so that no load passes the end of the slice.    *)
(* Every load of a block about to run lies inside the len bytes given.     *)
LoadsInPacked ==
    pc = "block" /\ blk < Safe(call) =>
        \A r \in Arm(call).kernel.reads :
            blk * Arm(call).kernel.stride + r[1] + r[2] <= call.len

(* Above a width-specific dictionary size the lookups gather through raw   *)
(* pointers with no index check.  No element is ever read behind the       *)
(* dictionary, whichever build and path runs.                              *)
GathersInDict ==
    /\ \A i \in DOMAIN staged : staged[i] # Wild
    /\ \A i \in DOMAIN out : out[i] # Wild

Reference(c) == [i \in 1 .. c.n |-> (i - 1) * c.w]

(* Three builds, 32 widths, blocks of 8 or 32, dropped blocks and tails    *)
(* decode one stream: whatever a call has pushed, also when it then fails, *)
(* is a prefix of the values in order, a call that succeeds has pushed     *)
(* them all, and a bitmap has exactly the bits of the selected rows.       *)
AnswerIsReference ==
    /\ Len(out) <= call.n /\ out = SubSeq(Reference(call), 1, Len(out))
    /\ result = "ok" /\ call.op # "bitmap" => Len(out) = call.n
    /\ result = "ok" /\ call.op = "bitmap" =>
         bits = call.big \cap (0 .. call.n - 1)

(* An answer or a refusal is deserved: "ok" only if every byte needed was  *)
(* there and every index had an entry; a dictionary error only if one had  *)
(* not; "short", and the scalar builds' slice panic, only if bytes were    *)
(* missing.                                                                *)
BadIndex(c) == \E i \in 0 .. c.n - 1 : ~InDict(c, i * c.w)
OutcomeDeserved ==
    /\ result = "ok" => /\ call.w > 0 => call.len >= Required(call)
                        /\ call.op = "lookup" => ~BadIndex(call)
    /\ result = "dict" => call.op = "lookup" /\ BadIndex(call)
    /\ result \in {"short", "panic"} => call.len < Required(call)
    /\ result = "width" => call.w > 32

TypeOK ==
    /\ call \in Call /\ blk \in Nat /\ bits \in SUBSET Nat
    /\ pc \in {"enter", "kernel", "block", "chunk", "pack", "done"}
    /\ result \in {"none", "ok", "width", "dict", "mask", "short", "panic"}
    /\ \A s \in {staged, out} : \A i \in DOMAIN s : s[i] \in Int
=============================================================================
