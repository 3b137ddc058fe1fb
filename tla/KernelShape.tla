---------------------------- MODULE KernelShape ----------------------------
(***************************************************************************)
(* The vocabulary in which the SIMD bit-unpacking kernels of               *)
(* bitpack_neon.rs and bitpack_avx2.rs are written down.                   *)
(*                                                                         *)
(* Data is symbolic.  A register lane is the record [bit, held]: its       *)
(* lowest bit is bit number `bit` of the block's source bytes, and above   *)
(* it come `held` consecutive source bits (what a shift left over).  A     *)
(* w-bit mask turns a lane into the w-bit value that starts at `bit` when  *)
(* held >= w, and into garbage otherwise.  Value i of a packed stream is   *)
(* the one that starts at bit i*w, so a value is named by its first bit.   *)
(*                                                                         *)
(* A kernel is what its loop does to one block: the byte ranges it loads,  *)
(* relative to src_ptr, the lanes it stores in order, and how far it       *)
(* advances src_ptr.                                                       *)
(***************************************************************************)
EXTENDS Integers, Sequences

Garbage == -1

NoLanes == [reads |-> {}, lanes |-> <<>>]

(* A 16-byte load at src_ptr + off, shuffled so that lane j holds the      *)
(* `size` bytes from byte starts[j] on, each lane shifted right.           *)
Shuffled(size, off, starts, shifts) ==
    [reads |-> {<<off, 16>>},
     lanes |-> [j \in DOMAIN starts |->
                  [bit  |-> 8 * (off + starts[j]) + shifts[j],
                   held |-> IF starts[j] + size <= 16
                            THEN 8 * size - shifts[j] ELSE 0]]]

(* Lane j is assembled from `size` single bytes at src_ptr + offsets[j].   *)
Gathered(size, offsets, shifts) ==
    [reads |-> {<<offsets[j], size>> : j \in DOMAIN offsets},
     lanes |-> [j \in DOMAIN offsets |->
                  [bit  |-> 8 * offsets[j] + shifts[j],
                   held |-> 8 * size - shifts[j]]]]

(* A load of `bytes` bytes at src_ptr + off, split into w-bit elements and *)
(* widened to 32 bits.                                                     *)
Widened(w, off, bytes) ==
    [reads |-> {<<off, bytes>>},
     lanes |-> [j \in 1 .. (8 * bytes) \div w |->
                  [bit |-> 8 * off + w * (j - 1), held |-> w]]]

(* Every byte of a load of `bytes` bytes, shifted right.                   *)
Fields(bytes, shift) ==
    [reads |-> {<<0, bytes>>},
     lanes |-> [j \in 1 .. bytes |->
                  [bit |-> 8 * (j - 1) + shift, held |-> 8 - shift]]]

(* One single-byte load per byte; lane j of a byte tests the bit shifts[j].*)
TestedBits(bytes, shifts) ==
    [reads |-> {<<b, 1>> : b \in 0 .. bytes - 1},
     lanes |-> [j \in 1 .. bytes * Len(shifts) |->
                  [bit  |-> 8 * ((j - 1) \div Len(shifts))
                              + shifts[((j - 1) % Len(shifts)) + 1],
                   held |-> 1]]]

(* The zip1/zip2 (unpacklo/unpackhi) pair: alternate units of `unit`       *)
(* elements of a and of b.                                                 *)
Zip(unit, a, b) ==
    [reads |-> a.reads \cup b.reads,
     lanes |-> [j \in 1 .. 2 * Len(a.lanes) |->
                  LET u   == (j - 1) \div unit
                      src == IF u % 2 = 0 THEN a.lanes ELSE b.lanes
                  IN  src[(u \div 2) * unit + ((j - 1) % unit) + 1]]]

Then(a, b) == [reads |-> a.reads \cup b.reads, lanes |-> a.lanes \o b.lanes]

Kernel(w, stride, block) ==
    [w |-> w, stride |-> stride, reads |-> block.reads, lanes |-> block.lanes]

BlockSize(k) == Len(k.lanes)

(* Block blk of a kernel, as the values it stores.                         *)
BlockValues(k, blk) ==
    [j \in 1 .. BlockSize(k) |->
       IF k.lanes[j].held >= k.w
       THEN 8 * k.stride * blk + k.lanes[j].bit ELSE Garbage]

(* How many of `full` blocks a function lets its kernel run on a slice of  *)
(* len bytes.  Exact: all.  DropOne(r): all if the last block's r bytes    *)
(* fit behind the others, else all but one.  Fit(k): a division.           *)
Exact      == [rule |-> "exact",   by |-> 0]
DropOne(r) == [rule |-> "dropone", by |-> r]
Fit(k)     == [rule |-> "fit",     by |-> k]

(* A planted bug: the last block is kept when all but one of its bytes fit.*)
SafeBlocks_ByteShort(rule, stride, full, len) ==
    CASE rule.rule = "exact"   -> full
      [] rule.rule = "dropone" ->
           IF full = 0 \/ len >= stride * (full - 1) + rule.by - 1
           THEN full ELSE full - 1
      [] rule.rule = "fit"     ->
           IF len < 16 THEN 0
           ELSE IF (len - rule.by) \div stride < full
                THEN (len - rule.by) \div stride ELSE full

SafeBlocks(rule, stride, full, len) ==
    CASE rule.rule = "exact"   -> full
      [] rule.rule = "dropone" ->
           IF full = 0 \/ len >= stride * (full - 1) + rule.by
           THEN full ELSE full - 1
      [] rule.rule = "fit"     ->
           IF len < 16 THEN 0
           ELSE IF (len - rule.by) \div stride < full
                THEN (len - rule.by) \div stride ELSE full

(* The streaming bit buffer of the scalar tails: `count` w-bit values from *)
(* byte `from` on, through an accumulator of acc bits that holds up to     *)
(* w - 1 bits of the previous byte when it takes in the next.              *)
scalar_bw_n(w, acc, from, count) ==
    [i \in 1 .. count |->
       IF w + 7 <= acc THEN 8 * from + (i - 1) * w ELSE Garbage]

(* The three families of functions around a kernel.  `above`: the lookup   *)
(* skips its index checks for a larger dictionary.  `need`: the smallest   *)
(* dict_mask a fused predicate accepts.                                    *)
Unpack(kernel, rule)        == [kind |-> "indices", kernel |-> kernel,
                                rule |-> rule, arg |-> 0]
Lookup(kernel, rule, above) == [kind |-> "lookup", kernel |-> kernel,
                                rule |-> rule, arg |-> above]
Predicate(kernel, rule, need) == [kind |-> "predicate", kernel |-> kernel,
                                  rule |-> rule, arg |-> need]
Scalar == Unpack(Kernel(0, 0, NoLanes), Exact)
AlwaysChecked == 2147483647
=============================================================================
