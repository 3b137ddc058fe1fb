------------------------------- MODULE HybridRle -------------------------------
(***************************************************************************)
(* The bytes of the RLE / bit-packed hybrid (ematix-parquet-codec/src/     *)
(* rle.rs) and of its varint headers (ematix-parquet-format/src/           *)
(* compact.rs): what the writer's helpers append, and what the readers     *)
(* take back from a position of the page.                                  *)
(*                                                                         *)
(* A byte has Octet bits.  The code's bytes have 8, a group is 8 values,   *)
(* and a varint byte carries 8 - 1 payload bits: one constant scales the   *)
(* three.  A byte string is a sequence of numbers below 2^Octet.           *)
(***************************************************************************)
EXTENDS Integers, Sequences, FiniteSets, FiniteSetsExt

CONSTANTS
  Octet,        \* bits in a byte = values in a group; 8 in the code
  VarintBytes   \* read_uvarint gives up after this many bytes; 10 in the code

ASSUME OctetAssumption == Octet \in Nat \ {0, 1}
ASSUME VarintBytesAssumption == VarintBytes \in Nat \ {0}

Groups(n) == (n + Octet - 1) \div Octet

-----------------------------------------------------------------------------
(* Numbers and their digits of w bits, the least significant first.        *)

Pow2(b) ==
  LET pow[k \in 0..b] == IF k = 0 THEN 1 ELSE 2 * pow[k - 1]
  IN  pow[b]

Digit(v, w, k) == (v \div Pow2(w * k)) % Pow2(w)

FromDigits(digits, w) ==
  LET sum[k \in 0..Len(digits)] ==
        IF k = 0 THEN 0 ELSE sum[k - 1] + digits[k] * Pow2(w * (k - 1))
  IN  sum[Len(digits)]

(* A planted bug: the logarithm of n, rounded down.                        *)
MinBitWidth_Floor(n) ==
  IF n <= 1 THEN 0 ELSE CHOOSE w \in 1..n : Pow2(w) <= n /\ n < Pow2(w + 1)

(* The width of the indices of a dictionary of n entries: the bits of      *)
(* n - 1.                                                                  *)
MinBitWidth(n) ==
  IF n <= 1 THEN 0 ELSE CHOOSE w \in 1..n : Pow2(w - 1) <= n - 1 /\ n - 1 < Pow2(w)

-----------------------------------------------------------------------------
(* Varints: the continuation bit is the top bit of a byte.                 *)

PayloadBits == Octet - 1
Payload == Pow2(PayloadBits)

Uvarint(v) ==
  LET len == CHOOSE n \in 1..(v + 1) :
               v < Pow2(PayloadBits * n) /\ (n = 1 \/ v >= Pow2(PayloadBits * (n - 1)))
  IN  [k \in 1..len |-> Digit(v, PayloadBits, k - 1) + (IF k < len THEN Payload ELSE 0)]

(* The number of bytes of the varint at s[at]; 0 where read_uvarint fails: *)
(* the string ends inside it, or it goes on for too long.                  *)
UvarintLen(s, at) ==
  LET ends == {k \in 1..VarintBytes : at + k - 1 <= Len(s) /\ s[at + k - 1] < Payload}
  IN  IF ends = {} THEN 0 ELSE Min(ends)

UvarintAt(s, at) ==
  FromDigits([k \in 1..UvarintLen(s, at) |-> s[at + k - 1] % Payload], PayloadBits)

-----------------------------------------------------------------------------
(* Little-endian values and LSB-first bit packing.                         *)

BytesFor(bits) == (bits + Octet - 1) \div Octet

LittleEndian(v, width) == [k \in 1..BytesFor(width) |-> Digit(v, Octet, k - 1)]

LittleEndianAt(chunk) == FromDigits(chunk, Octet)

(* Bit p, from 0, of the numbers of s laid end to end with w bits each.    *)
Bit(s, w, p) == Digit(s[(p \div w) + 1], 1, p % w)

(* The first n numbers of `to' bits that those bits make up.               *)
Regroup(s, from, to, n) ==
  [j \in 1..n |-> FromDigits([b \in 1..to |-> Bit(s, from, (j - 1) * to + b - 1)], 1)]

PackedBytes(vals, width) == (Len(vals) \div Octet) * width

(* A planted bug: the most significant bit of a value goes first.          *)
PackLsbFirst_MsbFirst(vals, width) ==
  LET reversed == [k \in DOMAIN vals |->
                     FromDigits([b \in 1..width |-> Digit(vals[k], 1, width - b)], 1)]
  IN  Regroup(reversed, width, Octet, PackedBytes(vals, width))

PackLsbFirst(vals, width) == Regroup(vals, width, Octet, PackedBytes(vals, width))

(* The first n values of a packed run.                                     *)
Unpack(chunk, n, width) == Regroup(chunk, Octet, width, n)

PadTo(vals, n) == [k \in 1..n |-> IF k <= Len(vals) THEN vals[k] ELSE 0]

PackedRun(vals, width) ==
  Uvarint(2 * (Len(vals) \div Octet) + 1) \o PackLsbFirst(vals, width)

RleRun(v, count, width) == Uvarint(2 * count) \o LittleEndian(v, width)

(* encode_rle_bit_packed_single_run: everything in one packed run.         *)
SingleRun(indices, width) ==
  IF indices = <<>> THEN <<>>
  ELSE IF width = 0 THEN Uvarint(2 * Len(indices))
  ELSE PackedRun(PadTo(indices, Groups(Len(indices)) * Octet), width)
=============================================================================
