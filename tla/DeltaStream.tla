----------------------------- MODULE DeltaStream -----------------------------
(***************************************************************************)
(* The DELTA_BINARY_PACKED decoders and the two byte-array decoders built  *)
(* on them.  A payload is a sequence of units: a varint, a width byte, a   *)
(* body byte of a mini-block (which knows the mini-block it is part of),   *)
(* a data byte.  The writer is any that follows the format's description.  *)
(***************************************************************************)
EXTENDS IntWidths

CONSTANTS
  Payloads,   \* what is decoded (see Payload)
  Octet,      \* bits of a body byte: 8 in the code
  MaxMinis    \* the size of the bit_widths array: 64 in the code

VARIABLES
  payload,    \* what was written: kind, streams, data bytes, units lost at the end
  units,      \* and what the decoder is given
  dpc,        \* "rest", "header", "block", "mini", "data", "done", "failed"
  cursor,     \* units taken
  open,       \* the stream being decoded
  lengths,    \* the streams decoded
  values      \* the byte arrays

deltaVars == <<payload, units, dpc, cursor, open, lengths, values>>

NoStream == [minis |-> 0, size |-> 0, remaining |-> 0, prev |-> 0, min |-> 0,
             widths |-> << >>, out |-> << >>]
NoPayload == [kind |-> "none", streams |-> << >>, data |-> << >>, cut |-> 0]

BytesOf(kind) == IF kind = "i64" THEN 8 ELSE 4
Wide == BytesOf(payload.kind)

-----------------------------------------------------------------------------
(* The writer: deltas wrap in the width of the values, each block stores   *)
(* its least delta and what each delta has above it, in mini-blocks of the *)
(* least width that holds them.  A mini-block that holds no value has no   *)
(* body, and whatever byte for its width.  Of a shape that the format does *)
(* not allow there is a header and a varint.                               *)
Unit(is, v) == [is |-> is, v |-> v, at |-> 0, of |-> << >>]
Least(S) == CHOOSE x \in S : \A y \in S : x <= y

Shaped(shape) ==
  /\ shape.minis \in 1..MaxMinis /\ shape.block > 0
  /\ shape.block % (shape.minis * Octet) = 0

Body(vals, width) ==
  [b \in 1..((Len(vals) * width) \div Octet) |->
     [is |-> "body", v |-> width, at |-> b, of |-> vals]]

Header(s) ==
  <<Unit("varint", s.shape.block), Unit("varint", s.shape.minis), Unit("varint", Len(s.ints)),
    Unit("varint", IF s.ints = << >> THEN 0 ELSE s.ints[1])>>

(* What pieces laid end to end hold behind the first n of them.            *)
Behind(pieces, n) ==
  LET seqs == << >> \o pieces
      last[r \in 0..Len(seqs)] == IF r = 0 THEN << >> ELSE seqs[Len(seqs) - r + 1] \o last[r - 1]
  IN  last[Len(seqs) - n]

Size(shape) == shape.block \div shape.minis
Slot(shape, k, m, j) == ((k - 1) * shape.block) + ((m - 1) * Size(shape)) + j
Used(s, k, m) == Slot(s.shape, k, m, 1) < Len(s.ints)

Delta(s, bytes, i) == As(s.ints[i + 1] - s.ints[i], Signed(bytes))
InBlock(s, k) == {i \in 1..(Len(s.ints) - 1) : (i - 1) \div s.shape.block = k - 1}
Base(s, bytes, k) == Least({Delta(s, bytes, i) : i \in InBlock(s, k)})

Gaps(s, bytes, k, m) ==
  LET base == Base(s, bytes, k)
  IN  [j \in 1..Size(s.shape) |->
         IF Slot(s.shape, k, m, j) < Len(s.ints)
         THEN (Delta(s, bytes, Slot(s.shape, k, m, j)) - base) % (2 * Half[bytes]) ELSE 0]

Fitting(gaps, bytes) == {w \in 0..Bits[bytes] : \A j \in DOMAIN gaps : gaps[j] < 2 ^ w}
Width(s, bytes, k, m) ==
  IF Used(s, k, m) THEN Least(Fitting(Gaps(s, bytes, k, m), bytes)) ELSE s.shape.spare

Bodies(s, bytes, k) ==
  [m \in 1..s.shape.minis |->
     IF Used(s, k, m) THEN Body(Gaps(s, bytes, k, m), Width(s, bytes, k, m)) ELSE << >>]

Block(s, bytes, k) ==
  (<<Unit("varint", Base(s, bytes, k))>>
    \o [m \in 1..s.shape.minis |-> Unit("width", Width(s, bytes, k, m))])
    \o Behind(Bodies(s, bytes, k), 0)

Blocks(s, bytes) ==
  [k \in 1..(((Len(s.ints) - 2) \div s.shape.block) + 1) |-> Block(s, bytes, k)]

Encoded(s, bytes) ==
  Header(s) \o (IF Len(s.ints) < 2 THEN << >>
                ELSE IF ~Shaped(s.shape) THEN <<Unit("varint", 0)>>
                ELSE Behind(Blocks(s, bytes), 0))

Streams(p) == [k \in DOMAIN p.streams |-> Encoded(p.streams[k], BytesOf(p.kind))]

Written(p) ==
  LET all == Behind(Streams(p), 0) \o [i \in DOMAIN p.data |-> Unit("data", p.data[i])]
  IN  SubSeq(all, 1, Len(all) - p.cut)

StreamsOf(kind) == IF kind = "byte_array" THEN 2 ELSE 1

(* Payloads of a shape that the format does not allow are those that the   *)
(* decoder can tell: its header is refused, its mini-blocks are too many   *)
(* or, in a page of integers, what follows is too short.                   *)
Refused(p, s) ==
  LET shape == s.shape
  IN  \/ shape.minis = 0 \/ shape.block % shape.minis # 0
      \/ shape.minis > MaxMinis /\ Len(s.ints) > 1
      \/ p.kind \in {"i32", "i64"} /\ (Len(s.ints) = 1 \/ p.data = << >>)

ASSUME PayloadsAssumption ==
  /\ Octet \in Nat \ {0} /\ MaxMinis \in Nat
  /\ \A p \in Payloads :
       /\ p.kind \in {"i32", "i64", "length", "byte_array"}
       /\ p.streams \in Seq([ints : Seq(Holds(Signed(BytesOf(p.kind)))),
                              shape : [block : Nat, minis : Nat, spare : Nat]])
       /\ Len(p.streams) = StreamsOf(p.kind) /\ p.data \in Seq(Int) /\ p.cut \in Nat
       /\ \A s \in DOMAIN p.streams :
            p.streams[s].ints = << >> \/ Shaped(p.streams[s].shape) \/ Refused(p, p.streams[s])

DeltaInit ==
  /\ payload \in Payloads /\ units = Written(payload)
  /\ dpc = "header" /\ cursor = 0 /\ open = NoStream /\ lengths = << >> /\ values = << >>

DeltaAtRest ==
  /\ payload = NoPayload /\ units = << >>
  /\ dpc = "rest" /\ cursor = 0 /\ open = NoStream /\ lengths = << >> /\ values = << >>

-----------------------------------------------------------------------------
(* decode_delta_i32_from, decode_delta_i64_from.                           *)

At(k) == units[cursor + k].v
Left(n) == cursor + n <= Len(units)

Fail == dpc' = "failed" /\ UNCHANGED <<payload, units, cursor, open, lengths, values>>

(* What follows a stream: the answer, the next stream, the data.           *)
EndStream(out, upto) ==
  /\ cursor' = upto /\ lengths' = Append(lengths, out) /\ open' = NoStream
  /\ dpc' = IF payload.kind \in {"i32", "i64"} THEN "done"
            ELSE IF Len(lengths) + 1 < StreamsOf(payload.kind) THEN "header" ELSE "data"
  /\ UNCHANGED <<payload, units, values>>

ReadHeader ==
  /\ dpc = "header"
  /\ \/ ~Left(4) /\ Fail
     \/ Left(4) /\ At(3) = 0 /\ EndStream(<< >>, cursor + 4)
     \/ /\ Left(4) /\ At(3) > 0
        /\ IF At(2) = 0 THEN Fail
           ELSE IF At(1) % At(2) # 0 THEN Fail
           ELSE IF At(3) = 1 THEN EndStream(<<At(4)>>, cursor + 4)
           ELSE /\ dpc' = "block" /\ cursor' = cursor + 4
                /\ open' = [minis |-> At(2), size |-> At(1) \div At(2), remaining |-> At(3) - 1,
                            prev |-> At(4), min |-> 0, widths |-> << >>, out |-> <<At(4)>>]
                /\ UNCHANGED <<payload, units, lengths, values>>

ReadBlock ==
  /\ dpc = "block"
  /\ IF ~Left(1) \/ open.minis > MaxMinis \/ ~Left(1 + open.minis) THEN Fail
     ELSE /\ dpc' = "mini" /\ cursor' = cursor + 1 + open.minis
          /\ open' = [open EXCEPT !.min = At(1), !.widths = [m \in 1..open.minis |-> At(1 + m)]]
          /\ UNCHANGED <<payload, units, lengths, values>>

(* unpack_indices_into of one body, which BitUnpack looks at in detail.    *)
Unpacked(width, bytes) ==
  IF bytes = << >> THEN [j \in 1..open.size |-> 0]
  ELSE IF bytes = Body(bytes[1].of, width) THEN bytes[1].of
  ELSE [j \in 1..open.size |-> 1]

(* The accumulator is twice as wide as the values and wraps.               *)
Sums(deltas) ==
  LET prev[j \in 0..Len(deltas)] ==
        IF j = 0 THEN open.prev ELSE As(prev[j - 1] + open.min + deltas[j], Signed(2 * Wide))
  IN  prev

(* A planted bug: the last mini-block of a block is taken though no value  *)
(* is left for it.                                                         *)
StreamOver_AtBlockEnd(remaining, widths) == remaining = 0 /\ widths = << >>
StreamOver(remaining, widths) == remaining = 0

ReadMini ==
  LET width == open.widths[1]
      size  == (open.size * width) \div Octet
      sums  == Sums(Unpacked(width, SubSeq(units, cursor + 1, cursor + size)))
      taken == IF open.size < open.remaining THEN open.size ELSE open.remaining
      out   == open.out \o [j \in 1..taken |-> As(sums[j], Signed(Wide))]
      rest  == open.remaining - taken
  IN
  /\ dpc = "mini"
  /\ IF width > Bits[Wide] \/ ~Left(size) THEN Fail
     ELSE \/ StreamOver(rest, Tail(open.widths)) /\ EndStream(out, cursor + size)
          \/ /\ ~StreamOver(rest, Tail(open.widths))
             /\ cursor' = cursor + size
             /\ dpc' = IF Tail(open.widths) = << >> THEN "block" ELSE "mini"
             /\ open' = [open EXCEPT !.remaining = rest, !.prev = sums[taken], !.out = out,
                                     !.widths = Tail(@)]
             /\ UNCHANGED <<payload, units, lengths, values>>

-----------------------------------------------------------------------------
(* decode_delta_length_byte_array and decode_delta_byte_array, behind      *)
(* their streams: one value at a time.                                     *)

Prev == IF values = << >> THEN << >> ELSE values[Len(values)]
Count == Len(lengths[1])
Prefix(k) == IF payload.kind = "byte_array" THEN lengths[1][k] ELSE 0
Suffix(k) == lengths[Len(lengths)][k]

ReadValue ==
  LET k == Len(values) + 1
  IN
  /\ dpc = "data"
  /\ IF Len(lengths[Len(lengths)]) # Count THEN Fail
     ELSE IF k > Count
          THEN dpc' = "done" /\ UNCHANGED <<payload, units, cursor, open, lengths, values>>
     ELSE IF Prefix(k) < 0 \/ Suffix(k) < 0 \/ Prefix(k) > Len(Prev) \/ ~Left(Suffix(k)) THEN Fail
     ELSE /\ cursor' = cursor + Suffix(k)
          /\ values' = Append(values, SubSeq(Prev, 1, Prefix(k))
                                       \o [j \in 1..Suffix(k) |-> At(j)])
          /\ UNCHANGED <<payload, units, dpc, open, lengths>>

DeltaNext == ReadHeader \/ ReadBlock \/ ReadMini \/ ReadValue

-----------------------------------------------------------------------------
(* A payload that the format allows.                                       *)
SuffixLengths == payload.streams[Len(payload.streams)].ints
PrefixLengths == payload.streams[1].ints
Shared(k) == IF payload.kind = "byte_array" THEN PrefixLengths[k] ELSE 0

(* The data bytes that the first n values need.                            *)
Needed(n) ==
  LET need[k \in 0..Len(SuffixLengths)] == IF k = 0 THEN 0 ELSE need[k - 1] + SuffixLengths[k]
  IN  need[n]

Valid ==
  /\ \A s \in DOMAIN payload.streams :
       Len(payload.streams[s].ints) > 0 => Shaped(payload.streams[s].shape)
  /\ payload.kind \in {"length", "byte_array"} =>
       /\ Needed(Len(SuffixLengths)) <= Len(payload.data)
       /\ Len(PrefixLengths) = Len(SuffixLengths)
       /\ \A k \in DOMAIN SuffixLengths :
            /\ SuffixLengths[k] >= 0
            /\ Shared(k) \in 0..(IF k = 1 THEN 0 ELSE Shared(k - 1) + SuffixLengths[k - 1])

(* The values the payload spells: each shares its prefix with the one      *)
(* before it and takes its suffix from the data, in order.                 *)
Spelled ==
  /\ Len(values) = Len(SuffixLengths)
  /\ \A k \in DOMAIN values :
       values[k] = SubSeq(IF k = 1 THEN << >> ELSE values[k - 1], 1, Shared(k))
                     \o SubSeq(payload.data, Needed(k - 1) + 1, Needed(k))

(* What is decoded is what was written: for every block shape and column,  *)
(* with deltas that wrap, widths at both ends, padded and bodyless         *)
(* mini-blocks, streams right behind one another; and a payload that lost  *)
(* units at its end, or that the format does not allow, is decoded right   *)
(* or refused.                                                             *)
DeltaReadsBack ==
  /\ dpc = "done" =>
       /\ \A s \in DOMAIN lengths : lengths[s] = payload.streams[s].ints
       /\ payload.kind \in {"length", "byte_array"} => Valid /\ Spelled
  /\ dpc = "failed" => ~Valid \/ payload.cut > 0
=============================================================================
