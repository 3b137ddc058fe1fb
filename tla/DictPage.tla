------------------------------- MODULE DictPage -------------------------------
(***************************************************************************)
(* One dictionary-coded data page, written and read back.                  *)
(*                                                                         *)
(* build_dict_with collects the distinct values of the column in order of  *)
(* first occurrence; encode_rle_bit_packed turns the indices into runs,    *)
(* one run of equal indices per step; a reader walks the runs, one per     *)
(* step, and looks the indices up.  `runs' is a history variable: for each *)
(* run appended to the page, the values its header and body stand for, the *)
(* position of its first byte, and which of the two kinds it is.           *)
(***************************************************************************)
EXTENDS HybridRle

CONSTANTS
  Keys,         \* values of the column
  Columns,      \* the columns written: sequences of keys
  Threshold,    \* RLE_THRESHOLD; 8 in the code
  NarrowWidth   \* the widest indices the u8 reader takes; 8 in the code

ASSUME ColumnsAssumption == Columns \subseteq Seq(Keys)
ASSUME ThresholdAssumption == Threshold \in Nat \ {0}
ASSUME NarrowWidthAssumption == NarrowWidth \in Nat

\* A varint holds the header of a run as long as the column.
ASSUME HeadersFit ==
  \A c \in Columns : 2 * Len(c) + 1 < Pow2(PayloadBits * VarintBytes)

VARIABLES
  values,       \* the column
  phase,        \* "build", "encode", "written", "decode", "done"
  dict, indices,    \* build_dict_with's results
  i,            \* values consumed by the loop that is running
  pending,      \* the bit-pack accumulator
  out,          \* the page body
  runs,         \* history, see above
  reader,       \* which reader reads the page back
  pos,          \* its position in the page body
  got,          \* what it decoded
  result        \* "none", "ok" or the error

vars == <<values, phase, dict, indices, i, pending, out, runs, reader, pos, got, result>>

buildVars  == <<dict, indices>>
encodeVars == <<pending, out, runs>>
readVars   == <<reader, pos, got, result>>

Readers == {"fused", "indices", "u8"}

Init ==
  /\ values \in Columns
  /\ phase = "build"
  /\ dict = <<>> /\ indices = <<>> /\ i = 0
  /\ pending = <<>> /\ out = <<>> /\ runs = <<>>
  /\ reader = "none" /\ pos = 0 /\ got = <<>> /\ result = "none"

-----------------------------------------------------------------------------
(* build_dict_with.                                                        *)

BuildKnown ==
  \E k \in DOMAIN dict : /\ dict[k] = values[i + 1]
                         /\ indices' = Append(indices, k - 1)
                         /\ dict' = dict

(* A planted bug: only the newest entry is compared.                       *)
BuildNew_LastOnly ==
  /\ dict # <<>> => dict[Len(dict)] # values[i + 1]
  /\ dict' = Append(dict, values[i + 1])
  /\ indices' = Append(indices, Len(dict))

BuildNew ==
  /\ \A k \in DOMAIN dict : dict[k] # values[i + 1]
  /\ dict' = Append(dict, values[i + 1])
  /\ indices' = Append(indices, Len(dict))

Build ==
  /\ phase = "build" /\ i < Len(values)
  /\ BuildKnown \/ BuildNew
  /\ i' = i + 1
  /\ UNCHANGED <<values, phase, encodeVars, readVars>>

-----------------------------------------------------------------------------
(* encode_rle_bit_packed, after the byte that holds the bit width.         *)

Emitted == IF runs = <<>> THEN 0 ELSE runs[Len(runs)].at + runs[Len(runs)].n

Spelling(at, n, val, from, packed) ==
  [at |-> at, n |-> n, val |-> val, from |-> from, packed |-> packed]

Repeat(v, n) == [k \in 1..n |-> v]

\* What a packed run of these values decodes to: whole groups.
PackedSpelling(at, vals, from) ==
  LET n == (Len(vals) \div Octet) * Octet
  IN  Spelling(at, n, [k \in 1..n |-> vals[k]], from, TRUE)

RleSpelling(at, v, n, from) == Spelling(at, n, Repeat(v, n), from, FALSE)

BitWidth == MinBitWidth(Len(dict))

(* No index, or indices that are all 0, need no loop.                      *)
BeginEncode ==
  /\ phase = "build" /\ i = Len(values)
  /\ i' = 0
  /\ IF indices = <<>> \/ BitWidth = 0
     THEN /\ phase' = "written"
          /\ out' = <<BitWidth>> \o SingleRun(indices, BitWidth)
          /\ runs' = IF indices = <<>> THEN <<>>
                     ELSE <<RleSpelling(0, 0, Len(indices), 2)>>
     ELSE phase' = "encode" /\ out' = <<BitWidth>> /\ runs' = <<>>
  /\ UNCHANGED <<values, buildVars, pending, readVars>>

(* A planted bug: the accumulator is flushed as it stands.                 *)
Borrow_Nothing == 0

(* Values to take from the coming run so that the accumulator fills its    *)
(* last group.                                                             *)
Borrow == IF Len(pending) % Octet = 0 THEN 0 ELSE Octet - (Len(pending) % Octet)

RleWorthy(n) == n >= Threshold + Borrow

IsValueRun(n) ==
  /\ \A k \in 1..n : indices[i + k] = indices[i + 1]
  /\ i + n < Len(indices) => indices[i + n + 1] # indices[i + 1]

EmitRle(n) ==
  LET v == indices[i + 1]
      aligned == pending \o Repeat(v, Borrow)
      residual == n - Borrow
  IN  /\ RleWorthy(n)
      /\ IF aligned = <<>>
         THEN /\ out' = out \o RleRun(v, residual, BitWidth)
              /\ runs' = Append(runs, RleSpelling(Emitted, v, residual, Len(out) + 1))
         ELSE LET flushed == out \o PackedRun(aligned, BitWidth)
                  packed  == PackedSpelling(Emitted, aligned, Len(out) + 1)
              IN  /\ out' = flushed \o RleRun(v, residual, BitWidth)
                  /\ runs' = runs \o <<packed, RleSpelling(Emitted + packed.n, v, residual,
                                                           Len(flushed) + 1)>>
      /\ pending' = <<>>

Accumulate(n) ==
  /\ ~RleWorthy(n)
  /\ pending' = pending \o Repeat(indices[i + 1], n)
  /\ UNCHANGED <<out, runs>>

EncodeRun ==
  /\ phase = "encode" /\ i < Len(indices)
  /\ \E n \in 1..(Len(indices) - i) : /\ IsValueRun(n)
                                      /\ EmitRle(n) \/ Accumulate(n)
                                      /\ i' = i + n
  /\ UNCHANGED <<values, phase, buildVars, readVars>>

FlushOf(vals) ==
  /\ out' = out \o PackedRun(vals, BitWidth)
  /\ runs' = Append(runs, PackedSpelling(Emitted, vals, Len(out) + 1))

(* A planted bug: the final flush writes full groups only.                 *)
FinalFlush_FullGroups == FlushOf(pending)

(* The one padded flush.                                                   *)
FinalFlush == FlushOf(PadTo(pending, Groups(Len(pending)) * Octet))

EndEncode ==
  /\ phase = "encode" /\ i = Len(indices)
  /\ IF pending = <<>> THEN UNCHANGED <<out, runs>> ELSE FinalFlush
  /\ phase' = "written" /\ pending' = <<>>
  /\ UNCHANGED <<values, buildVars, i, readVars>>

-----------------------------------------------------------------------------
(* The readers.  decode_rle_dictionary_into looks each index up as it      *)
(* goes; the dict-preserved readers take all indices, and check them then. *)

Finish(r, g) == phase' = "done" /\ result' = r /\ got' = g /\ pos' = pos

Lookup(ixs) == [k \in DOMAIN ixs |-> dict[ixs[k] + 1]]
InRange(ixs) == \A k \in DOMAIN ixs : ixs[k] < Len(dict)

Width == out[1]

OpenPage(r) ==
  /\ phase = "written"
  /\ reader' = r
  /\ IF r = "u8" /\ Width > NarrowWidth
     THEN phase' = "done" /\ result' = "BitWidthOutOfRange" /\ UNCHANGED <<pos, got>>
     ELSE phase' = "decode" /\ pos' = 2 /\ UNCHANGED <<got, result>>
  /\ UNCHANGED <<values, buildVars, i, encodeVars>>

Missing == Len(values) - Len(got)

(* Width 0: no run is read, every index is 0.                              *)
DecodeConstant ==
  /\ phase = "decode" /\ Missing > 0 /\ Width = 0
  /\ LET zeros == Repeat(0, Missing)
     IN  IF InRange(zeros) THEN Finish("ok", Lookup(zeros)) ELSE Finish("DictIndexOutOfRange", <<>>)
  /\ UNCHANGED <<values, buildVars, i, encodeVars, reader>>

Clip(n) == Min({n, Missing})

(* The header at pos, the indices of its run that are still wanted, and    *)
(* the bytes the run takes.                                                *)
Header   == UvarintAt(out, pos)
IsPacked == Header % 2 = 1
Count    == Header \div 2
BodyLen  == IF IsPacked THEN (Count * Octet * Width + Octet - 1) \div Octet ELSE BytesFor(Width)
BodyAt   == pos + UvarintLen(out, pos)
Chunk    == SubSeq(out, BodyAt, BodyAt + BodyLen - 1)
RunIndices == IF IsPacked THEN Unpack(Chunk, Clip(Count * Octet), Width)
              ELSE Repeat(LittleEndianAt(Chunk), Clip(Count))

RunReadable == UvarintLen(out, pos) > 0 /\ BodyAt + BodyLen - 1 <= Len(out)

(* A planted bug: the cursor moves on by the values taken, not by the run. *)
NextRun_Clipped == BodyAt + Len(RunIndices)

NextRun == BodyAt + BodyLen

DecodeRun ==
  /\ phase = "decode" /\ Missing > 0 /\ Width > 0
  /\ IF ~RunReadable THEN Finish("UnexpectedEof", <<>>)
     ELSE IF reader = "fused" /\ ~InRange(RunIndices) THEN Finish("DictIndexOutOfRange", <<>>)
     ELSE /\ got' = got \o (IF reader = "fused" THEN Lookup(RunIndices) ELSE RunIndices)
          /\ pos' = NextRun
          /\ UNCHANGED <<phase, result>>
  /\ UNCHANGED <<values, buildVars, i, encodeVars, reader>>

EndDecode ==
  /\ phase = "decode" /\ Missing = 0
  /\ IF reader = "fused" THEN Finish("ok", got)
     ELSE IF InRange(got) THEN Finish("ok", Lookup(got))
     ELSE Finish("DictIndexOutOfRange", <<>>)
  /\ UNCHANGED <<values, buildVars, i, encodeVars, reader>>

Done == phase = "done" /\ UNCHANGED vars

Next ==
  \/ Build \/ BeginEncode \/ EncodeRun \/ EndEncode
  \/ \E r \in Readers : OpenPage(r)
  \/ DecodeConstant \/ DecodeRun \/ EndDecode
  \/ Done

Spec == Init /\ [][Next]_vars

-----------------------------------------------------------------------------
(* Properties.                                                             *)

(* An index points into the dictionary built so far; what is counted stays *)
(* within the column.                                                      *)
TypeOK ==
  /\ values \in Seq(Keys)
  /\ phase \in {"build", "encode", "written", "decode", "done"}
  /\ dict \in Seq(Keys)
  /\ indices \in Seq(Nat) /\ \A k \in DOMAIN indices : indices[k] < Len(dict)
  /\ i \in 0..Len(values)
  /\ Len(indices) = IF phase = "build" THEN i ELSE Len(values)
  /\ pending \in Seq(Nat) /\ out \in Seq(Nat)
  /\ reader \in Readers \cup {"none"}

(* build_dict_with: entries are distinct and in order of first occurrence, *)
(* and every index leads back to its value.                                *)
DictSpellsColumn ==
  /\ \A k \in DOMAIN indices : indices[k] + 1 \in DOMAIN dict /\ dict[indices[k] + 1] = values[k]
  /\ \A j, k \in DOMAIN dict : dict[j] = dict[k] => j = k
  /\ \A e \in DOMAIN dict : \E p \in DOMAIN indices :
       indices[p] = e - 1 /\ \A q \in 1..(p - 1) : indices[q] < e - 1

(* The runs written so far and the accumulator spell the indices consumed  *)
(* so far: runs follow each other without gap or overlap, whatever was     *)
(* borrowed and flushed, and only the last run of a finished page goes     *)
(* past the last index, by less than a group.                              *)
RunsSpellIndices ==
  /\ \A r \in DOMAIN runs :
       /\ runs[r].at = IF r = 1 THEN 0 ELSE runs[r - 1].at + runs[r - 1].n
       /\ \A k \in 1..runs[r].n : runs[r].at + k <= Len(indices) =>
            runs[r].val[k] = indices[runs[r].at + k]
  /\ \A k \in DOMAIN pending : pending[k] = indices[Emitted + k]
  /\ phase = "build" => runs = <<>> /\ pending = <<>>
  /\ phase = "encode" => Emitted + Len(pending) = i
  /\ phase \notin {"build", "encode"} =>
       /\ pending = <<>> /\ Emitted \in Len(indices)..(Len(indices) + Octet - 1)
       /\ \A r \in 1..(Len(runs) - 1) : runs[r].at + runs[r].n <= Len(indices)

(* Write then read is the identity, on the bytes of the page, for every    *)
(* reader that accepts the page's index width; the u8 reader refuses       *)
(* exactly the dictionaries whose indices do not fit.                      *)
ReadBack ==
  phase = "done" =>
    IF reader = "u8" /\ Len(dict) > Pow2(NarrowWidth) THEN result = "BitWidthOutOfRange"
    ELSE result = "ok" /\ got = values

=============================================================================
