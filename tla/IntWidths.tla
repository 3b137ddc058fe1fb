------------------------------ MODULE IntWidths ------------------------------
(***************************************************************************)
(* Integers of one, two, four, eight and sixteen bytes, what `as' does     *)
(* between them, and the choices made from a column's bounds: the target   *)
(* of a narrowing read, the frame of reference, the pages of a range.      *)
(*                                                                         *)
(* A value of an unsigned column is the bits its reader sees: the signed   *)
(* integer of the same bits.                                               *)
(***************************************************************************)
EXTENDS Integers, Sequences

CONSTANTS
  Bits,     \* the bits of an integer of so many bytes: 8, 16, 32, 64, 128 in the code
  Half      \* and half its range

Sizes == {1, 2, 4, 8, 16}

ASSUME WidthsAssumption ==
  /\ Half \in [Sizes -> Nat \ {0}] /\ Bits \in [Sizes -> Nat]
  /\ \A b \in Sizes : 2 * Half[b] = 2 ^ Bits[b]
  /\ \A b \in {1, 2, 4, 8} : 2 * Half[b] <= Half[2 * b] /\ Half[2 * b] % (2 * Half[b]) = 0

(* IntTarget.                                                              *)
Signed(bytes) == [signed |-> TRUE, bytes |-> bytes]
Targets == [signed : BOOLEAN, bytes : {1, 2, 4, 8}]
I64 == Signed(8)

Lo(t) == IF t.signed THEN -Half[t.bytes] ELSE 0
Hi(t) == IF t.signed THEN Half[t.bytes] - 1 ELSE 2 * Half[t.bytes] - 1
Holds(t) == Lo(t)..Hi(t)

(* `v as T'.                                                               *)
As(v, t) == ((v - Lo(t)) % (2 * Half[t.bytes])) + Lo(t)

(* The bits of an i64 read as a u64.                                       *)
Unsigned(v) == IF v < 0 THEN v + 2 * Half[8] ELSE v

-----------------------------------------------------------------------------
(* narrowest_int_target tries the targets in this order.                   *)
Order(t) == (2 * t.bytes) + (IF t.signed THEN 0 ELSE 1)

Fits(min, max, t) == Lo(t) <= min /\ max <= Hi(t)

(* A planted bug: an unsigned target is taken by its upper end alone.      *)
narrowest_int_target_UpperOnly(min, max) ==
  LET fits == {t \in Targets : t.bytes < 8 /\ max <= Hi(t) /\ (t.signed => Lo(t) <= min)} \cup {I64}
  IN  CHOOSE t \in fits : \A u \in fits : Order(t) <= Order(u)

narrowest_int_target(min, max) ==
  LET fits == {t \in Targets : t.bytes < 8 /\ Fits(min, max, t)} \cup {I64}
  IN  CHOOSE t \in fits : \A u \in fits : Order(t) <= Order(u)

frame_of_reference_target(min, max) ==
  IF max - min < 2 * Half[4]
  THEN [offset |-> min, target |-> narrowest_int_target(0, max - min)]
  ELSE [offset |-> 0, target |-> I64]

-----------------------------------------------------------------------------
(* Statistics.  A bound is << >> when it is absent, <<v>> in the eight     *)
(* bytes of an INT64, longer in any other form.                            *)
Or(bound, other) == IF bound # << >> THEN bound ELSE other

column_narrow_target(stats) ==
  LET min == Or(stats.min_value, stats.min)
      max == Or(stats.max_value, stats.max)
  IN  IF Len(min) = 1 /\ Len(max) = 1 /\ min[1] <= max[1]
      THEN narrowest_int_target(min[1], max[1]) ELSE I64

(* compute_stats: the order of the column's type; both pairs are written.  *)
Ranked(v, unsigned) == IF unsigned THEN Unsigned(v) ELSE v

compute_stats(rows, unsigned) ==
  LET rank(i) == Ranked(rows[i], unsigned)
      min == IF rows = << >> THEN << >>
             ELSE <<rows[CHOOSE i \in DOMAIN rows : \A j \in DOMAIN rows : rank(i) <= rank(j)]>>
      max == IF rows = << >> THEN << >>
             ELSE <<rows[CHOOSE i \in DOMAIN rows : \A j \in DOMAIN rows : rank(j) <= rank(i)]>>
  IN  [min_value |-> min, max_value |-> max, min |-> min, max |-> max]

(* select_pages_overlapping, page i of an index; bounds compare as signed. *)
Malformed(index) ==
  ~(/\ Len(index.min_values) = Len(index.null_pages)
    /\ Len(index.max_values) = Len(index.null_pages)
    /\ \A i \in DOMAIN index.null_pages :
         index.null_pages[i] \/ (Len(index.min_values[i]) = 1 /\ Len(index.max_values[i]) = 1))

select_pages_overlapping(index, lo, hi) ==
  [i \in DOMAIN index.null_pages |->
     ~index.null_pages[i] /\ index.max_values[i][1] >= lo /\ index.min_values[i][1] <= hi]
=============================================================================
