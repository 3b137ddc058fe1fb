--------------------------- MODULE IntColumns_proofs ---------------------------
(***************************************************************************)
(* Narrowing loses nothing, for any widths, columns and bounds: the target *)
(* holds what the bounds allow, every row read is one the bounds allow,    *)
(* and `as' keeps what its target holds.                                   *)
(* And a delta page is read back, for any payload, block shape and width:  *)
(* numbers that are near one another, modulo the width, stay so through    *)
(* the writer's deltas and the decoder's sums.                             *)
(***************************************************************************)
EXTENDS IntColumns, ChunkPages_proofs, FiniteSetTheorems, WellFoundedInduction, TLAPS

-----------------------------------------------------------------------------
(* Targets.                                                                *)

LEMMA ModBelow == ASSUME NEW m \in Nat \ {0}, NEW a \in 0..(m - 1) PROVE a % m = a
  OBVIOUS

(* A target is as wide as its ends say.                                    *)
LEMMA Ends ==
  ASSUME NEW t \in Targets
  PROVE  /\ Lo(t) \in Int /\ Hi(t) = Lo(t) + 2 * Half[t.bytes] - 1
         /\ Half[t.bytes] \in Nat \ {0}
  BY WidthsAssumption DEF Targets, Sizes, Lo, Hi

LEMMA AsKeeps == ASSUME NEW t \in Targets, NEW v \in Holds(t) PROVE As(v, t) = v
<1>1. /\ v - Lo(t) \in 0..((2 * Half[t.bytes]) - 1) /\ 2 * Half[t.bytes] \in Nat \ {0}
      /\ v \in Int /\ Lo(t) \in Int
  BY Ends DEF Holds
<1>2. (v - Lo(t)) % (2 * Half[t.bytes]) = v - Lo(t)
  BY <1>1, ModBelow
<1> QED BY <1>1, <1>2 DEF As

LEMMA AsIsInt == ASSUME NEW t \in Targets, NEW v \in Int PROVE As(v, t) \in Int
<1>1. 2 * Half[t.bytes] \in Nat \ {0} /\ v - Lo(t) \in Int /\ Lo(t) \in Int
  BY Ends
<1> QED BY <1>1 DEF As

LEMMA Whole ==
  /\ I64 \in Targets /\ Holds(I64) = (-Half[8])..(Half[8] - 1) /\ Half[8] \in Nat \ {0}
  /\ Half[4] \in Nat \ {0} /\ 2 * Half[4] <= Half[8]
  BY WidthsAssumption DEF I64, Signed, Targets, Holds, Lo, Hi, Sizes

LEMMA Minimal ==
  ASSUME NEW T \in SUBSET Nat, T # {} PROVE \E x \in T : \A y \in T : x <= y
<1> DEFINE R == OpToRel(<, Nat)
<1>1. \A x, y \in T : y < x => <<y, x>> \in R
  BY DEF OpToRel
<1>2. IsWellFoundedOn(R, Nat)
  BY NatLessThanWellFounded
<1> HIDE DEF R
<1>3. PICK x \in T : \A y \in T : ~(<<y, x>> \in R)
  BY <1>2, WFMin
<1>4. \A y \in T : ~(y < x) /\ y \in Nat /\ x \in Nat
  BY <1>1, <1>3
<1> QED BY <1>3, <1>4

(* The narrowest target for a range holds every i64 in it.                 *)
LEMMA NarrowestHolds ==
  ASSUME NEW min \in Int, NEW max \in Int
  PROVE  /\ narrowest_int_target(min, max) \in Targets
         /\ \A v \in Holds(I64) : min <= v /\ v <= max => v \in Holds(narrowest_int_target(min, max))
<1> DEFINE fits == {t \in Targets : t.bytes < 8 /\ Fits(min, max, t)} \cup {I64}
           ranks == {Order(t) : t \in fits}
           t == narrowest_int_target(min, max)
<1>1. I64 \in fits /\ fits \subseteq Targets
  BY Whole
<1>2. \A u \in Targets : Order(u) \in Nat
  BY DEF Targets, Order
<1>3. ranks \in SUBSET Nat /\ ranks # {}
  BY <1>1, <1>2
<1>4. PICK x \in ranks : \A y \in ranks : x <= y
  <2> HIDE DEF ranks
  <2> QED BY <1>3, Minimal
<1>5. \E u \in fits : \A w \in fits : Order(u) <= Order(w)
  BY <1>4
<1>6. t = CHOOSE u \in fits : \A w \in fits : Order(u) <= Order(w)
  BY DEF narrowest_int_target
<1>7. t \in fits
  <2> HIDE DEF fits, t
  <2> QED BY <1>5, <1>6
<1>8. t = I64 \/ Fits(min, max, t)
  BY <1>7
<1>9. t \in Targets
  BY <1>1, <1>7
<1> HIDE DEF t, fits, ranks
<1>10. ASSUME NEW v \in Holds(I64), min <= v, v <= max PROVE v \in Holds(t)
  <2>1. v \in Int
    BY Whole
  <2> QED BY <1>8, <1>9, <1>10, <2>1, Ends DEF Fits, Holds
<1> QED BY <1>9, <1>10 DEF t

(* A frame of reference holds the distance of every value from its offset. *)
LEMMA FrameHolds ==
  ASSUME NEW min \in Int, NEW max \in Int, min <= max
  PROVE  LET f == frame_of_reference_target(min, max)
         IN  /\ f \in [offset : Int, target : Targets]
             /\ \A v \in Holds(I64) :
                  min <= v /\ v <= max => v - f.offset \in Holds(f.target)
<1>1. CASE max - min < 2 * Half[4]
  <2> DEFINE t == narrowest_int_target(0, max - min)
  <2>1. frame_of_reference_target(min, max) = [offset |-> min, target |-> t]
    BY <1>1 DEF frame_of_reference_target
  <2>2. /\ t \in Targets
        /\ \A d \in Holds(I64) : 0 <= d /\ d <= max - min => d \in Holds(t)
    BY NarrowestHolds
  <2> HIDE DEF t
  <2>3. ASSUME NEW v \in Holds(I64), min <= v, v <= max PROVE v - min \in Holds(t)
    <3>1. v \in Int
      BY Whole
    <3>2. v - min \in Holds(I64) /\ 0 <= v - min /\ v - min <= max - min
      BY <1>1, <2>3, <3>1, Whole
    <3> QED BY <2>2, <3>2
  <2> QED BY <2>1, <2>2, <2>3
<1>2. CASE ~(max - min < 2 * Half[4])
  <2>1. frame_of_reference_target(min, max) = [offset |-> 0, target |-> I64]
    BY <1>2 DEF frame_of_reference_target
  <2>2. \A v \in Holds(I64) : v - 0 = v
    BY Whole
  <2> QED BY <2>1, <2>2, Whole
<1> QED BY <1>1, <1>2

-----------------------------------------------------------------------------
(* Rows.                                                                   *)

PageTyped == [kind : {"dict", "index", "plain", "coded", "bad"}, vals : Seq(Holds(I64))]

LEMMA PagesTyped ==
  ASSUME request \in Requests
  PROVE  /\ Pages \in Seq(PageTyped) /\ Len(Pages) \in Nat
         /\ \A k \in DOMAIN Pages : Pages[k].vals \in Seq(Holds(I64)) /\ k \in 1..Len(Pages)
<1>1. Pages \in Seq(PageTyped)
  BY RequestsAssumption DEF Pages, PageTyped
<1> HIDE DEF Pages
<1>2. \A p \in PageTyped : p.vals \in Seq(Holds(I64))
  BY DEF PageTyped
<1> QED BY <1>1, <1>2

IsLast(j, k) ==
  /\ j \in 1..(k - 1) /\ Pages[j].kind = "dict"
  /\ \A i \in (j + 1)..(k - 1) : Pages[i].kind # "dict"

(* The last dictionary before a page is the one its indices refer to.      *)
LEMMA DictAtLast ==
  ASSUME NEW k \in Int, NEW j, IsLast(j, k) PROVE DictAt(k) = Pages[j].vals
<1> DEFINE P(c) == /\ Pages[c].kind = "dict"
                   /\ \A i \in (c + 1)..(k - 1) : Pages[i].kind # "dict"
<1>1. j \in 1..(k - 1) /\ P(j) /\ \E c \in 1..(k - 1) : Pages[c].kind = "dict"
  BY DEF IsLast
<1>2. ASSUME NEW c \in 1..(k - 1), P(c) PROVE c = j
  <2>1. ~(c < j) /\ ~(j < c)
    BY <1>1, <1>2
  <2> QED BY <1>1, <2>1
<1>3. (CHOOSE c \in 1..(k - 1) : P(c)) = j
  <2> HIDE DEF P
  <2> QED BY <1>1, <1>2
<1> QED BY <1>1, <1>3 DEF DictAt

LEMMA HasLast ==
  ASSUME NEW k \in Int, NEW c \in 1..(k - 1), Pages[c].kind = "dict"
  PROVE  \E j \in 1..(k - 1) : IsLast(j, k)
<1> DEFINE T == {k - j : j \in {i \in 1..(k - 1) : Pages[i].kind = "dict"}}
<1>1. T \in SUBSET Nat /\ T # {}
  OBVIOUS
<1>2. PICK x \in T : \A y \in T : x <= y
  <2> HIDE DEF T
  <2> QED BY <1>1, Minimal
<1>3. PICK j \in 1..(k - 1) : x = k - j /\ Pages[j].kind = "dict"
  BY <1>2
<1>4. ASSUME NEW i \in (j + 1)..(k - 1), Pages[i].kind = "dict" PROVE FALSE
  <2>1. k - i \in T /\ k - i < x /\ k - i \in Int /\ x \in Int
    BY <1>3, <1>4
  <2>2. x <= k - i
    <3> HIDE DEF T
    <3> QED BY <1>2, <2>1
  <2> QED BY <2>1, <2>2
<1> QED BY <1>3, <1>4 DEF IsLast

LEMMA DictAtNone ==
  ASSUME NEW k \in Int, \A j \in 1..(k - 1) : Pages[j].kind # "dict" PROVE DictAt(k) = << >>
  BY DEF DictAt

LEMMA DictTyped ==
  ASSUME request \in Requests, NEW k \in 1..(Len(Pages) + 1) PROVE DictAt(k) \in Seq(Holds(I64))
<1>0. k \in Int /\ Len(Pages) \in Nat
  BY PagesTyped
<1>1. CASE \A j \in 1..(k - 1) : Pages[j].kind # "dict"
  <2>1. DictAt(k) = << >>
    BY <1>0, <1>1, DictAtNone
  <2> QED BY <2>1
<1>2. ASSUME NEW c \in 1..(k - 1), Pages[c].kind = "dict" PROVE DictAt(k) \in Seq(Holds(I64))
  <2>1. PICK j \in 1..(k - 1) : IsLast(j, k)
    BY <1>2, HasLast, PagesTyped
  <2>2. j \in 1..Len(Pages)
    BY <2>1, PagesTyped
  <2> QED BY <2>1, <2>2, DictAtLast, PagesTyped
<1> QED BY <1>1, <1>2

LEMMA DictStep ==
  ASSUME request \in Requests, NEW k \in 1..Len(Pages)
  PROVE  DictAt(k + 1) = IF Pages[k].kind = "dict" THEN Pages[k].vals ELSE DictAt(k)
<1>0. k \in Int /\ k + 1 \in Int
  BY PagesTyped
<1>1. CASE Pages[k].kind = "dict"
  <2>1. IsLast(k, k + 1)
    BY <1>0, <1>1 DEF IsLast
  <2> QED BY <1>0, <1>1, <2>1, DictAtLast
<1>2. CASE Pages[k].kind # "dict" /\ \A j \in 1..(k - 1) : Pages[j].kind # "dict"
  <2>1. \A j \in 1..((k + 1) - 1) : Pages[j].kind # "dict"
    BY <1>0, <1>2
  <2> QED BY <1>0, <1>2, <2>1, DictAtNone
<1>3. ASSUME Pages[k].kind # "dict", NEW c \in 1..(k - 1), Pages[c].kind = "dict"
      PROVE  DictAt(k + 1) = DictAt(k)
  <2>1. PICK j \in 1..(k - 1) : IsLast(j, k)
    BY <1>0, <1>3, HasLast
  <2>2. IsLast(j, k + 1)
    BY <1>0, <1>3, <2>1 DEF IsLast
  <2> QED BY <1>0, <2>1, <2>2, DictAtLast
<1> QED BY <1>1, <1>2, <1>3

LEMMA RowTyped ==
  ASSUME request \in Requests, NEW k \in DOMAIN Pages, Readable(k), NEW i \in DOMAIN Pages[k].vals
  PROVE  Row(k, i) \in Holds(I64) /\ <<k, i>> \in AllRows
<1>1. <<k, i>> \in AllRows
  BY DEF AllRows, RowsIn
<1>2. CASE Pages[k].kind = "plain"
  BY <1>1, <1>2, PagesTyped DEF Row, PageRows
<1>3. CASE Pages[k].kind = "coded"
  <2> DEFINE d == DictAt(k)
  <2>1. d \in Seq(Holds(I64)) /\ i \in 1..Len(Pages[k].vals)
    BY DictTyped, PagesTyped
  <2>2. Pages[k].vals[i] \in 0..(Len(d) - 1)
    BY <1>3, <2>1 DEF Readable, Decodable
  <2>3. Row(k, i) = d[Pages[k].vals[i] + 1]
    BY <1>3, <2>1 DEF Row, PageRows
  <2> HIDE DEF d
  <2>4. Pages[k].vals[i] + 1 \in 1..Len(d)
    BY <2>1, <2>2
  <2> QED BY <1>1, <2>1, <2>3, <2>4
<1> QED BY <1>2, <1>3 DEF Readable, IsData

LEMMA RowsTyped ==
  ASSUME request \in Requests, NEW r \in AllRows
  PROVE  /\ Row(r[1], r[2]) \in Holds(I64)
         /\ r[1] \in DOMAIN Pages /\ Readable(r[1]) /\ r[2] \in DOMAIN Pages[r[1]].vals
<1>1. PICK k \in {j \in DOMAIN Pages : Readable(j)} : r \in {k} \X (DOMAIN Pages[k].vals)
  BY DEF AllRows, RowsIn
<1>2. r[1] = k /\ r[2] \in DOMAIN Pages[k].vals
  BY <1>1
<1> QED BY <1>1, <1>2, RowTyped

(* What the request says is the same before and after every step.          *)
LEMMA Same ==
  ASSUME request' = request
  PROVE  /\ Pages' = Pages /\ AllRows' = AllRows /\ (Honest' <=> Honest)
         /\ \A k : DictAt(k)' = DictAt(k)
         /\ \A k, i : Row(k, i)' = Row(k, i)
<1>1. Pages' = Pages
  BY DEF Pages
<1>2. \A k : DictAt(k)' = DictAt(k)
  BY <1>1 DEF DictAt
<1>3. \A k : Readable(k)' <=> Readable(k)
  BY <1>1, <1>2 DEF Readable, IsData, Decodable
<1>4. \A k, i : Row(k, i)' = Row(k, i)
  BY <1>1, <1>2 DEF Row, PageRows
<1>5. AllRows' = AllRows
  BY <1>1, <1>3 DEF AllRows, RowsIn
<1>6. \A k : Ordinal(k)' = Ordinal(k)
  BY <1>1 DEF Ordinal, IsData
<1>7. Honest' <=> Honest
  <2>1. ASSUME NEW s, NEW u PROVE StatsHold(s, u)' <=> StatsHold(s, u)
    BY <1>4, <1>5 DEF StatsHold
  <2>2. ASSUME NEW ix PROVE IndexHolds(ix)' <=> IndexHolds(ix)
    BY <1>4, <1>5, <1>6 DEF IndexHolds
  <2>3. Honest => Honest'
    BY <1>4, <1>5, <2>1, <2>2 DEF Honest
  <2>4. Honest' => Honest
    BY <1>4, <1>5, <2>1, <2>2 DEF Honest
  <2> QED BY <2>3, <2>4 DEF Honest
<1> QED BY <1>1, <1>2, <1>4, <1>5, <1>7

-----------------------------------------------------------------------------
(* What the bounds allow.                                                  *)

(* In the order of an unsigned column a value between two of the same sign *)
(* is between them in signed order too, and none is between a negative and *)
(* a larger one.                                                           *)
LEMMA SignedOrder ==
  ASSUME NEW a \in Holds(I64), NEW v \in Holds(I64), NEW b \in Holds(I64), a <= b,
         NEW u \in BOOLEAN, Between(a, v, b, u)
  PROVE  a <= v /\ v <= b
  BY Whole DEF Between, Ranked, Unsigned

LEMMA First == ASSUME NEW S, NEW q \in Seq(S), Len(q) = 1 PROVE q[1] \in S
  OBVIOUS

LEMMA StatsAllow ==
  ASSUME request \in Requests, StatsHold(request.stats, request.unsigned)
  PROVE  LET t == column_narrow_target(request.stats)
         IN  t \in Targets /\ \A r \in AllRows : Row(r[1], r[2]) \in Holds(t)
<1> DEFINE s == request.stats
           min == Or(s.min_value, s.min)
           max == Or(s.max_value, s.max)
           t == column_narrow_target(s)
<1>1. /\ min \in Seq(Holds(I64)) /\ max \in Seq(Holds(I64)) /\ request.unsigned \in BOOLEAN
      /\ s.min_value \in Seq(Holds(I64)) /\ s.max_value \in Seq(Holds(I64))
  BY RequestsAssumption DEF Or
<1>2. CASE ~(Len(min) = 1 /\ Len(max) = 1 /\ min[1] <= max[1])
  <2>1. t = I64
    BY <1>2 DEF column_narrow_target
  <2> QED BY <2>1, RowsTyped, Whole
<1>3. CASE Len(min) = 1 /\ Len(max) = 1 /\ min[1] <= max[1]
  <2>1. t = narrowest_int_target(min[1], max[1])
    BY <1>3 DEF column_narrow_target
  <2>2. min[1] \in Holds(I64) /\ max[1] \in Holds(I64) /\ min[1] \in Int /\ max[1] \in Int
    <3>1. \A v \in Holds(I64) : v \in Int
      BY Whole
    <3> HIDE DEF min, max
    <3> QED BY <1>1, <1>3, <3>1, First
  <2>3. ASSUME NEW r \in AllRows PROVE min[1] <= Row(r[1], r[2]) /\ Row(r[1], r[2]) <= max[1]
    <3>1. CASE s.min_value = << >>
      <4>1. min = s.min /\ max = s.max
        BY <3>1 DEF Or, StatsHold
      <4>2. Between(min[1], Row(r[1], r[2]), max[1], FALSE)
        BY <1>3, <3>1, <4>1 DEF StatsHold
      <4> QED BY <1>3, <2>2, <4>2, RowsTyped, SignedOrder
    <3>2. CASE s.min_value # << >>
      <4>1. min = s.min_value /\ max = s.max_value
        BY <3>2 DEF Or, StatsHold
      <4>2. Between(min[1], Row(r[1], r[2]), max[1], request.unsigned)
        BY <1>3, <4>1 DEF StatsHold
      <4> QED BY <1>1, <1>3, <2>2, <4>2, RowsTyped, SignedOrder
    <3> QED BY <3>1, <3>2
  <2> HIDE DEF min, max, t
  <2> QED BY <2>1, <2>2, <2>3, RowsTyped, NarrowestHolds DEF t
<1> QED BY <1>2, <1>3

-----------------------------------------------------------------------------
(* The inductive invariant.                                                *)

Fresh == pc \in {"call", "delta"} =>
           pos = 0 /\ dict = << >> /\ out = << >> /\ taken = << >> /\ frame = NoFrame

Framed ==
  /\ frame \in [offset : Int, target : Targets]
  /\ Honest => \A r \in AllRows : Row(r[1], r[2]) - frame.offset \in Holds(frame.target)

Narrowed(v) == As(v - frame.offset, frame.target)

DictNarrowed ==
  /\ dict \in Seq(Int) /\ Len(dict) = Len(DictAt(pos + 1))
  /\ \A i \in 1..Len(dict) : dict[i] = Narrowed(DictAt(pos + 1)[i])

Sourced ==
  /\ out \in Seq(Int) /\ taken \in Seq(AllRows) /\ Len(taken) = Len(out)
  /\ \A j \in 1..Len(out) : out[j] = Narrowed(Row(taken[j][1], taken[j][2]))

Panicked ==
  pc = "panicked" =>
    /\ build = "debug" /\ pos < Len(Pages)
    /\ Honest => page.kind = "dict"

IInv ==
  /\ request \in Requests /\ pos \in 0..Len(Pages)
  /\ Fresh /\ Framed /\ DictNarrowed /\ Sourced /\ Panicked

LEMMA InitInv == Init => IInv
<1> SUFFICES ASSUME Init PROVE IInv
  OBVIOUS
<1>1. /\ request \in Requests /\ pos = 0 /\ dict = << >> /\ out = << >> /\ taken = << >>
      /\ frame = NoFrame /\ pc # "panicked"
  BY DEF Init
<1>2. Fresh /\ Panicked /\ pos \in 0..Len(Pages)
  BY <1>1, PagesTyped DEF Fresh, Panicked
<1>3. Framed
  <2>1. \A v \in Holds(I64) : v - 0 = v
    BY Whole
  <2> QED BY <1>1, <2>1, RowsTyped, Whole DEF Framed, NoFrame
<1>4. DictAt(pos + 1) = << >>
  BY <1>1, DictAtNone
<1>5. DictNarrowed /\ Sourced
  BY <1>1, <1>4 DEF DictNarrowed, Sourced
<1> QED BY <1>1, <1>2, <1>3, <1>5 DEF IInv

(* Every call reads in a frame that holds what it may be told of.          *)
LEMMA CallInv ==
  ASSUME IInv, pc = "call", request' = request, pc' # "panicked", pc' # "delta", pc' # "call",
         UNCHANGED <<pos, dict, out, taken>>, Framed'
  PROVE  IInv'
<1>1. /\ pos = 0 /\ dict = << >> /\ out = << >> /\ taken = << >> /\ request \in Requests
  BY DEF IInv, Fresh
<1>2. Pages' = Pages /\ DictAt(1)' = DictAt(1)
  BY Same
<1>3. request' \in Requests /\ pos' \in 0..Len(Pages') /\ Fresh' /\ Panicked'
  BY <1>1, <1>2, PagesTyped DEF Fresh, Panicked
<1>4. DictAt(1) = << >>
  BY DictAtNone
<1>5. DictNarrowed' /\ Sourced'
  BY <1>1, <1>2, <1>4 DEF DictNarrowed, Sourced
<1> QED BY <1>3, <1>5 DEF IInv

LEMMA DowncastInv == IInv /\ read_column_i64_downcast => IInv'
<1> SUFFICES ASSUME IInv, read_column_i64_downcast PROVE IInv'
  OBVIOUS
<1> DEFINE t == column_narrow_target(request.stats)
<1>1. /\ pc = "call" /\ pc' = "pages" /\ request' = request /\ UNCHANGED <<pos, dict, out, taken>>
      /\ frame' = [offset |-> 0, target |-> t] /\ request.kind = "downcast" /\ request \in Requests
  BY DEF read_column_i64_downcast, Start, IInv
<1>2. t \in Targets
  <2>1. \A a, b \in Int : narrowest_int_target(a, b) \in Targets
    BY NarrowestHolds
  <2>2. \A m \in Seq(Holds(I64)) : Len(m) = 1 => m[1] \in Int
    BY First, Whole
  <2>3. /\ Or(request.stats.min_value, request.stats.min) \in Seq(Holds(I64))
        /\ Or(request.stats.max_value, request.stats.max) \in Seq(Holds(I64))
    BY <1>1, RequestsAssumption DEF Or
  <2> QED BY <2>1, <2>2, <2>3, Whole DEF column_narrow_target
<1>3. ASSUME Honest, NEW r \in AllRows PROVE Row(r[1], r[2]) - 0 \in Holds(t)
  <2>1. Row(r[1], r[2]) \in Holds(t) /\ Row(r[1], r[2]) \in Int
    BY <1>1, <1>3, StatsAllow, RowsTyped, Whole DEF Honest
  <2> QED BY <2>1
<1> HIDE DEF t
<1>4. Framed'
  BY <1>1, <1>2, <1>3, Same DEF Framed
<1> QED BY <1>1, <1>4, CallInv

LEMMA AutoInv == IInv /\ decode_plain_auto => IInv'
<1> SUFFICES ASSUME IInv, decode_plain_auto PROVE IInv'
  OBVIOUS
<1> DEFINE t == narrowest_int_target(request.min, request.max)
<1>1. /\ pc = "call" /\ pc' = "pages" /\ request' = request /\ UNCHANGED <<pos, dict, out, taken>>
      /\ frame' = [offset |-> 0, target |-> t] /\ request.kind = "auto" /\ request \in Requests
  BY DEF decode_plain_auto, Start, IInv
<1>2. request.min \in Int /\ request.max \in Int
  BY <1>1, RequestsAssumption, Whole
<1>3. /\ t \in Targets
      /\ \A v \in Holds(I64) : request.min <= v /\ v <= request.max => v \in Holds(t)
  BY <1>2, NarrowestHolds
<1> HIDE DEF t
<1>4. ASSUME Honest, NEW r \in AllRows PROVE Row(r[1], r[2]) - 0 \in Holds(t)
  <2>1. request.min <= Row(r[1], r[2]) /\ Row(r[1], r[2]) <= request.max
    BY <1>1, <1>4 DEF Honest, Between, Ranked
  <2>2. Row(r[1], r[2]) \in Holds(t) /\ Row(r[1], r[2]) \in Int
    BY <1>1, <1>3, <2>1, RowsTyped, Whole
  <2> QED BY <2>2
<1>5. Framed'
  BY <1>1, <1>3, <1>4, Same DEF Framed
<1> QED BY <1>1, <1>5, CallInv

LEMMA FrameInv == IInv /\ decode_plain_frame_auto => IInv'
<1> SUFFICES ASSUME IInv, decode_plain_frame_auto PROVE IInv'
  OBVIOUS
<1> DEFINE f == frame_of_reference_target(request.min, request.max)
<1>1. /\ pc = "call" /\ pc' = "pages" /\ request' = request /\ UNCHANGED <<pos, dict, out, taken>>
      /\ frame' = f /\ request.kind = "frame" /\ request \in Requests
  BY DEF decode_plain_frame_auto, Start, IInv
<1>2. request.min \in Int /\ request.max \in Int
  BY <1>1, RequestsAssumption, Whole
<1>3. f \in [offset : Int, target : Targets]
  <2>1. CASE request.max - request.min < 2 * Half[4]
    BY <1>2, <2>1, NarrowestHolds DEF frame_of_reference_target
  <2>2. CASE ~(request.max - request.min < 2 * Half[4])
    BY <2>2, Whole DEF frame_of_reference_target
  <2> QED BY <2>1, <2>2
<1>4. ASSUME Honest, NEW r \in AllRows PROVE Row(r[1], r[2]) - f.offset \in Holds(f.target)
  <2>1. request.min <= Row(r[1], r[2]) /\ Row(r[1], r[2]) <= request.max
    BY <1>1, <1>4 DEF Honest, Between, Ranked
  <2>2. request.min <= request.max
    BY <1>1, <1>4 DEF Honest
  <2>3. Row(r[1], r[2]) \in Holds(I64)
    BY <1>1, <1>4, RowsTyped
  <2> QED BY <1>2, <2>1, <2>2, <2>3, FrameHolds
<1> HIDE DEF f
<1>5. Framed'
  BY <1>1, <1>3, <1>4, Same DEF Framed
<1> QED BY <1>1, <1>5, CallInv

LEMMA RangeInv == IInv /\ read_column_with_range => IInv'
<1> SUFFICES ASSUME IInv, read_column_with_range PROVE IInv'
  OBVIOUS
<1>1. /\ pc = "call" /\ pc' \in {"pages", "failed"} /\ request' = request
      /\ UNCHANGED <<pos, dict, out, taken>> /\ frame' \in {NoFrame, frame}
  BY DEF read_column_with_range, Start, Stop
<1>2. frame' = frame
  BY <1>1 DEF IInv, Fresh
<1>3. Framed'
  BY <1>1, <1>2, Same DEF IInv, Framed
<1> QED BY <1>1, <1>3, CallInv

-----------------------------------------------------------------------------
(* Steps over the pages.                                                   *)

LEMMA KeptSourced ==
  ASSUME Sourced, request' = request, UNCHANGED <<frame, out, taken>> PROVE Sourced'
  BY Same DEF Sourced, Narrowed

LEMMA StayInv ==
  ASSUME IInv, UNCHANGED <<request, frame, pos, dict, out, taken>>, Fresh', Panicked' PROVE IInv'
<1>1. Pages' = Pages /\ DictAt(pos + 1)' = DictAt(pos + 1) /\ Framed' /\ Sourced'
  BY Same, KeptSourced DEF IInv, Framed
<1>2. DictNarrowed'
  BY <1>1 DEF IInv, DictNarrowed, Narrowed
<1> QED BY <1>1, <1>2 DEF IInv

LEMMA AdvanceInv ==
  ASSUME IInv, AtPage, UNCHANGED <<request, build, frame>>, pos' = pos + 1,
         pc' \in {"pages", "done"}, Sourced',
         dict' = IF page.kind = "dict" THEN Narrow(page.vals) ELSE dict
  PROVE  IInv'
<1> DEFINE k == pos + 1
<1>1. /\ request \in Requests /\ k \in 1..Len(Pages) /\ k \in DOMAIN Pages /\ page = Pages[k]
      /\ frame \in [offset : Int, target : Targets]
  BY PagesTyped DEF IInv, AtPage, page, Framed
<1>2. Pages' = Pages /\ Framed' /\ \A j : DictAt(j)' = DictAt(j)
  BY Same DEF IInv, Framed
<1>3. request' \in Requests /\ pos' \in 0..Len(Pages') /\ Fresh' /\ Panicked'
  BY <1>1, <1>2 DEF Fresh, Panicked
<1>4. DictAt(k + 1) = IF page.kind = "dict" THEN page.vals ELSE DictAt(k)
  BY <1>1, DictStep
<1>5. DictAt(pos + 1)' = DictAt(k + 1)
  BY <1>2
<1>6. CASE page.kind = "dict"
  <2>1. page.vals \in Seq(Holds(I64)) /\ \A v \in Holds(I64) : v \in Int
    BY <1>1, PagesTyped, Whole
  <2>2. /\ dict' = [i \in 1..Len(page.vals) |-> Narrowed(page.vals[i])]
        /\ \A i \in 1..Len(page.vals) : Narrowed(page.vals[i]) \in Int
    <3>1. \A i \in 1..Len(page.vals) : page.vals[i] - frame.offset \in Int
      BY <1>1, <2>1
    <3>2. \A i \in 1..Len(page.vals) : Narrowed(page.vals[i]) \in Int
      BY <1>1, <3>1, AsIsInt DEF Narrowed
    <3> QED BY <1>6, <2>1, <3>2 DEF Narrow, Narrowed
  <2>3. dict' \in Seq(Int) /\ Len(dict') = Len(page.vals)
    BY <2>1, <2>2
  <2>4. DictNarrowed'
    BY <1>4, <1>5, <1>6, <2>2, <2>3 DEF DictNarrowed, Narrowed
  <2> QED BY <1>2, <1>3, <2>4 DEF IInv
<1>7. CASE page.kind # "dict"
  <2>1. DictNarrowed'
    BY <1>4, <1>5, <1>7 DEF IInv, DictNarrowed, Narrowed
  <2> QED BY <1>2, <1>3, <2>1 DEF IInv
<1> QED BY <1>6, <1>7

LEMMA DictionaryInv == IInv /\ DictionaryPage => IInv'
<1> SUFFICES ASSUME IInv, DictionaryPage PROVE IInv'
  OBVIOUS
<1>1. CASE Loses(page.vals)
  <2>1. /\ UNCHANGED <<request, build, frame, pos, dict, out, taken>> /\ pc' = "panicked"
        /\ build = "debug" /\ AtPage /\ page.kind = "dict"
    BY <1>1 DEF DictionaryPage, Stop, Loses
  <2>2. page' = page /\ Pages' = Pages
    BY <2>1 DEF page, Pages
  <2>3. Fresh' /\ Panicked'
    BY <2>1, <2>2 DEF Fresh, Panicked, AtPage
  <2> QED BY <2>1, <2>3, StayInv
<1>2. CASE ~Loses(page.vals)
  <2>1. /\ UNCHANGED <<request, build, frame, out, taken>> /\ pc' \in {"pages", "done"}
        /\ AtPage /\ page.kind = "dict" /\ dict' = Narrow(page.vals) /\ pos' = pos + 1
    BY <1>2 DEF DictionaryPage, NextPage
  <2>2. Sourced'
    BY <2>1, KeptSourced DEF IInv
  <2> QED BY <2>1, <2>2, AdvanceInv
<1> QED BY <1>1, <1>2

LEMMA IndexInv == IInv /\ IndexPage => IInv'
<1> SUFFICES ASSUME IInv, IndexPage PROVE IInv'
  OBVIOUS
<1>1. /\ UNCHANGED <<request, build, frame, out, taken, dict>> /\ pc' \in {"pages", "done"}
      /\ AtPage /\ page.kind # "dict" /\ pos' = pos + 1
  BY DEF IndexPage, NextPage
<1>2. Sourced'
  BY <1>1, KeptSourced DEF IInv
<1> QED BY <1>1, <1>2, AdvanceInv

LEMMA SkipInv == IInv /\ SkipPage => IInv'
<1> SUFFICES ASSUME IInv, SkipPage PROVE IInv'
  OBVIOUS
<1>1. /\ UNCHANGED <<request, build, frame, out, taken, dict>> /\ pc' = "pages"
      /\ AtPage /\ page.kind # "dict" /\ pos' = pos + 1
  BY DEF SkipPage, AtPage, IsData
<1>2. Sourced'
  BY <1>1, KeptSourced DEF IInv
<1> QED BY <1>1, <1>2, AdvanceInv

LEMMA StopInv == IInv /\ (PageFails \/ LastPage) => IInv'
<1> SUFFICES ASSUME IInv, PageFails \/ LastPage PROVE IInv'
  OBVIOUS
<1>1. UNCHANGED <<request, build, frame, pos, dict, out, taken>> /\ pc' \in {"failed", "done"}
  BY DEF PageFails, LastPage, Stop
<1>2. Fresh' /\ Panicked'
  BY <1>1 DEF Fresh, Panicked
<1> QED BY <1>1, <1>2, StayInv

LEMMA Concat ==
  ASSUME NEW S, NEW p \in Seq(S), NEW q \in Seq(S), NEW j \in 1..(Len(p) + Len(q))
  PROVE  (p \o q)[j] = IF j <= Len(p) THEN p[j] ELSE q[j - Len(p)]
  OBVIOUS

(* Rows appended with the places they come from.                           *)
LEMMA AppendSourced ==
  ASSUME IInv, UNCHANGED <<request, frame>>, NEW n \in Nat, NEW k,
         NEW f \in [1..n -> Int], out' = out \o f,
         taken' = taken \o [i \in 1..n |-> <<k, i>>],
         \A i \in 1..n : <<k, i>> \in AllRows /\ f[i] = Narrowed(Row(k, i))
  PROVE  Sourced'
<1> DEFINE g == [i \in 1..n |-> <<k, i>>]
<1>1. /\ out \in Seq(Int) /\ taken \in Seq(AllRows) /\ Len(taken) = Len(out)
      /\ \A j \in 1..Len(out) : out[j] = Narrowed(Row(taken[j][1], taken[j][2]))
  BY DEF IInv, Sourced
<1>2. f \in Seq(Int) /\ Len(f) = n /\ g \in Seq(AllRows) /\ Len(g) = n
  OBVIOUS
<1>3. \A i \in 1..n : g[i] = <<k, i>> /\ g[i][1] = k /\ g[i][2] = i
  OBVIOUS
<1> HIDE DEF g
<1>4. out' \in Seq(Int) /\ taken' \in Seq(AllRows) /\ Len(out') = Len(out) + n /\ Len(taken') = Len(out')
  BY <1>1, <1>2 DEF g
<1>5. ASSUME NEW j \in 1..Len(out') PROVE out'[j] = Narrowed(Row(taken'[j][1], taken'[j][2]))
  <2>1. CASE j <= Len(out)
    <3>1. out'[j] = out[j] /\ taken'[j] = taken[j] /\ j \in 1..Len(out)
      BY <1>1, <1>2, <1>4, <2>1 DEF g
    <3> QED BY <1>1, <3>1
  <2>2. CASE j > Len(out)
    <3> DEFINE i == j - Len(out)
    <3>1. i \in 1..n /\ j \in 1..(Len(out) + Len(f)) /\ j \in 1..(Len(taken) + Len(g)) /\ ~(j <= Len(out))
      BY <1>1, <1>2, <1>4, <2>2
    <3>2. taken' = taken \o g
      BY DEF g
    <3>3. out'[j] = f[i]
      <4>1. (out \o f)[j] = IF j <= Len(out) THEN out[j] ELSE f[j - Len(out)]
        BY <1>1, <1>2, <3>1, Concat
      <4> QED BY <3>1, <4>1
    <3>4. taken'[j] = g[i]
      <4>1. (taken \o g)[j] = IF j <= Len(taken) THEN taken[j] ELSE g[j - Len(taken)]
        BY <1>1, <1>2, <3>1, Concat
      <4> QED BY <1>1, <3>1, <3>2, <4>1
    <3> HIDE DEF i
    <3> QED BY <1>3, <3>1, <3>3, <3>4
  <2> QED BY <1>1, <1>4, <2>1, <2>2
<1>6. AllRows' = AllRows /\ \A a, b : Row(a, b)' = Row(a, b)
  BY Same
<1>7. \A v : Narrowed(v)' = Narrowed(v)
  BY DEF Narrowed
<1>8. \A j \in 1..Len(out') : out'[j] = Narrowed(Row(taken[j][1], taken[j][2]))'
  BY <1>5, <1>6, <1>7
<1> QED BY <1>4, <1>6, <1>8 DEF Sourced

LEMMA DataInv == IInv /\ DataPage => IInv'
<1> SUFFICES ASSUME IInv, DataPage PROVE IInv'
  OBVIOUS
<1> DEFINE k == pos + 1
           d == DictAt(k)
           n == Len(page.vals)
<1>1. /\ AtPage /\ IsData(page) /\ Decodable(page, dict) /\ request \in Requests
      /\ k \in DOMAIN Pages /\ page = Pages[k] /\ page.vals \in Seq(Holds(I64)) /\ n \in Nat
      /\ k \in 1..(Len(Pages) + 1) /\ frame \in [offset : Int, target : Targets]
  BY PagesTyped DEF DataPage, AtPage, IInv, Framed, page
<1>2. /\ d \in Seq(Holds(I64)) /\ dict \in Seq(Int) /\ Len(dict) = Len(d)
      /\ \A i \in 1..Len(dict) : dict[i] = Narrowed(d[i])
  BY <1>1, DictTyped DEF IInv, DictNarrowed
<1>3. Readable(k)
  BY <1>1, <1>2 DEF Readable, Decodable
<1>4. \A i \in 1..n : Row(k, i) \in Holds(I64) /\ <<k, i>> \in AllRows
  BY <1>1, <1>3, RowTyped
<1>5. page.kind = "plain" => \A i \in 1..n : Row(k, i) = page.vals[i]
  BY <1>1 DEF Row, PageRows
<1>6. CASE page.kind = "plain" /\ Loses(page.vals)
  <2>1. /\ UNCHANGED <<request, build, frame, pos, dict, out, taken>> /\ pc' = "panicked"
        /\ build = "debug"
    BY <1>6 DEF DataPage, Stop, Loses
  <2>2. page' = page /\ Pages' = Pages /\ (Honest' <=> Honest)
    BY <2>1, Same DEF page, Pages
  <2>3. PICK i \in 1..n : page.vals[i] - frame.offset \notin Holds(frame.target)
    BY <1>1, <1>6 DEF Loses
  <2>4. ~Honest
    <3> SUFFICES ASSUME Honest PROVE FALSE
      OBVIOUS
    <3>1. Row(<<k, i>>[1], <<k, i>>[2]) - frame.offset \in Holds(frame.target)
      BY <1>4 DEF IInv, Framed
    <3> QED BY <1>5, <1>6, <2>3, <3>1
  <2>5. Fresh' /\ Panicked'
    BY <1>1, <2>1, <2>2, <2>4 DEF Fresh, Panicked, AtPage
  <2> QED BY <2>1, <2>5, StayInv
<1>7. CASE ~(page.kind = "plain" /\ Loses(page.vals))
  <2> DEFINE f == IF page.kind = "plain" THEN Narrow(page.vals) ELSE PageRows(page, dict)
  <2>1. /\ UNCHANGED <<request, build, frame, dict>> /\ pc' \in {"pages", "done"}
        /\ pos' = pos + 1 /\ out' = out \o f
        /\ taken' = taken \o [i \in DOMAIN page.vals |-> <<pos + 1, i>>]
    BY <1>7 DEF DataPage, NextPage
  <2>2. DOMAIN page.vals = 1..n
    BY <1>1
  <2>3. f = [i \in 1..n |-> Narrowed(Row(k, i))]
    <3>1. CASE page.kind = "plain"
      <4>1. f = [i \in 1..n |-> Narrowed(page.vals[i])]
        BY <2>2, <3>1 DEF Narrow, Narrowed
      <4> HIDE DEF f
      <4> QED BY <1>5, <3>1, <4>1
    <3>2. CASE page.kind # "plain"
      <4>1. page.kind = "coded" /\ f = [i \in 1..n |-> dict[page.vals[i] + 1]]
        BY <1>1, <3>2 DEF IsData, PageRows
      <4>2. \A i \in 1..n : page.vals[i] \in 0..(Len(dict) - 1)
        BY <1>1, <4>1 DEF Decodable
      <4>3. \A i \in 1..n : Row(k, i) = d[page.vals[i] + 1]
        BY <1>1, <4>1 DEF Row, PageRows
      <4> HIDE DEF f, d
      <4>4. \A i \in 1..n : dict[page.vals[i] + 1] = Narrowed(d[page.vals[i] + 1])
        BY <1>2, <4>2
      <4> QED BY <4>1, <4>3, <4>4
    <3> QED BY <3>1, <3>2
  <2>4. \A i \in 1..n : Narrowed(Row(k, i)) \in Int
    <3>1. \A i \in 1..n : Row(k, i) - frame.offset \in Int
      <4>1. frame.offset \in Int /\ \A v \in Holds(I64) : v \in Int
        BY <1>1, Whole
      <4>2. \A i \in 1..n : Row(k, i) \in Int
        BY <1>4, <4>1
      <4> HIDE DEF k, n
      <4> QED BY <4>1, <4>2
    <3> QED BY <1>1, <3>1, AsIsInt DEF Narrowed
  <2>5. f \in [1..n -> Int] /\ \A i \in 1..n : <<k, i>> \in AllRows /\ f[i] = Narrowed(Row(k, i))
    <3> HIDE DEF f
    <3> QED BY <1>4, <2>3, <2>4
  <2> HIDE DEF f
  <2>6. Sourced'
    BY <1>1, <2>1, <2>2, <2>5, AppendSourced
  <2>7. page.kind # "dict"
    BY <1>1 DEF IsData
  <2> QED BY <1>1, <2>1, <2>6, <2>7, AdvanceInv
<1> QED BY <1>6, <1>7

LEMMA NextInv == IInv /\ [Next]_vars => IInv'
<1> SUFFICES ASSUME IInv, [Next]_vars PROVE IInv'
  OBVIOUS
<1>1. CASE ReadNext
  BY <1>1, DowncastInv, AutoInv, FrameInv, RangeInv, DictionaryInv, IndexInv, SkipInv, DataInv,
     StopInv DEF ReadNext
<1>2. CASE UNCHANGED readVars
  <2>1. UNCHANGED <<request, build, pc, frame, pos, dict, out, taken>>
    BY <1>2 DEF readVars
  <2>2. page' = page /\ Pages' = Pages /\ (Honest' <=> Honest)
    BY <2>1, Same DEF page, Pages
  <2>3. Fresh' /\ Panicked'
    BY <2>1, <2>2 DEF IInv, Fresh, Panicked
  <2> QED BY <2>1, <2>3, StayInv
<1> QED BY <1>1, <1>2 DEF Next, vars

(* Every value handed out, widened again, is the row it was read from; and *)
(* a debug build stops only at a dictionary entry that no row refers to.   *)
LEMMA InvLossless == IInv => NarrowedIsLossless
<1> SUFFICES ASSUME IInv, Honest PROVE NarrowedIsLossless
  BY DEF NarrowedIsLossless
<1>1. /\ request \in Requests /\ frame \in [offset : Int, target : Targets]
      /\ \A r \in AllRows : Row(r[1], r[2]) - frame.offset \in Holds(frame.target)
      /\ \A r \in AllRows : Row(r[1], r[2]) \in Int
  BY RowsTyped, Whole DEF IInv, Framed
<1>2. ASSUME NEW j \in DOMAIN out PROVE out[j] + frame.offset = Row(taken[j][1], taken[j][2])
  <2>1. taken[j] \in AllRows /\ out[j] = Narrowed(Row(taken[j][1], taken[j][2]))
    BY DEF IInv, Sourced
  <2>2. out[j] = Row(taken[j][1], taken[j][2]) - frame.offset
    BY <1>1, <2>1, AsKeeps DEF Narrowed
  <2> QED BY <1>1, <2>1, <2>2
<1>3. ASSUME pc = "panicked", NEW i \in DOMAIN page.vals,
             page.vals[i] - frame.offset \notin Holds(frame.target)
      PROVE  Unused(pos + 1, i)
  <2> SUFFICES ASSUME NEW p \in ((pos + 1) + 1)..Len(Pages),
                      DictAt(p) = Pages[pos + 1].vals, Readable(p), Pages[p].kind = "coded",
                      NEW j \in DOMAIN Pages[p].vals, Pages[p].vals[j] + 1 = i
               PROVE  FALSE
    BY DEF Unused
  <2>1. page = Pages[pos + 1] /\ p \in DOMAIN Pages
    BY <1>1, PagesTyped DEF IInv, page
  <2>2. <<p, j>> \in AllRows
    BY <1>1, <2>1, RowTyped
  <2>3. Row(p, j) = page.vals[i]
    BY <1>1, <2>1, PagesTyped DEF Row, PageRows
  <2>4. Row(<<p, j>>[1], <<p, j>>[2]) - frame.offset \in Holds(frame.target)
    BY <1>1, <2>2
  <2> QED BY <1>3, <2>3, <2>4
<1>4. pc = "panicked" => build = "debug" /\ page.kind = "dict"
  BY DEF IInv, Panicked
<1> QED BY <1>2, <1>3, <1>4 DEF NarrowedIsLossless

(* Narrowing loses nothing (downcast.rs): the target is chosen from bounds *)
(* the file or the caller states, and every value read is within them.     *)
THEOREM Lossless == Spec => []NarrowedIsLossless
<1>1. Spec => []IInv
  BY InitInv, NextInv, PTL DEF Spec
<1> QED BY <1>1, InvLossless, PTL

-----------------------------------------------------------------------------
(* No row that is asked for is left out: the ordinal counts the data pages *)
(* walked, so the index speaks of the page it is asked about.              *)

Counted == data_page_ix = Ordinal(pos)

Masked ==
  mask.on =>
    /\ request.kind = "range" /\ request.indexed /\ ~Malformed(request.index)
    /\ mask.keep = select_pages_overlapping(request.index, request.lo, request.hi)

Ordered ==
  /\ \A i \in 1..Len(taken) : taken[i][1] \in 1..pos
  /\ \A i, j \in 1..Len(taken) : i < j => Before(taken[i], taken[j])

Complete ==
  Honest => \A r \in RowsIn(1..pos) : Asked(r) => \E j \in 1..Len(taken) : taken[j] = r

TInv == IInv /\ Counted /\ Masked /\ Ordered /\ Complete

LEMMA SameRows ==
  ASSUME request' = request
  PROVE  /\ \A K : RowsIn(K)' = RowsIn(K)
         /\ \A r : Asked(r)' <=> Asked(r)
         /\ \A k : Ordinal(k)' = Ordinal(k)
<1>1. Pages' = Pages /\ (\A k : DictAt(k)' = DictAt(k)) /\ \A k, i : Row(k, i)' = Row(k, i)
  BY Same
<1>2. \A k : Readable(k)' <=> Readable(k)
  BY <1>1 DEF Readable, IsData, Decodable
<1> QED BY <1>1, <1>2 DEF RowsIn, Asked, Ordinal, IsData

LEMMA NoneCounted == Ordinal(0) = 0
<1>1. {j \in 1..0 : IsData(Pages[j])} = {}
  OBVIOUS
<1> QED BY <1>1, FS_EmptySet DEF Ordinal

LEMMA CountStep ==
  ASSUME NEW k \in Nat
  PROVE  /\ Ordinal(k) \in Nat
         /\ Ordinal(k + 1) = Ordinal(k) + IF IsData(Pages[k + 1]) THEN 1 ELSE 0
<1> DEFINE T(n) == {j \in 1..n : IsData(Pages[j])}
<1>1. IsFiniteSet(T(k)) /\ Cardinality(T(k)) \in Nat
  <2>1. IsFiniteSet(1..k) /\ T(k) \subseteq 1..k
    BY FS_Interval
  <2> HIDE DEF T
  <2> QED BY <2>1, FS_Subset, FS_CardinalityType
<1>2. CASE IsData(Pages[k + 1])
  <2>1. T(k + 1) = T(k) \cup {k + 1} /\ k + 1 \notin T(k)
    BY <1>2
  <2> HIDE DEF T
  <2>2. Cardinality(T(k + 1)) = Cardinality(T(k)) + 1
    BY <1>1, <2>1, FS_AddElement
  <2> QED BY <1>1, <1>2, <2>2 DEF Ordinal, T
<1>3. CASE ~IsData(Pages[k + 1])
  <2>1. T(k + 1) = T(k)
    BY <1>3
  <2> QED BY <1>1, <1>3, <2>1 DEF Ordinal
<1> QED BY <1>2, <1>3

LEMMA RowOfPage ==
  ASSUME request \in Requests, NEW k \in 1..Len(Pages), NEW r \in RowsIn(1..k)
  PROVE  \/ r \in RowsIn(1..(k - 1))
         \/ /\ Readable(k) /\ r \in AllRows /\ r[1] = k /\ r[2] \in DOMAIN Pages[k].vals
            /\ r = <<k, r[2]>>
<1>1. PICK c \in {j \in 1..k : Readable(j)} : r \in {c} \X (DOMAIN Pages[c].vals)
  BY DEF RowsIn
<1>2. r[1] = c /\ r = <<c, r[2]>> /\ r[2] \in DOMAIN Pages[c].vals
  BY <1>1
<1>3. CASE c = k
  <2>1. k \in DOMAIN Pages
    BY PagesTyped
  <2> QED BY <1>1, <1>2, <1>3, <2>1, RowTyped
<1>4. CASE c # k
  <2>1. c \in {j \in 1..(k - 1) : Readable(j)}
    BY <1>1, <1>4, PagesTyped
  <2> QED BY <1>1, <2>1 DEF RowsIn
<1> QED BY <1>3, <1>4

(* A step that neither takes nor passes a page.                            *)
LEMMA StillTaken ==
  ASSUME TInv, UNCHANGED <<request, pos, taken, data_page_ix>> PROVE Counted' /\ Ordered' /\ Complete'
<1>1. /\ (Honest' <=> Honest) /\ RowsIn(1..pos)' = RowsIn(1..pos) /\ Ordinal(pos)' = Ordinal(pos)
      /\ \A r : Asked(r)' <=> Asked(r)
  BY Same, SameRows
<1>2. Ordered' /\ Counted'
  BY <1>1 DEF TInv, Ordered, Counted, Before
<1>3. Complete'
  BY <1>1 DEF TInv, Complete
<1> QED BY <1>2, <1>3

(* A page passed of which no row is asked for.                             *)
LEMMA PassedOver ==
  ASSUME TInv, pos < Len(Pages), UNCHANGED <<request, taken>>, pos' = pos + 1,
         Honest => \A r \in AllRows : r[1] = pos + 1 => ~Asked(r)
  PROVE  Ordered' /\ Complete'
<1>1. request \in Requests /\ pos \in Nat /\ pos + 1 \in 1..Len(Pages)
  BY PagesTyped DEF TInv, IInv
<1>2. /\ (Honest' <=> Honest) /\ RowsIn(1..pos)' = RowsIn(1..(pos + 1))
      /\ \A r : Asked(r)' <=> Asked(r)
  BY Same, SameRows
<1>3. Ordered'
  BY <1>1 DEF TInv, Ordered, Before
<1>4. ASSUME Honest, NEW r \in RowsIn(1..(pos + 1)), Asked(r)
      PROVE  \E j \in 1..Len(taken) : taken[j] = r
  <2>1. r \in RowsIn(1..((pos + 1) - 1)) \/ (r \in AllRows /\ r[1] = pos + 1)
    BY <1>1, <1>4, RowOfPage
  <2>2. (pos + 1) - 1 = pos
    BY <1>1
  <2>3. r \in RowsIn(1..pos)
    BY <1>4, <2>1, <2>2
  <2> QED BY <1>4, <2>3 DEF TInv, Complete
<1>5. Complete'
  BY <1>2, <1>4 DEF Complete
<1> QED BY <1>3, <1>5

LEMMA InitTaken == Init => TInv
<1> SUFFICES ASSUME Init PROVE TInv
  OBVIOUS
<1>1. IInv /\ pos = 0 /\ data_page_ix = 0 /\ taken = << >> /\ mask = NoMask
  BY InitInv DEF Init
<1>2. Counted /\ Masked /\ Ordered
  BY <1>1, NoneCounted DEF Counted, Masked, NoMask, Ordered
<1>3. RowsIn(1..pos) = {}
  BY <1>1 DEF RowsIn
<1> QED BY <1>1, <1>2, <1>3 DEF TInv, Complete

(* A step that leaves the mask and the request.                            *)
LEMMA StillMasked == ASSUME TInv, UNCHANGED <<request, mask>> PROVE Masked'
  BY DEF TInv, Masked

LEMMA CallTaken ==
  ASSUME TInv, \/ read_column_i64_downcast \/ decode_plain_auto
               \/ decode_plain_frame_auto \/ read_column_with_range
  PROVE  TInv'
<1>1. IInv'
  BY DowncastInv, AutoInv, FrameInv, RangeInv DEF TInv
<1>2. UNCHANGED <<request, pos, taken, data_page_ix>>
  BY DEF read_column_i64_downcast, decode_plain_auto, decode_plain_frame_auto,
         read_column_with_range, Start, Stop
<1>3. Masked'
  <2>1. CASE read_column_with_range
    <3>1. CASE mask' = NoMask \/ mask' = mask
      BY <1>2, <3>1 DEF TInv, Masked, NoMask
    <3>2. CASE ~(mask' = NoMask \/ mask' = mask)
      BY <1>2, <2>1, <3>2 DEF read_column_with_range, Start, Stop, Masked
    <3> QED BY <3>1, <3>2
  <2>2. CASE ~read_column_with_range
    BY <2>2 DEF read_column_i64_downcast, decode_plain_auto, decode_plain_frame_auto, Start,
                Masked, NoMask
  <2> QED BY <2>1, <2>2
<1> QED BY <1>1, <1>2, <1>3, StillTaken DEF TInv

(* A page that holds no rows: a dictionary, or an index page.              *)
LEMMA NoRows ==
  ASSUME TInv, AtPage, ~IsData(page), UNCHANGED <<request, mask, data_page_ix, taken>>,
         pos' = pos + 1, IInv'
  PROVE  TInv'
<1>1. request \in Requests /\ pos \in Nat /\ pos < Len(Pages) /\ page = Pages[pos + 1]
  BY PagesTyped DEF TInv, IInv, AtPage, page
<1>2. ASSUME NEW r \in AllRows, r[1] = pos + 1 PROVE FALSE
  BY <1>1, <1>2, RowsTyped DEF Readable
<1>3. Ordered' /\ Complete'
  BY <1>1, <1>2, PassedOver
<1>4. Counted'
  <2>1. Ordinal(pos + 1) = Ordinal(pos)
    BY <1>1, CountStep
  <2>2. Ordinal(pos)' = Ordinal(pos + 1)
    BY SameRows
  <2> QED BY <2>1, <2>2 DEF TInv, Counted
<1> QED BY <1>3, <1>4, StillMasked DEF TInv

LEMMA DictionaryTaken == ASSUME TInv, DictionaryPage PROVE TInv'
<1>1. IInv' /\ AtPage /\ ~IsData(page) /\ UNCHANGED <<request, mask, data_page_ix, taken>>
  BY DictionaryInv DEF TInv, DictionaryPage, NextPage, Stop, IsData
<1>2. CASE pos' = pos
  BY <1>1, <1>2, StillTaken, StillMasked DEF TInv
<1>3. CASE pos' = pos + 1
  BY <1>1, <1>3, NoRows
<1> QED BY <1>2, <1>3 DEF DictionaryPage, NextPage, Stop

LEMMA IndexTaken == ASSUME TInv, IndexPage PROVE TInv'
  BY IndexInv, NoRows DEF TInv, IndexPage, NextPage, IsData

(* A page is skipped when its index rules the whole range out.             *)
LEMMA SkipTaken == ASSUME TInv, SkipPage PROVE TInv'
<1> DEFINE n == data_page_ix + 1
           ix == request.index
<1>1. /\ IInv' /\ AtPage /\ IsData(page) /\ UNCHANGED <<request, mask, taken>>
      /\ pos' = pos + 1 /\ data_page_ix' = n
      /\ mask.on /\ n \in DOMAIN mask.keep /\ ~mask.keep[n]
  BY SkipInv DEF TInv, SkipPage, Keep
<1>2. request \in Requests /\ pos \in Nat /\ pos < Len(Pages) /\ page = Pages[pos + 1]
  BY <1>1, PagesTyped DEF TInv, IInv, AtPage, page
<1>3. /\ request.kind = "range" /\ request.indexed /\ ~Malformed(ix)
      /\ mask.keep = select_pages_overlapping(ix, request.lo, request.hi)
  BY <1>1 DEF TInv, Masked
<1>4. n = Ordinal(pos + 1) /\ n = Ordinal(pos)'  /\ Ordinal(pos) \in Nat
  <2>1. /\ Ordinal(pos) \in Nat /\ Ordinal(pos + 1) = Ordinal(pos) + 1
        /\ Ordinal(pos)' = Ordinal(pos + 1)
    BY <1>1, <1>2, CountStep, SameRows
  <2> QED BY <2>1 DEF TInv, Counted
<1>5. /\ n \in DOMAIN ix.null_pages
      /\ ix.null_pages[n] \/ ~(ix.max_values[n][1] >= request.lo)
                          \/ ~(ix.min_values[n][1] <= request.hi)
  BY <1>1, <1>3 DEF select_pages_overlapping
<1> HIDE DEF n, ix
<1>6. ASSUME Honest, NEW r \in AllRows, r[1] = pos + 1 PROVE ~Asked(r)
  <2>1. IndexHolds(ix)
    BY <1>3, <1>6 DEF Honest, ix
  <2>2. ~ix.null_pages[n] /\ Between(ix.min_values[n][1], Row(r[1], r[2]), ix.max_values[n][1], FALSE)
    BY <1>4, <1>5, <1>6, <2>1 DEF IndexHolds
  <2>3. /\ ix.min_values[n][1] \in Int /\ ix.max_values[n][1] \in Int /\ Row(r[1], r[2]) \in Int
        /\ request.lo \in Int /\ request.hi \in Int
    <3>1. \A v \in Holds(I64) : v \in Int
      BY Whole
    <3>2. /\ ix.null_pages \in Seq(BOOLEAN) /\ ix.min_values \in Seq(Seq(Holds(I64)))
          /\ ix.max_values \in Seq(Seq(Holds(I64)))
          /\ request.lo \in Holds(I64) /\ request.hi \in Holds(I64)
      BY <1>2, RequestsAssumption DEF ix
    <3>3. /\ Len(ix.min_values) = Len(ix.null_pages) /\ Len(ix.max_values) = Len(ix.null_pages)
          /\ Len(ix.min_values[n]) = 1 /\ Len(ix.max_values[n]) = 1
      BY <1>3, <1>5, <2>2 DEF Malformed
    <3>4. n \in 1..Len(ix.null_pages)
      BY <1>5, <3>2
    <3>5. ix.min_values[n] \in Seq(Holds(I64)) /\ ix.max_values[n] \in Seq(Holds(I64))
      BY <3>2, <3>3, <3>4
    <3>6. ix.min_values[n][1] \in Holds(I64) /\ ix.max_values[n][1] \in Holds(I64)
      BY <3>3, <3>5, First
    <3>7. Row(r[1], r[2]) \in Holds(I64)
      BY <1>2, <1>6, RowsTyped
    <3> QED BY <3>1, <3>2, <3>6, <3>7
  <2>4. ~(Row(r[1], r[2]) \in request.lo..request.hi)
    BY <1>5, <2>2, <2>3 DEF Between, Ranked
  <2> QED BY <1>3, <2>4 DEF Asked
<1>7. Ordered' /\ Complete'
  BY <1>1, <1>2, <1>6, PassedOver
<1>8. Counted'
  BY <1>1, <1>4 DEF Counted
<1> QED BY <1>1, <1>7, <1>8, StillMasked DEF TInv

(* The rows of a page read go behind those of the pages before it.         *)
LEMMA TakePage ==
  ASSUME TInv, pos < Len(Pages), Readable(pos + 1), UNCHANGED request, pos' = pos + 1,
         taken' = taken \o [i \in DOMAIN page.vals |-> <<pos + 1, i>>]
  PROVE  Ordered' /\ Complete'
<1> DEFINE k == pos + 1
           n == Len(page.vals)
           g == [i \in DOMAIN page.vals |-> <<k, i>>]
           m == Len(taken)
<1>1. /\ request \in Requests /\ pos \in Nat /\ k \in 1..Len(Pages) /\ page = Pages[k]
      /\ DOMAIN page.vals = 1..n /\ n \in Nat /\ k = pos + 1 /\ k \in Nat
  BY PagesTyped DEF TInv, IInv, page
<1>2. taken \in Seq(AllRows) /\ m \in Nat
  BY DEF TInv, IInv, Sourced
<1>3. g \in Seq(AllRows) /\ Len(g) = n /\ \A i \in 1..n : g[i] = <<k, i>>
  <2>1. \A i \in 1..n : <<k, i>> \in AllRows
    BY <1>1, PagesTyped, RowTyped
  <2> QED BY <1>1, <2>1
<1>4. taken' = taken \o g
  OBVIOUS
<1> HIDE DEF g, n, k
<1>5. taken' \in Seq(AllRows) /\ Len(taken') = m + n
  <2>1. \A S, p, q : p \in Seq(S) /\ q \in Seq(S) =>
          p \o q \in Seq(S) /\ Len(p \o q) = Len(p) + Len(q)
    OBVIOUS
  <2>2. taken \o g \in Seq(AllRows) /\ Len(taken \o g) = Len(taken) + Len(g)
    BY <1>2, <1>3, <2>1
  <2> QED BY <1>3, <1>4, <2>2
<1>6. ASSUME NEW j \in 1..(m + n)
      PROVE  taken'[j] = IF j <= m THEN taken[j] ELSE <<k, j - m>>
  <2>1. (taken \o g)[j] = IF j <= Len(taken) THEN taken[j] ELSE g[j - Len(taken)]
    BY <1>2, <1>3, Concat
  <2>2. ~(j <= m) => j - m \in 1..n
    BY <1>1, <1>2
  <2> QED BY <1>3, <1>4, <2>1, <2>2
<1> DEFINE t == taken'
<1>7. \A j \in 1..(m + n) : t[j] = IF j <= m THEN taken[j] ELSE <<k, j - m>>
  BY <1>6
<1>8. \A j \in 1..m : taken[j][1] \in 1..pos
  BY DEF TInv, Ordered
<1>9. ASSUME NEW j \in 1..(m + n) PROVE taken'[j][1] \in 1..k
  <2>1. CASE j <= m
    <3>1. taken'[j] = taken[j] /\ j \in 1..m
      BY <1>1, <1>2, <1>6, <2>1
    <3> QED BY <1>1, <1>8, <3>1
  <2>2. CASE ~(j <= m)
    BY <1>1, <1>6, <2>2
  <2> QED BY <2>1, <2>2
<1>10. ASSUME NEW i \in 1..(m + n), NEW j \in 1..(m + n), i < j PROVE Before(t[i], t[j])
  <2>0. i \in Nat /\ j \in Nat /\ m \in Nat /\ 1 <= i /\ 1 <= j
    <3> HIDE DEF m
    <3> QED BY <1>1, <1>2
  <2>1. CASE j <= m
    <3>1. i \in 1..m /\ j \in 1..m /\ i <= m
      <4> HIDE DEF m, t
      <4> QED BY <1>10, <2>0, <2>1
    <3>2. t[i] = taken[i] /\ t[j] = taken[j]
      <4> HIDE DEF m, t
      <4> QED BY <1>7, <2>1, <3>1
    <3>3. Before(taken[i], taken[j])
      BY <1>10, <3>1 DEF TInv, Ordered
    <3> HIDE DEF t
    <3> QED BY <3>2, <3>3
  <2>2. CASE i <= m /\ ~(j <= m)
    <3> HIDE DEF m, t
    <3>1. i \in 1..m
      BY <2>0, <2>2
    <3>2. t[i] = taken[i] /\ t[j] = <<k, j - m>>
      BY <1>7, <2>2
    <3>3. taken[i][1] \in 1..pos
      BY <1>8, <3>1
    <3>4. t[i][1] < k /\ t[j][1] = k
      BY <1>1, <3>2, <3>3
    <3> QED BY <3>4 DEF Before
  <2>3. CASE ~(i <= m)
    <3> HIDE DEF m, t
    <3>1. ~(j <= m) /\ i - m < j - m
      BY <1>10, <2>0, <2>3
    <3>2. t[i] = <<k, i - m>> /\ t[j] = <<k, j - m>>
      BY <1>7, <2>3, <3>1
    <3>3. t[i][1] = t[j][1] /\ t[i][2] < t[j][2]
      BY <3>1, <3>2
    <3> QED BY <3>3 DEF Before
  <2> QED BY <2>1, <2>2, <2>3
<1>11. Ordered'
  <2>1. \A i \in 1..Len(t) : t[i][1] \in 1..(pos')
    BY <1>1, <1>5, <1>9
  <2>2. \A i, j \in 1..Len(t) : i < j => Before(t[i], t[j])
    BY <1>5, <1>10
  <2> QED BY <2>1, <2>2 DEF Ordered, Before
<1>12. ASSUME Honest, NEW r \in RowsIn(1..k), Asked(r)
       PROVE  \E j \in 1..(m + n) : taken'[j] = r
  <2>1. CASE r \in RowsIn(1..(k - 1))
    <3>1. k - 1 = pos
      BY <1>1
    <3>2. PICK j \in 1..m : taken[j] = r
      BY <1>12, <2>1, <3>1 DEF TInv, Complete
    <3>3. j \in 1..(m + n) /\ j <= m
      BY <1>1, <1>2, <3>2
    <3> QED BY <1>6, <3>2, <3>3
  <2>2. CASE r = <<k, r[2]>> /\ r[2] \in 1..n
    <3>1. m + r[2] \in 1..(m + n) /\ ~(m + r[2] <= m) /\ (m + r[2]) - m = r[2]
      BY <1>1, <1>2, <2>2
    <3>2. taken'[m + r[2]] = <<k, (m + r[2]) - m>>
      BY <1>6, <3>1
    <3> QED BY <2>2, <3>1, <3>2
  <2> QED BY <1>1, <1>12, <2>1, <2>2, RowOfPage
<1>13. /\ (Honest' <=> Honest) /\ RowsIn(1..pos)' = RowsIn(1..k)
       /\ \A r : Asked(r)' <=> Asked(r)
  BY <1>1, Same, SameRows
<1>14. Complete'
  BY <1>5, <1>12, <1>13 DEF Complete
<1> QED BY <1>11, <1>14

LEMMA DataTaken == ASSUME TInv, DataPage PROVE TInv'
<1>1. IInv' /\ AtPage /\ IsData(page) /\ Decodable(page, dict) /\ UNCHANGED <<request, mask>>
  BY DataInv DEF TInv, DataPage, NextPage, Stop
<1>2. /\ request \in Requests /\ pos \in Nat /\ pos < Len(Pages) /\ page = Pages[pos + 1]
      /\ pos + 1 \in 1..(Len(Pages) + 1)
  BY <1>1, PagesTyped DEF TInv, IInv, AtPage, page
<1>3. CASE UNCHANGED <<pos, taken, data_page_ix>>
  BY <1>1, <1>3, StillTaken, StillMasked DEF TInv
<1>4. CASE ~UNCHANGED <<pos, taken, data_page_ix>>
  <2>1. /\ pos' = pos + 1 /\ data_page_ix' = data_page_ix + 1
        /\ taken' = taken \o [i \in DOMAIN page.vals |-> <<pos + 1, i>>]
    BY <1>4 DEF DataPage, NextPage, Stop
  <2>2. DictAt(pos + 1) \in Seq(Holds(I64)) /\ Len(dict) = Len(DictAt(pos + 1)) /\ dict \in Seq(Int)
    BY <1>2, DictTyped DEF TInv, IInv, DictNarrowed
  <2>3. Readable(pos + 1)
    BY <1>1, <1>2, <2>2 DEF Readable, Decodable
  <2>4. Ordered' /\ Complete'
    BY <1>1, <1>2, <2>1, <2>3, TakePage
  <2>5. Counted'
    <3>1. Ordinal(pos + 1) = Ordinal(pos) + 1 /\ Ordinal(pos)' = Ordinal(pos + 1)
      BY <1>1, <1>2, <2>1, CountStep, SameRows
    <3> QED BY <2>1, <3>1 DEF TInv, Counted
  <2> QED BY <1>1, <2>4, <2>5, StillMasked DEF TInv
<1> QED BY <1>3, <1>4

LEMMA StopTaken == ASSUME TInv, PageFails \/ LastPage PROVE TInv'
<1>1. IInv' /\ UNCHANGED <<request, mask, pos, taken, data_page_ix>>
  BY StopInv DEF TInv, PageFails, LastPage, Stop
<1> QED BY <1>1, StillTaken, StillMasked DEF TInv

LEMMA NextTaken == TInv /\ [Next]_vars => TInv'
<1> SUFFICES ASSUME TInv, [Next]_vars PROVE TInv'
  OBVIOUS
<1>1. CASE ReadNext
  BY <1>1, CallTaken, DictionaryTaken, IndexTaken, SkipTaken, DataTaken, StopTaken DEF ReadNext
<1>2. CASE UNCHANGED readVars
  <2>1. IInv' /\ UNCHANGED <<request, mask, pos, taken, data_page_ix>>
    <3>1. [Next]_vars
      OBVIOUS
    <3> QED BY <1>2, <3>1, NextInv DEF TInv, readVars
  <2> QED BY <2>1, StillTaken, StillMasked DEF TInv
<1> QED BY <1>1, <1>2 DEF Next, vars

LEMMA TakenEvery == TInv => EveryRowTaken
<1> SUFFICES ASSUME TInv PROVE EveryRowTaken
  OBVIOUS
<1>1. DOMAIN taken = 1..Len(taken)
  BY DEF TInv, IInv, Sourced
<1> QED BY <1>1 DEF TInv, Ordered, Complete, EveryRowTaken

(* Rows are taken in file order, each once, and none that a range read     *)
(* asks for is skipped with its page (page_index.rs, read.rs).             *)
THEOREM EveryRow == Spec => []EveryRowTaken
<1>1. Spec => []TInv
  BY InitTaken, NextTaken, PTL DEF Spec
<1> QED BY <1>1, TakenEvery, PTL

-----------------------------------------------------------------------------
(* Wrapping: numbers a multiple of m apart.                                *)

Near(a, b, m) == \E q \in Int : a = b + q * m

LEMMA NearMod ==
  ASSUME NEW x \in Int, NEW m \in Nat \ {0} PROVE x % m \in 0..(m - 1) /\ Near(x % m, x, m)
<1> DEFINE q == x \div m
<1>1. x % m \in 0..(m - 1) /\ q \in Int /\ x = q * m + (x % m)
  OBVIOUS
<1> HIDE DEF q
<1>2. -q \in Int /\ q * m \in Int /\ (-q) * m = -(q * m)
  BY <1>1
<1>3. x % m = x + (-q) * m
  BY <1>1, <1>2
<1> QED BY <1>1, <1>2, <1>3 DEF Near

(* No two numbers below m are a multiple of it apart.                      *)
LEMMA NearOne ==
  ASSUME NEW m \in Nat \ {0}, NEW r \in 0..(m - 1), NEW s \in 0..(m - 1), Near(r, s, m)
  PROVE  r = s
<1>1. PICK q \in Int : r = s + q * m
  BY DEF Near
<1> DEFINE p == q * m
<1>2. p \in Int /\ p < m /\ -m < p
  BY <1>1
<1>3. q >= 1 => p >= m
  OBVIOUS
<1>4. q <= -1 => p <= -m
  OBVIOUS
<1>5. q = 0 => p = 0
  OBVIOUS
<1> HIDE DEF p
<1>6. p = 0
  BY <1>2, <1>3, <1>4, <1>5
<1> QED BY <1>1, <1>6 DEF p

LEMMA NearSame == ASSUME NEW a \in Int, NEW m \in Int PROVE Near(a, a, m)
<1>1. a = a + 0 * m /\ 0 \in Int
  OBVIOUS
<1> QED BY <1>1 DEF Near

LEMMA NearAdd ==
  ASSUME NEW a \in Int, NEW b \in Int, NEW c \in Int, NEW d \in Int, NEW m \in Int,
         Near(a, b, m), Near(c, d, m)
  PROVE  Near(a + c, b + d, m) /\ Near(b, a, m)
<1>1. PICK p \in Int : a = b + p * m
  BY DEF Near
<1>2. PICK q \in Int : c = d + q * m
  BY DEF Near
<1>3. p + q \in Int /\ a + c = (b + d) + (p + q) * m
  BY <1>1, <1>2
<1>4. -p \in Int /\ b = a + (-p) * m
  BY <1>1
<1> QED BY <1>3, <1>4 DEF Near

LEMMA NearNear ==
  ASSUME NEW a \in Int, NEW b \in Int, NEW c \in Int, NEW m \in Int, Near(a, b, m), Near(b, c, m)
  PROVE  Near(a, c, m)
<1>1. PICK p \in Int : a = b + p * m
  BY DEF Near
<1>2. PICK q \in Int : b = c + q * m
  BY DEF Near
<1>3. p + q \in Int /\ a = c + (p + q) * m
  BY <1>1, <1>2
<1> QED BY <1>3 DEF Near

Span(bytes) == 2 * Half[bytes]

LEMMA Spans ==
  \A b \in Sizes :
    /\ Half[b] \in Nat \ {0} /\ Span(b) \in Nat \ {0}
    /\ Bits[b] \in Nat /\ Span(b) = 2 ^ Bits[b]
    /\ Holds(Signed(b)) = (-Half[b])..(Half[b] - 1)
    /\ \A v \in Int : As(v, Signed(b)) = ((v + Half[b]) % Span(b)) - Half[b]
<1> SUFFICES ASSUME NEW b \in Sizes
             PROVE  /\ Half[b] \in Nat \ {0} /\ Span(b) \in Nat \ {0}
                    /\ Bits[b] \in Nat /\ Span(b) = 2 ^ Bits[b]
                    /\ Holds(Signed(b)) = (-Half[b])..(Half[b] - 1)
                    /\ \A v \in Int : As(v, Signed(b)) = ((v + Half[b]) % Span(b)) - Half[b]
  OBVIOUS
<1>1. Half[b] \in Nat \ {0} /\ Bits[b] \in Nat /\ 2 * Half[b] = 2 ^ Bits[b]
  BY WidthsAssumption
<1>2. Span(b) \in Nat \ {0} /\ Span(b) = 2 ^ Bits[b]
  BY <1>1 DEF Span
<1>3. Lo(Signed(b)) = -Half[b] /\ Hi(Signed(b)) = Half[b] - 1 /\ Signed(b).bytes = b
  BY DEF Lo, Hi, Signed
<1>4. Holds(Signed(b)) = (-Half[b])..(Half[b] - 1)
  BY <1>3 DEF Holds
<1>5. ASSUME NEW v \in Int PROVE As(v, Signed(b)) = ((v + Half[b]) % Span(b)) - Half[b]
  <2>1. As(v, Signed(b)) = ((v - (-Half[b])) % Span(b)) + (-Half[b])
    BY <1>3 DEF As, Span
  <2>2. v - (-Half[b]) = v + Half[b] /\ v + Half[b] \in Int
    BY <1>1
  <2> DEFINE r == (v + Half[b]) % Span(b)
  <2>3. r \in Int
    <3>1. r \in 0..(Span(b) - 1)
      BY <1>2, <2>2, NearMod
    <3> HIDE DEF r
    <3> QED BY <1>2, <3>1
  <2> HIDE DEF r
  <2> QED BY <1>1, <2>1, <2>2, <2>3 DEF r
<1> QED BY <1>1, <1>2, <1>4, <1>5

(* `as' gives the number of the width that is near its operand.            *)
LEMMA AsNear ==
  ASSUME NEW b \in Sizes, NEW v \in Int
  PROVE  /\ As(v, Signed(b)) \in Holds(Signed(b)) /\ As(v, Signed(b)) \in Int
         /\ Near(As(v, Signed(b)), v, Span(b))
<1> DEFINE x == v + Half[b]
           r == x % Span(b)
<1>1. Half[b] \in Int /\ Span(b) = 2 * Half[b] /\ x \in Int /\ Span(b) \in Nat \ {0}
  BY Spans DEF Span
<1>2. r \in 0..(Span(b) - 1) /\ Near(r, x, Span(b))
  BY <1>1, NearMod
<1>3. As(v, Signed(b)) = r - Half[b]
  BY Spans
<1> HIDE DEF r
<1>4. r - Half[b] \in Holds(Signed(b)) /\ r - Half[b] \in Int /\ r \in Int
  <2>1. Holds(Signed(b)) = (-Half[b])..(Half[b] - 1)
    BY Spans
  <2> QED BY <1>1, <1>2, <2>1
<1>5. -Half[b] \in Int /\ Near(-Half[b], -Half[b], Span(b))
  BY <1>1, NearSame
<1>6. Near(r + (-Half[b]), x + (-Half[b]), Span(b))
  BY <1>1, <1>2, <1>4, <1>5, NearAdd
<1>7. r + (-Half[b]) = r - Half[b] /\ x + (-Half[b]) = v
  BY <1>1, <1>4
<1> QED BY <1>3, <1>4, <1>6, <1>7

LEMMA AsBack ==
  ASSUME NEW b \in Sizes, NEW v \in Holds(Signed(b)), NEW u \in Int, Near(u, v, Span(b))
  PROVE  As(u, Signed(b)) = v
<1> DEFINE w == As(u, Signed(b))
           h == Half[b]
           m == Span(b)
<1>1. h \in Nat \ {0} /\ m = 2 * h /\ m \in Nat \ {0} /\ v \in (-h)..(h - 1) /\ v \in Int
  <2>1. h \in Nat \ {0} /\ Holds(Signed(b)) = (-h)..(h - 1)
    BY Spans
  <2>2. m = 2 * h
    BY DEF Span
  <2> HIDE DEF h, m
  <2> QED BY <2>1, <2>2
<1>2. w \in (-h)..(h - 1) /\ w \in Int /\ Near(w, u, m)
  BY AsNear, Spans
<1> HIDE DEF w, h
<1>3. Near(w, v, m)
  BY <1>1, <1>2, NearNear
<1>4. Near(w + h, v + h, m)
  <2> HIDE DEF m
  <2>1. h \in Int /\ Near(h, h, m)
    BY <1>1, NearSame
  <2> QED BY <1>1, <1>2, <1>3, <2>1, NearAdd
<1>5. w + h \in 0..(m - 1) /\ v + h \in 0..(m - 1)
  BY <1>1, <1>2
<1> HIDE DEF m
<1>6. w + h = v + h
  BY <1>1, <1>4, <1>5, NearOne
<1>7. w = v
  BY <1>1, <1>2, <1>6
<1> QED BY <1>7 DEF w

(* What is near in the accumulator is near in the values.                  *)
LEMMA Narrower ==
  ASSUME NEW b \in {1, 2, 4, 8}, NEW x \in Int, NEW y \in Int, Near(x, y, Span(2 * b))
  PROVE  Near(x, y, Span(b))
<1> DEFINE m == Span(b)
           h == Half[2 * b]
           c == h \div m
<1>1. b \in Sizes /\ 2 * b \in Sizes
  BY DEF Sizes
<1>2. h % m = 0 /\ h \in Nat /\ m \in Nat \ {0} /\ Span(2 * b) = 2 * h
  BY <1>1, WidthsAssumption, Spans DEF Span
<1> HIDE DEF m, h
<1>3. c \in Nat /\ h = c * m
  BY <1>2
<1> HIDE DEF c
<1>4. PICK q \in Int : x = y + q * (2 * h)
  BY <1>2 DEF Near
<1>5. (q * 2 * c) \in Int /\ q * (2 * h) = (q * 2 * c) * m
  BY <1>2, <1>3
<1> QED BY <1>4, <1>5 DEF Near, m

-----------------------------------------------------------------------------
(* Sequences laid end to end.                                              *)

LEMMA EndToEnd ==
  ASSUME NEW S, NEW a \in Seq(S), NEW b \in Seq(S)
  PROVE  /\ a \o b \in Seq(S) /\ Len(a \o b) = Len(a) + Len(b)
         /\ Len(a) \in Nat /\ Len(b) \in Nat
         /\ \A i \in 1..Len(a) : (a \o b)[i] = a[i]
         /\ \A i \in 1..Len(b) : (a \o b)[Len(a) + i] = b[i]
<1>1. a \o b \in Seq(S) /\ Len(a) \in Nat /\ Len(b) \in Nat
  OBVIOUS
<1>3. Len(a \o b) = Len(a) + Len(b)
  OBVIOUS
<1>4. ASSUME NEW i \in 1..Len(a) PROVE (a \o b)[i] = a[i]
  OBVIOUS
<1>5. ASSUME NEW i \in 1..Len(b) PROVE (a \o b)[Len(a) + i] = b[i]
  <2>1. Len(a) + i - Len(a) = i /\ ~(Len(a) + i <= Len(a)) /\ Len(a) + i \in 1..(Len(a) + Len(b))
    BY <1>1
  <2> QED BY <1>1, <2>1
<1> QED BY <1>1, <1>3, <1>4, <1>5

LEMMA Identical ==
  ASSUME NEW S, NEW a \in Seq(S), NEW b \in Seq(S), Len(a) = Len(b),
         \A i \in 1..Len(a) : a[i] = b[i]
  PROVE  a = b
  OBVIOUS

LEMMA BehindIs ==
  ASSUME NEW S, NEW pieces \in Seq(Seq(S))
  PROVE  /\ Behind(pieces, Len(pieces)) = << >>
         /\ \A n \in 0..Len(pieces) : Behind(pieces, n) \in Seq(S)
         /\ \A n \in 0..(Len(pieces) - 1) : Behind(pieces, n) = pieces[n + 1] \o Behind(pieces, n + 1)
<1> DEFINE len == Len(pieces)
           f == [r \in 0..len |-> 0]
           Is(f_) == f_ = [r \in 0..len |-> IF r = 0 THEN << >> ELSE pieces[len - r + 1] \o f_[r - 1]]
           last == CHOOSE f_ : Is(f_)
           step == [r \in 1..len |-> [t \in Seq(S) |-> pieces[len - r + 1] \o t]]
<1>1. << >> \o pieces = pieces
  OBVIOUS
<1>2. \A n : Behind(pieces, n) = last[len - n]
  BY <1>1 DEF Behind
<1>3. len \in Nat /\ << >> \in Seq(S)
  OBVIOUS
<1>4. \A r \in 1..len : len - r + 1 \in 1..len /\ pieces[len - r + 1] \in Seq(S) /\ r - 1 \in 0..len
  BY <1>3
<1>5. step \in [1..len -> [Seq(S) -> Seq(S)]]
  <2>1. \A r \in 1..len : \A t \in Seq(S) : pieces[len - r + 1] \o t \in Seq(S)
    BY <1>4, EndToEnd, Zenon
  <2> QED BY <2>1
<1> HIDE DEF len
<1>6. PICK g \in [0..len -> Seq(S)] : ReadsBelow(g, len, << >>, step)
  <2> HIDE DEF step
  <2> QED BY <1>3, <1>5, Recursion
<1>7. g[0] = << >> /\ \A r \in 1..len : g[r] = pieces[len - r + 1] \o g[r - 1]
  BY <1>4, <1>6 DEF ReadsBelow
<1>8. Is(g)
  <2>1. \A r \in 0..len : g[r] = IF r = 0 THEN << >> ELSE pieces[len - r + 1] \o g[r - 1]
    <3>1. \A r \in 0..len : r = 0 \/ (r # 0 /\ r \in 1..len)
      BY <1>3
    <3> QED BY <1>7, <3>1, Zenon
  <2> QED BY <1>6, <2>1
<1>9. Is(last)
  <2> HIDE DEF Is
  <2> QED BY <1>8
<1>10. last[0] = << >> /\ \A r \in 1..len : last[r] = pieces[len - r + 1] \o last[r - 1]
  <2> HIDE DEF last
  <2>1. last = [r \in 0..len |-> IF r = 0 THEN << >> ELSE pieces[len - r + 1] \o last[r - 1]]
    BY <1>9
  <2>2. 0 \in 0..len /\ \A r \in 1..len : r \in 0..len /\ r # 0
    BY <1>3
  <2>3. \A r \in 0..len : last[r] = IF r = 0 THEN << >> ELSE pieces[len - r + 1] \o last[r - 1]
    BY <2>1, Zenon
  <2> QED BY <2>2, <2>3, Zenon
<1> HIDE DEF Is, last, step
<1>11. \A r \in 0..len : last[r] \in Seq(S)
  <2> DEFINE P == {r \in 0..len : last[r] \in Seq(S)}
  <2>1. 0 \in P
    <3>1. 0 \in 0..len /\ last[0] \in Seq(S)
      BY <1>3, <1>10
    <3> QED BY <3>1
  <2>2. ASSUME NEW r \in 0..(len - 1), r \in P PROVE r + 1 \in P
    <3>1. r + 1 \in 1..len /\ r + 1 - 1 = r /\ r + 1 \in 0..len /\ last[r] \in Seq(S)
      BY <1>3, <2>2
    <3> DEFINE q == r + 1
               t == pieces[len - q + 1]
    <3>2. last[q] = t \o last[q - 1]
      BY <1>10, <3>1
    <3>3. t \in Seq(S)
      BY <1>4, <3>1
    <3> HIDE DEF t
    <3>4. t \o last[r] \in Seq(S)
      BY <3>1, <3>3, EndToEnd
    <3>5. q \in 0..len /\ last[q] \in Seq(S)
      BY <3>1, <3>2, <3>4
    <3> QED BY <3>5
  <2> HIDE DEF P
  <2>3. \A r \in 0..len : r \in P
    BY <1>3, <2>1, <2>2, Climb
  <2> QED BY <2>3 DEF P
<1>12. ASSUME NEW n \in 0..(len - 1) PROVE Behind(pieces, n) = pieces[n + 1] \o Behind(pieces, n + 1)
  <2>1. len - n \in 1..len /\ len - (len - n) + 1 = n + 1 /\ len - n - 1 = len - (n + 1)
    BY <1>3
  <2> QED BY <1>2, <1>10, <2>1
<1>13. Behind(pieces, len) = << >>
  <2>1. len - len = 0
    BY <1>3
  <2> QED BY <1>2, <1>10, <2>1
<1>14. ASSUME NEW n \in 0..len PROVE Behind(pieces, n) \in Seq(S)
  <2>1. len - n \in 0..len
    BY <1>3
  <2> QED BY <1>2, <1>11, <2>1
<1> QED BY <1>12, <1>13, <1>14 DEF len

LEMMA BehindEmpty ==
  ASSUME NEW S, NEW pieces \in Seq(Seq(S)), NEW n \in 0..Len(pieces),
         \A i \in (n + 1)..Len(pieces) : pieces[i] = << >>
  PROVE  Behind(pieces, n) = << >>
<1> DEFINE len == Len(pieces)
           P == {r \in 0..(len - n) : Behind(pieces, len - r) = << >>}
<1>1. len \in Nat /\ len - n \in Nat
  OBVIOUS
<1>2. 0 \in P
  <2>1. len - 0 = len /\ 0 \in 0..(len - n)
    BY <1>1
  <2>2. Behind(pieces, len) = << >>
    BY BehindIs
  <2> QED BY <2>1, <2>2
<1>3. ASSUME NEW r \in 0..(len - n - 1), r \in P PROVE r + 1 \in P
  <2> DEFINE k == len - (r + 1)
  <2>1. k \in 0..(len - 1) /\ k + 1 = len - r /\ k + 1 \in (n + 1)..len /\ r + 1 \in 0..(len - n)
    BY <1>1
  <2> HIDE DEF k
  <2>2. Behind(pieces, k) = pieces[k + 1] \o Behind(pieces, k + 1)
    BY <2>1, BehindIs
  <2>3. pieces[k + 1] = << >> /\ Behind(pieces, k + 1) = << >>
    BY <1>3, <2>1
  <2>4. << >> \o << >> = << >>
    OBVIOUS
  <2> QED BY <2>1, <2>2, <2>3, <2>4 DEF k
<1> HIDE DEF P, len
<1>4. \A r \in 0..(len - n) : r \in P
  BY <1>1, <1>2, <1>3, Climb
<1>5. len - n \in P /\ len - (len - n) = n
  BY <1>1, <1>4 DEF len
<1> QED BY <1>5 DEF P

-----------------------------------------------------------------------------
(* What the decoder has in front of it: a part of what was written, all of *)
(* it when nothing was lost.                                               *)

Item == [is : {"varint", "width", "body", "data"}, v : Int, at : Nat, of : Seq(Int)]

LEMMA ItemsInTurn ==
  ASSUME NEW a \in Seq(Item), NEW b \in Seq(Item), NEW c \in Seq(Item)
  PROVE  /\ (a \o b) \o c = a \o (b \o c)
         /\ a \o b \in Seq(Item) /\ b \o c \in Seq(Item) /\ a \o (b \o c) \in Seq(Item)
<1>1. a \o b \in Seq(Item) /\ b \o c \in Seq(Item)
  BY EndToEnd
<1>2. a \o (b \o c) \in Seq(Item)
  BY <1>1, EndToEnd
<1>3. (a \o b) \o c = a \o (b \o c)
  BY ConcatAssociative
<1> QED BY <1>1, <1>2, <1>3

Ahead(c, t) ==
  /\ c \in 0..Len(units) /\ units \in Seq(Item) /\ t \in Seq(Item)
  /\ Len(units) <= c + Len(t)
  /\ payload.cut = 0 => Len(units) = c + Len(t)
  /\ \A j \in 1..(Len(units) - c) : units[c + j] = t[j]

LEMMA TakenAhead ==
  ASSUME NEW c, NEW a \in Seq(Item), NEW b \in Seq(Item), Ahead(c, a \o b),
         c + Len(a) <= Len(units)
  PROVE  /\ Ahead(c + Len(a), b)
         /\ \A j \in 1..Len(a) : units[c + j] = a[j]
<1> DEFINE n == Len(units)
           la == Len(a)
           lb == Len(b)
           ab == a \o b
<1>1. /\ c \in 0..n /\ n \in Nat /\ la \in Nat /\ lb \in Nat /\ n <= c + (la + lb) /\ c + la <= n
      /\ payload.cut = 0 => n = c + (la + lb)
      /\ \A j \in 1..(n - c) : units[c + j] = ab[j]
      /\ units \in Seq(Item)
  <2>1. Len(ab) = la + lb /\ la \in Nat /\ lb \in Nat
    BY EndToEnd
  <2> QED BY <2>1 DEF Ahead
<1>2. /\ \A i \in 1..la : ab[i] = a[i]
      /\ \A i \in 1..lb : ab[la + i] = b[i]
  BY EndToEnd
<1> HIDE DEF n, la, lb, ab
<1>3. ASSUME NEW j \in 1..la PROVE units[c + j] = a[j]
  <2>1. j \in 1..(n - c)
    BY <1>1
  <2> QED BY <1>1, <1>2, <2>1
<1>4. ASSUME NEW j \in 1..(n - (c + la)) PROVE units[c + la + j] = b[j]
  <2>1. la + j \in 1..(n - c) /\ j \in 1..lb /\ c + (la + j) = c + la + j
    BY <1>1
  <2>2. units[c + (la + j)] = ab[la + j]
    BY <1>1, <2>1
  <2> QED BY <1>2, <2>1, <2>2
<1>5. c + la \in 0..n /\ n <= c + la + lb /\ (payload.cut = 0 => n = c + la + lb)
  BY <1>1
<1> QED BY <1>1, <1>3, <1>4, <1>5 DEF Ahead, n, la, lb

LEMMA LostAhead ==
  ASSUME NEW c, NEW a \in Seq(Item), NEW b \in Seq(Item), Ahead(c, a \o b), payload.cut \in Nat,
         ~(c + Len(a) <= Len(units))
  PROVE  payload.cut > 0
<1>1. Len(a \o b) = Len(a) + Len(b) /\ Len(a) \in Nat /\ Len(b) \in Nat
  BY EndToEnd
<1>2. c \in Nat /\ Len(units) \in Nat /\ payload.cut = 0 => Len(units) = c + Len(a \o b)
  BY DEF Ahead
<1> QED BY <1>1, <1>2 DEF Ahead

(* At the start.                                                           *)
LEMMA CutAhead ==
  ASSUME NEW t \in Seq(Item), payload.cut \in Nat, units = SubSeq(t, 1, Len(t) - payload.cut)
  PROVE  Ahead(0, t)
<1> DEFINE n == Len(t) - payload.cut
<1>1. Len(t) \in Nat /\ n \in Int /\ n <= Len(t) /\ (payload.cut = 0 => n = Len(t))
  OBVIOUS
<1>2. units \in Seq(Item) /\ Len(units) = (IF n < 0 THEN 0 ELSE n)
      /\ \A j \in 1..n : units[j] = t[j]
  <2>1. CASE n < 1
    <3>1. units = << >>
      BY <1>1, <2>1
    <3> QED BY <1>1, <2>1, <3>1
  <2>2. CASE n >= 1
    <3>1. n \in 1..Len(t)
      BY <1>1, <2>2
    <3> HIDE DEF n
    <3>2. units = SubSeq(t, 1, n)
      BY DEF n
    <3> QED BY <1>1, <2>2, <3>1, <3>2
  <2> QED BY <1>1, <2>1, <2>2
<1> HIDE DEF n
<1>3. \A j \in 1..(Len(units) - 0) : j \in 1..n /\ 0 + j = j
  BY <1>1, <1>2
<1> QED BY <1>1, <1>2, <1>3 DEF Ahead

-----------------------------------------------------------------------------
(* The writer.                                                             *)

StreamSet(bytes) ==
  [ints : Seq(Holds(Signed(bytes))), shape : [block : Nat, minis : Nat, spare : Nat]]

LEMMA UnitItem ==
  ASSUME NEW v \in Int
  PROVE  /\ Unit("varint", v) \in Item /\ Unit("width", v) \in Item /\ Unit("data", v) \in Item
         /\ Unit("varint", v).v = v /\ Unit("width", v).v = v /\ Unit("data", v).v = v
<1>2. << >> \in Seq(Int)
  OBVIOUS
<1>3. ASSUME NEW is \in {"varint", "width", "data"} PROVE Unit(is, v) \in Item /\ Unit(is, v).v = v
  <2>1. Unit(is, v) = [is |-> is, v |-> v, at |-> 0, of |-> << >>]
    BY DEF Unit
  <2> QED BY <1>2, <2>1 DEF Item
<1> QED BY <1>3

(* A block is so many mini-blocks of so many bytes a bit.                  *)
LEMMA ShapedSize ==
  ASSUME NEW shape \in [block : Nat, minis : Nat, spare : Nat], Shaped(shape), Octet \in Nat \ {0}
  PROVE  /\ shape.block \in Nat \ {0} /\ shape.minis \in Nat \ {0} /\ shape.minis <= MaxMinis
         /\ Size(shape) \in Nat \ {0} /\ shape.block = shape.minis * Size(shape)
         /\ shape.block % shape.minis = 0
         /\ \E g \in Nat \ {0} : Size(shape) = g * Octet
<1> DEFINE block == shape.block
           minis == shape.minis
           mo == minis * Octet
           g == block \div mo
           go == g * Octet
<1>1. block \in Nat \ {0} /\ minis \in Nat \ {0} /\ minis <= MaxMinis /\ block % mo = 0
  BY DEF Shaped
<1>2. mo \in Nat \ {0}
  BY <1>1
<1>3. g \in Nat /\ block = g * mo
  <2> HIDE DEF mo, block
  <2> QED BY <1>1, <1>2
<1> HIDE DEF g, block
<1>4. block = go * minis /\ go \in Nat
  <2> HIDE DEF minis
  <2> QED BY <1>1, <1>3
<1> HIDE DEF minis, mo
<1>5. go # 0 /\ g # 0
  <2>1. g = 0 => go = 0
    OBVIOUS
  <2>2. go = 0 => block = 0
    <3> HIDE DEF go
    <3> QED BY <1>1, <1>4
  <2> QED BY <1>1, <2>1, <2>2
<1> HIDE DEF go
<1>6. block \div minis = go /\ block % minis = 0
  BY <1>1, <1>4
<1>7. Size(shape) = go
  BY <1>6 DEF Size, block, minis
<1>8. go * minis = minis * go
  BY <1>1, <1>4
<1> QED BY <1>1, <1>3, <1>4, <1>5, <1>6, <1>7, <1>8 DEF go, block, minis

LEMMA DeltaNear ==
  ASSUME NEW bytes \in {4, 8}, NEW s \in StreamSet(bytes), NEW i \in 1..(Len(s.ints) - 1)
  PROVE  /\ Delta(s, bytes, i) \in Holds(Signed(bytes)) /\ Delta(s, bytes, i) \in Int
         /\ s.ints[i] \in Int /\ s.ints[i + 1] \in Int
         /\ Near(Delta(s, bytes, i), s.ints[i + 1] - s.ints[i], Span(bytes))
<1>1. bytes \in Sizes
  BY DEF Sizes
<1>2. s.ints \in Seq(Holds(Signed(bytes))) /\ \A v \in Holds(Signed(bytes)) : v \in Int
  <2>1. Holds(Signed(bytes)) = (-Half[bytes])..(Half[bytes] - 1) /\ Half[bytes] \in Nat
    BY <1>1, Spans
  <2>2. s.ints \in Seq(Holds(Signed(bytes)))
    BY DEF StreamSet
  <2> QED BY <2>1, <2>2
<1> DEFINE ints == s.ints
<1> HIDE DEF ints
<1>3. ints[i] \in Int /\ ints[i + 1] \in Int
  <2>1. ints \in Seq(Holds(Signed(bytes))) /\ i \in 1..(Len(ints) - 1)
    BY <1>2 DEF ints
  <2>2. i \in 1..Len(ints) /\ i + 1 \in 1..Len(ints)
    BY <2>1
  <2>3. ints[i] \in Holds(Signed(bytes)) /\ ints[i + 1] \in Holds(Signed(bytes))
    BY <2>1, <2>2
  <2> QED BY <1>2, <2>3
<1>4. ints[i + 1] - ints[i] \in Int
  BY <1>3
<1> QED BY <1>1, <1>3, <1>4, AsNear DEF Delta, ints

LEMMA LeastOf ==
  ASSUME NEW low \in Int, NEW T, T # {}, \A x \in T : x \in Int /\ x >= low
  PROVE  /\ Least(T) \in T /\ \A y \in T : Least(T) <= y
<1> DEFINE U == {x - low : x \in T}
<1>1. U \in SUBSET Nat /\ U # {}
  OBVIOUS
<1>2. PICK u \in U : \A v \in U : u <= v
  <2> HIDE DEF U
  <2> QED BY <1>1, LeastNat
<1>3. PICK x \in T : u = x - low
  BY <1>2
<1>4. ASSUME NEW y \in T PROVE x <= y
  <2>1. y - low \in U
    OBVIOUS
  <2>2. x - low <= y - low
    <3> HIDE DEF U
    <3> QED BY <1>2, <1>3, <2>1
  <2> QED BY <1>3, <2>2
<1>5. \E z \in T : \A y \in T : z <= y
  BY <1>3, <1>4
<1> QED BY <1>5 DEF Least

(* The blocks of a stream, and where each begins.                          *)
BlockCount(s) == ((Len(s.ints) - 2) \div s.shape.block) + 1

LEMMA BlockStarts ==
  ASSUME NEW block \in Nat \ {0}, NEW n \in Nat, n >= 2, NEW k \in Nat
  PROVE  /\ ((n - 2) \div block) + 1 \in Nat \ {0}
         /\ k + 1 <= ((n - 2) \div block) + 1 <=> k * block + 1 < n
<1> DEFINE q == (n - 2) \div block
           qb == q * block
           kb == k * block
<1>1. n - 2 \in Nat
  OBVIOUS
<1>2. q \in Nat /\ qb <= n - 2 /\ n - 2 < qb + block
  BY <1>1
<1> HIDE DEF q
<1>3. qb \in Nat /\ kb \in Nat
  BY <1>2
<1>4. k <= q => kb <= qb
  BY <1>2
<1>5. k >= q + 1 => kb >= qb + block
  <2>1. k >= q + 1 => k * block >= (q + 1) * block
    BY <1>2
  <2>2. (q + 1) * block = qb + block
    BY <1>2
  <2> QED BY <2>1, <2>2
<1> HIDE DEF qb, kb
<1>6. k <= q <=> kb + 1 < n
  BY <1>2, <1>3, <1>4, <1>5
<1>7. k + 1 <= q + 1 <=> kb + 1 < n
  BY <1>2, <1>6
<1> QED BY <1>2, <1>7 DEF q, kb

(* A stream of at least two values of a shape the format allows.           *)
Regular(s, bytes) ==
  /\ bytes \in {4, 8} /\ s \in StreamSet(bytes) /\ Shaped(s.shape) /\ Len(s.ints) >= 2
  /\ Octet \in Nat \ {0}

LEMMA RegularSizes ==
  ASSUME NEW s, NEW bytes, Regular(s, bytes)
  PROVE  /\ bytes \in Sizes /\ 2 * bytes \in Sizes /\ bytes \in {1, 2, 4, 8}
         /\ Len(s.ints) \in Nat /\ s.shape \in [block : Nat, minis : Nat, spare : Nat]
         /\ s.shape.block \in Nat \ {0} /\ s.shape.minis \in Nat \ {0} /\ s.shape.spare \in Nat
         /\ Size(s.shape) \in Nat \ {0} /\ s.shape.block = s.shape.minis * Size(s.shape)
         /\ Span(bytes) \in Nat \ {0} /\ BlockCount(s) \in Nat \ {0}
<1>1. bytes \in Sizes /\ 2 * bytes \in Sizes /\ bytes \in {1, 2, 4, 8}
  BY DEF Sizes, Regular
<1>2. /\ s.ints \in Seq(Holds(Signed(bytes))) /\ s.shape \in [block : Nat, minis : Nat, spare : Nat]
      /\ s.shape.spare \in Nat
  BY DEF Regular, StreamSet
<1>3. Len(s.ints) \in Nat
  BY <1>2
<1>4. /\ s.shape.block \in Nat \ {0} /\ s.shape.minis \in Nat \ {0}
      /\ Size(s.shape) \in Nat \ {0} /\ s.shape.block = s.shape.minis * Size(s.shape)
  BY <1>2, ShapedSize DEF Regular
<1>5. Span(bytes) \in Nat \ {0}
  BY <1>1, Spans
<1>6. BlockCount(s) \in Nat \ {0}
  BY <1>3, <1>4, BlockStarts DEF BlockCount, Regular
<1> QED BY <1>1, <1>2, <1>3, <1>4, <1>5, <1>6

LEMMA SlotInt ==
  ASSUME NEW s, NEW bytes, Regular(s, bytes), NEW k \in Nat \ {0}, NEW m \in Nat \ {0}, NEW j \in Nat
  PROVE  /\ Slot(s.shape, k, m, j) \in Nat
         /\ Slot(s.shape, k, m, j) = ((k - 1) * s.shape.block) + ((m - 1) * Size(s.shape)) + j
<1> DEFINE b == s.shape.block
           z == Size(s.shape)
           kb == (k - 1) * b
           mz == (m - 1) * z
<1>1. b \in Nat /\ z \in Nat /\ k - 1 \in Nat /\ m - 1 \in Nat
  BY RegularSizes
<1> HIDE DEF b, z
<1>2. kb \in Nat /\ mz \in Nat
  BY <1>1
<1>3. Slot(s.shape, k, m, j) = kb + mz + j
  BY DEF Slot, b, z
<1> HIDE DEF kb, mz
<1>4. kb + mz + j \in Nat
  BY <1>2
<1> QED BY <1>3, <1>4 DEF kb, mz, b, z

LEMMA BaseInt ==
  ASSUME NEW s, NEW bytes, Regular(s, bytes), NEW k \in Nat, k < BlockCount(s)
  PROVE  Base(s, bytes, k + 1) \in Int
<1> DEFINE n == Len(s.ints)
           b == s.shape.block
           kb == k * b
           low == -Half[bytes]
           D == {Delta(s, bytes, i) : i \in InBlock(s, k + 1)}
<1>1. n \in Nat /\ n >= 2 /\ b \in Nat \ {0} /\ bytes \in Sizes /\ bytes \in {4, 8} /\ s \in StreamSet(bytes)
  BY RegularSizes DEF Regular
<1>2. kb + 1 < n
  <2>1. BlockCount(s) = ((n - 2) \div b) + 1 /\ k + 1 <= BlockCount(s)
    BY RegularSizes DEF BlockCount
  <2> HIDE DEF n, b
  <2> QED BY <1>1, <2>1, BlockStarts
<1>3. kb \in Nat /\ kb \div b = k
  <2> HIDE DEF n, b
  <2> QED BY <1>1
<1>4. low \in Int /\ Holds(Signed(bytes)) = low..(Half[bytes] - 1) /\ Half[bytes] \in Nat
  BY <1>1, Spans
<1>5. kb + 1 \in InBlock(s, k + 1)
  <2>1. kb + 1 \in 1..(n - 1) /\ (kb + 1 - 1) = kb /\ k + 1 - 1 = k
    BY <1>1, <1>2, <1>3
  <2> HIDE DEF kb
  <2> QED BY <1>3, <2>1 DEF InBlock
<1>6. D # {}
  BY <1>5
<1>7. \A x \in D : x \in Int /\ x >= low
  <2> SUFFICES ASSUME NEW i \in InBlock(s, k + 1)
               PROVE  Delta(s, bytes, i) \in Int /\ Delta(s, bytes, i) >= low
    OBVIOUS
  <2>1. i \in 1..(Len(s.ints) - 1)
    BY DEF InBlock
  <2>2. Delta(s, bytes, i) \in Holds(Signed(bytes)) /\ Delta(s, bytes, i) \in Int
    BY <1>1, <2>1, DeltaNear
  <2> HIDE DEF low
  <2> QED BY <1>4, <2>2
<1>8. Base(s, bytes, k + 1) = Least(D)
  BY DEF Base
<1> HIDE DEF D, low
<1> QED BY <1>4, <1>6, <1>7, <1>8, LeastOf

(* A gap is a number of the width; the width of a mini-block holds them.   *)
LEMMA GapsTyped ==
  ASSUME NEW s, NEW bytes, Regular(s, bytes), NEW k \in Nat, k < BlockCount(s), NEW m \in Nat \ {0}
  PROVE  LET g == Gaps(s, bytes, k + 1, m)
         IN  /\ g \in Seq(Int) /\ Len(g) = Size(s.shape) /\ DOMAIN g = 1..Size(s.shape)
             /\ \A j \in 1..Size(s.shape) :
                  /\ g[j] \in 0..(Span(bytes) - 1)
                  /\ Slot(s.shape, k + 1, m, j) < Len(s.ints) =>
                       Near(g[j] + Base(s, bytes, k + 1),
                            Delta(s, bytes, Slot(s.shape, k + 1, m, j)), Span(bytes))
<1> DEFINE g == Gaps(s, bytes, k + 1, m)
           base == Base(s, bytes, k + 1)
           z == Size(s.shape)
           M == Span(bytes)
           slot(j) == Slot(s.shape, k + 1, m, j)
           delta(j) == Delta(s, bytes, slot(j))
<1>1. base \in Int /\ z \in Nat \ {0} /\ M \in Nat \ {0}
  BY BaseInt, RegularSizes
<1>2. g = [j \in 1..z |-> IF slot(j) < Len(s.ints) THEN (delta(j) - base) % M ELSE 0]
  BY DEF Gaps, Span
<1>3. ASSUME NEW j \in 1..z
      PROVE  /\ slot(j) \in Nat
             /\ slot(j) < Len(s.ints) => slot(j) \in 1..(Len(s.ints) - 1) /\ delta(j) \in Int
  <2>1. j \in Nat /\ k + 1 \in Nat \ {0} /\ Len(s.ints) \in Nat
    BY RegularSizes
  <2>2. slot(j) \in Nat /\ slot(j) >= 1
    <3> DEFINE kb == k * s.shape.block
               mz == (m - 1) * Size(s.shape)
    <3>1. slot(j) = ((k + 1 - 1) * s.shape.block) + ((m - 1) * Size(s.shape)) + j
      <4> DEFINE k1 == k + 1
      <4>1. k1 \in Nat \ {0} /\ j \in Nat
        BY <2>1
      <4> HIDE DEF k1
      <4>2. Slot(s.shape, k1, m, j) = ((k1 - 1) * s.shape.block) + ((m - 1) * Size(s.shape)) + j
        BY <4>1, SlotInt
      <4> QED BY <4>2 DEF k1
    <3>2. slot(j) = kb + mz + j
      BY <3>1
    <3>3. kb \in Nat /\ mz \in Nat
      <4>1. s.shape.block \in Nat /\ Size(s.shape) \in Nat /\ m - 1 \in Nat
        BY RegularSizes
      <4> QED BY <4>1
    <3> HIDE DEF kb, mz
    <3> QED BY <3>2, <3>3
  <2>3. ASSUME slot(j) < Len(s.ints) PROVE slot(j) \in 1..(Len(s.ints) - 1) /\ delta(j) \in Int
    <3>1. slot(j) \in 1..(Len(s.ints) - 1)
      BY <2>1, <2>2, <2>3
    <3>2. bytes \in {4, 8} /\ s \in StreamSet(bytes)
      BY DEF Regular
    <3> HIDE DEF slot
    <3> QED BY <3>1, <3>2, DeltaNear
  <2> QED BY <2>2, <2>3
<1> HIDE DEF g, base, M, slot, delta
<1>4. ASSUME NEW j \in 1..z
      PROVE  /\ g[j] \in 0..(M - 1)
             /\ slot(j) < Len(s.ints) => Near(g[j] + base, delta(j), M)
  <2>1. CASE slot(j) < Len(s.ints)
    <3> DEFINE d == delta(j)
               x == d - base
    <3>1. d \in Int /\ x \in Int /\ g[j] = x % M /\ d = x + base
      <4>1. d \in Int
        BY <1>3, <2>1
      <4>2. g[j] = x % M
        BY <1>2, <2>1
      <4> HIDE DEF d
      <4> QED BY <1>1, <4>1, <4>2
    <3> HIDE DEF x, d
    <3>2. x % M \in 0..(M - 1) /\ Near(x % M, x, M)
      BY <1>1, <3>1, NearMod
    <3>3. Near(base, base, M) /\ M \in Int
      BY <1>1, NearSame
    <3>4. g[j] \in 0..(M - 1) /\ g[j] \in Int /\ Near(g[j], x, M)
      BY <1>1, <3>1, <3>2
    <3>5. Near(g[j] + base, x + base, M)
      BY <1>1, <3>1, <3>3, <3>4, NearAdd
    <3> QED BY <3>1, <3>4, <3>5 DEF d
  <2>2. CASE ~(slot(j) < Len(s.ints))
    <3>1. g[j] = 0
      BY <1>2, <2>2
    <3> QED BY <1>1, <2>2, <3>1
  <2> QED BY <2>1, <2>2
<1>5. g \in Seq(Int) /\ Len(g) = z /\ DOMAIN g = 1..z
  <2>1. \A j \in 1..z : g[j] \in Int
    BY <1>1, <1>4
  <2>2. g \in [1..z -> Int]
    BY <1>2, <2>1
  <2> QED BY <1>1, <2>2
<1> QED BY <1>4, <1>5 DEF g, base, M, slot, delta

LEMMA WidthHolds ==
  ASSUME NEW s, NEW bytes, Regular(s, bytes), NEW k \in Nat, k < BlockCount(s), NEW m \in Nat \ {0}
  PROVE  /\ Width(s, bytes, k + 1, m) \in Nat
         /\ Used(s, k + 1, m) =>
              /\ Width(s, bytes, k + 1, m) <= Bits[bytes]
              /\ \A j \in 1..Size(s.shape) :
                   Gaps(s, bytes, k + 1, m)[j] < 2 ^ Width(s, bytes, k + 1, m)
<1> DEFINE g == Gaps(s, bytes, k + 1, m)
           F == Fitting(g, bytes)
<1>1. Bits[bytes] \in Nat /\ Span(bytes) = 2 ^ Bits[bytes] /\ Span(bytes) \in Nat \ {0}
  BY RegularSizes, Spans
<1>2. DOMAIN g = 1..Size(s.shape) /\ \A j \in 1..Size(s.shape) : g[j] \in 0..(Span(bytes) - 1)
  BY GapsTyped
<1> HIDE DEF g
<1>3. F = {w \in 0..Bits[bytes] : \A j \in DOMAIN g : g[j] < 2 ^ w}
  BY DEF Fitting
<1>4. Bits[bytes] \in F
  <2>1. \A j \in 1..Size(s.shape) : g[j] < Span(bytes)
    BY <1>1, <1>2
  <2>2. \A j \in DOMAIN g : g[j] < 2 ^ Bits[bytes]
    BY <1>1, <1>2, <2>1
  <2> QED BY <1>1, <1>3, <2>2
<1>5. \A w \in F : w \in Int /\ w >= 0
  BY <1>1, <1>3
<1> HIDE DEF F
<1>6. Least(F) \in F
  <2>1. F # {} /\ 0 \in Int
    BY <1>4
  <2> QED BY <1>5, <2>1, LeastOf
<1>7. CASE Used(s, k + 1, m)
  <2>1. Width(s, bytes, k + 1, m) = Least(F)
    BY <1>7 DEF Width, F, g
  <2>2. Least(F) \in 0..Bits[bytes] /\ \A j \in 1..Size(s.shape) : g[j] < 2 ^ Least(F)
    BY <1>2, <1>3, <1>6
  <2> QED BY <1>1, <2>1, <2>2 DEF g
<1>8. CASE ~Used(s, k + 1, m)
  BY <1>8, RegularSizes DEF Width
<1> QED BY <1>7, <1>8

LEMMA BodyTyped ==
  ASSUME NEW vals \in Seq(Int), NEW width \in Nat, Octet \in Nat \ {0}
  PROVE  Body(vals, width) \in Seq(Item) /\ Len(Body(vals, width)) = (Len(vals) * width) \div Octet
<1> DEFINE lw == Len(vals) * width
           n == lw \div Octet
           piece(b) == [is |-> "body", v |-> width, at |-> b, of |-> vals]
<1>1. lw \in Nat
  OBVIOUS
<1>2. n \in Nat
  <2> HIDE DEF lw
  <2> QED BY <1>1
<1>3. Body(vals, width) = [b \in 1..n |-> piece(b)]
  BY DEF Body
<1> HIDE DEF n
<1>4. \A b \in 1..n : piece(b) \in Item
  BY <1>2 DEF Item
<1> HIDE DEF piece
<1>5. [b \in 1..n |-> piece(b)] \in Seq(Item) /\ Len([b \in 1..n |-> piece(b)]) = n
  BY <1>2, <1>4
<1> QED BY <1>3, <1>5 DEF n

Widths(s, bytes, k) == [m \in 1..s.shape.minis |-> Unit("width", Width(s, bytes, k, m))]

LEMMA BodiesTyped ==
  ASSUME NEW s, NEW bytes, Regular(s, bytes), NEW k \in Nat, k < BlockCount(s)
  PROVE  /\ Bodies(s, bytes, k + 1) \in Seq(Seq(Item))
         /\ Len(Bodies(s, bytes, k + 1)) = s.shape.minis
         /\ \A m \in 1..s.shape.minis :
              Bodies(s, bytes, k + 1)[m] =
                IF Used(s, k + 1, m) THEN Body(Gaps(s, bytes, k + 1, m), Width(s, bytes, k + 1, m))
                ELSE << >>
<1> DEFINE n == s.shape.minis
           body(m) == IF Used(s, k + 1, m)
                      THEN Body(Gaps(s, bytes, k + 1, m), Width(s, bytes, k + 1, m)) ELSE << >>
<1>1. n \in Nat /\ Octet \in Nat \ {0}
  BY RegularSizes DEF Regular
<1>2. Bodies(s, bytes, k + 1) = [m \in 1..n |-> body(m)]
  BY DEF Bodies
<1>3. ASSUME NEW m \in 1..n PROVE body(m) \in Seq(Item)
  <2>1. m \in Nat \ {0}
    BY <1>1
  <2>2. Gaps(s, bytes, k + 1, m) \in Seq(Int) /\ Width(s, bytes, k + 1, m) \in Nat
    BY <2>1, GapsTyped, WidthHolds
  <2>3. Body(Gaps(s, bytes, k + 1, m), Width(s, bytes, k + 1, m)) \in Seq(Item)
    BY <1>1, <2>2, BodyTyped
  <2> QED BY <2>3
<1> HIDE DEF body
<1>4. [m \in 1..n |-> body(m)] \in Seq(Seq(Item)) /\ Len([m \in 1..n |-> body(m)]) = n
  BY <1>1, <1>3
<1>5. \A m \in 1..n : Bodies(s, bytes, k + 1)[m] = body(m)
  BY <1>2
<1> QED BY <1>2, <1>4, <1>5 DEF body

LEMMA BlockTyped ==
  ASSUME NEW s, NEW bytes, Regular(s, bytes), NEW k \in Nat, k < BlockCount(s)
  PROVE  /\ <<Unit("varint", Base(s, bytes, k + 1))>> \in Seq(Item)
         /\ Widths(s, bytes, k + 1) \in Seq(Item) /\ Len(Widths(s, bytes, k + 1)) = s.shape.minis
         /\ Behind(Bodies(s, bytes, k + 1), 0) \in Seq(Item)
         /\ Block(s, bytes, k + 1) \in Seq(Item)
         /\ Block(s, bytes, k + 1) =
              (<<Unit("varint", Base(s, bytes, k + 1))>> \o Widths(s, bytes, k + 1))
                \o Behind(Bodies(s, bytes, k + 1), 0)
<1> DEFINE u == Unit("varint", Base(s, bytes, k + 1))
           n == s.shape.minis
           w(m) == Unit("width", Width(s, bytes, k + 1, m))
           ws == Widths(s, bytes, k + 1)
           bs == Behind(Bodies(s, bytes, k + 1), 0)
<1>1. u \in Item
  BY BaseInt, UnitItem
<1>2. n \in Nat /\ ws = [m \in 1..n |-> w(m)]
  BY RegularSizes DEF Widths
<1>3. ASSUME NEW m \in 1..n PROVE w(m) \in Item
  <2>1. m \in Nat \ {0}
    BY <1>2
  <2>2. Width(s, bytes, k + 1, m) \in Int
    BY <2>1, WidthHolds
  <2> QED BY <2>2, UnitItem
<1> HIDE DEF u, n, w, ws
<1>4. ws \in Seq(Item) /\ Len(ws) = n
  BY <1>2, <1>3
<1>5. bs \in Seq(Item)
  <2>1. Bodies(s, bytes, k + 1) \in Seq(Seq(Item)) /\ 0 \in 0..Len(Bodies(s, bytes, k + 1))
    BY <1>2, BodiesTyped DEF n
  <2> QED BY <2>1, BehindIs
<1>6. Block(s, bytes, k + 1) = (<<u>> \o ws) \o bs
  BY DEF Block, u, ws, Widths
<1> HIDE DEF bs
<1>7. <<u>> \in Seq(Item)
  BY <1>1
<1>8. <<u>> \o ws \in Seq(Item)
  BY <1>4, <1>7, EndToEnd
<1>9. (<<u>> \o ws) \o bs \in Seq(Item)
  BY <1>5, <1>8, EndToEnd
<1> QED BY <1>4, <1>5, <1>6, <1>7, <1>9 DEF u, n, ws, bs

LEMMA BlocksTyped ==
  ASSUME NEW s, NEW bytes, Regular(s, bytes)
  PROVE  /\ Blocks(s, bytes) \in Seq(Seq(Item)) /\ Len(Blocks(s, bytes)) = BlockCount(s)
         /\ \A k \in 1..BlockCount(s) : Blocks(s, bytes)[k] = Block(s, bytes, k)
<1> DEFINE n == BlockCount(s)
<1>1. n \in Nat
  BY RegularSizes
<1>2. Blocks(s, bytes) = [k \in 1..n |-> Block(s, bytes, k)]
  BY DEF Blocks, BlockCount
<1> HIDE DEF n
<1>3. ASSUME NEW k \in 1..n PROVE Block(s, bytes, k) \in Seq(Item)
  <2> DEFINE l == k - 1
  <2>1. l \in Nat /\ l < BlockCount(s) /\ l + 1 = k
    BY <1>1 DEF n
  <2> HIDE DEF l
  <2>2. Block(s, bytes, l + 1) \in Seq(Item)
    BY <2>1, BlockTyped
  <2> QED BY <2>1, <2>2
<1> QED BY <1>1, <1>2, <1>3 DEF n

Following(s, bytes) == IF Len(s.ints) < 2 THEN << >>
                       ELSE IF ~Shaped(s.shape) THEN <<Unit("varint", 0)>>
                       ELSE Behind(Blocks(s, bytes), 0)

LEMMA EncodedTyped ==
  ASSUME NEW bytes \in {4, 8}, NEW s \in StreamSet(bytes), Octet \in Nat \ {0}
  PROVE  /\ Header(s) \in Seq(Item) /\ Len(Header(s)) = 4
         /\ Header(s)[1].v = s.shape.block /\ Header(s)[2].v = s.shape.minis
         /\ Header(s)[3].v = Len(s.ints) /\ (s.ints # << >> => Header(s)[4].v = s.ints[1])
         /\ Following(s, bytes) \in Seq(Item) /\ Encoded(s, bytes) \in Seq(Item)
         /\ Encoded(s, bytes) = Header(s) \o Following(s, bytes)
<1>1. /\ s.ints \in Seq(Holds(Signed(bytes))) /\ s.shape.block \in Int /\ s.shape.minis \in Int
      /\ Len(s.ints) \in Nat
  <2>1. s.ints \in Seq(Holds(Signed(bytes))) /\ s.shape \in [block : Nat, minis : Nat, spare : Nat]
    BY DEF StreamSet
  <2> QED BY <2>1
<1>2. s.ints # << >> => s.ints[1] \in Int
  <2>1. \A v \in Holds(Signed(bytes)) : v \in Int
    <3>1. bytes \in Sizes
      BY DEF Sizes
    <3>2. Holds(Signed(bytes)) = (-Half[bytes])..(Half[bytes] - 1) /\ Half[bytes] \in Nat
      BY <3>1, Spans
    <3> QED BY <3>2
  <2> DEFINE ints == s.ints
  <2>2. ints \in Seq(Holds(Signed(bytes)))
    BY <1>1
  <2> HIDE DEF ints
  <2>3. ints # << >> => ints[1] \in Holds(Signed(bytes))
    BY <2>2
  <2> QED BY <2>1, <2>3 DEF ints
<1> DEFINE first == IF s.ints = << >> THEN 0 ELSE s.ints[1]
           a == Unit("varint", s.shape.block)
           b == Unit("varint", s.shape.minis)
           c == Unit("varint", Len(s.ints))
           d == Unit("varint", first)
<1>3. first \in Int
  BY <1>2
<1>4. /\ a \in Item /\ b \in Item /\ c \in Item /\ d \in Item
      /\ a.v = s.shape.block /\ b.v = s.shape.minis /\ c.v = Len(s.ints) /\ d.v = first
  <2>1. Len(s.ints) \in Int
    BY <1>1
  <2> HIDE DEF first
  <2> QED BY <1>1, <1>3, <2>1, UnitItem
<1>5. Header(s) = <<a, b, c, d>>
  BY DEF Header
<1> HIDE DEF a, b, c, d
<1>6. /\ Header(s) \in Seq(Item) /\ Len(Header(s)) = 4
      /\ Header(s)[1] = a /\ Header(s)[2] = b /\ Header(s)[3] = c /\ Header(s)[4] = d
  BY <1>4, <1>5
<1>7. Following(s, bytes) \in Seq(Item)
  <2>1. CASE Len(s.ints) < 2
    BY <2>1 DEF Following
  <2>2. CASE Len(s.ints) >= 2 /\ ~Shaped(s.shape)
    <3>1. Following(s, bytes) = <<Unit("varint", 0)>>
      BY <1>1, <2>2 DEF Following
    <3>2. Unit("varint", 0) \in Item
      BY UnitItem
    <3> QED BY <3>1, <3>2
  <2>3. CASE Len(s.ints) >= 2 /\ Shaped(s.shape)
    <3>1. Regular(s, bytes)
      BY <2>3 DEF Regular
    <3>2. Following(s, bytes) = Behind(Blocks(s, bytes), 0)
      BY <1>1, <2>3 DEF Following
    <3>3. Blocks(s, bytes) \in Seq(Seq(Item)) /\ 0 \in 0..Len(Blocks(s, bytes))
      BY <3>1, BlocksTyped, RegularSizes
    <3> QED BY <3>2, <3>3, BehindIs
  <2> QED BY <1>1, <2>1, <2>2, <2>3
<1>8. Encoded(s, bytes) = Header(s) \o Following(s, bytes)
  BY DEF Encoded, Following
<1>9. Header(s) \o Following(s, bytes) \in Seq(Item)
  BY <1>6, <1>7, EndToEnd
<1> QED BY <1>4, <1>6, <1>7, <1>8, <1>9

-----------------------------------------------------------------------------
(* One mini-block.                                                         *)

(* The stream being decoded, of which t values are out.                    *)
OpenFields == {"minis", "size", "remaining", "prev", "min", "widths", "out"}

OpenAt(s, t) ==
  /\ Regular(s, Wide) /\ DOMAIN open = OpenFields
  /\ t \in 1..(Len(s.ints) - 1) /\ open.out \in Seq(Int) /\ Len(open.out) = t
  /\ \A i \in 1..t : open.out[i] = s.ints[i]
  /\ open.minis = s.shape.minis /\ open.size = Size(s.shape)
  /\ open.remaining = Len(s.ints) - t
  /\ open.prev \in Int /\ Near(open.prev, s.ints[t], Span(Wide))

(* k blocks and, of the next one, m mini-blocks are out.                   *)
MiniAt(s, k, m) ==
  /\ k \in Nat /\ k < BlockCount(s) /\ m \in 0..(s.shape.minis - 1)
  /\ OpenAt(s, k * s.shape.block + m * Size(s.shape) + 1)
  /\ open.min = Base(s, Wide, k + 1)
  /\ open.widths \in Seq(Nat) /\ Len(open.widths) = s.shape.minis - m
  /\ \A i \in 1..(s.shape.minis - m) : open.widths[i] = Width(s, Wide, k + 1, m + i)

LEMMA SlotIs ==
  ASSUME NEW s, NEW k, NEW m, MiniAt(s, k, m), NEW j \in Nat
  PROVE  /\ Slot(s.shape, k + 1, m + 1, j) = k * s.shape.block + m * Size(s.shape) + j
         /\ k * s.shape.block \in Nat /\ m * Size(s.shape) \in Nat
<1>1. Regular(s, Wide) /\ k \in Nat /\ m \in Nat
  <2>1. Regular(s, Wide) /\ k \in Nat /\ m \in 0..(s.shape.minis - 1)
    BY DEF MiniAt, OpenAt
  <2>2. s.shape.minis \in Nat
    BY <2>1, RegularSizes
  <2> QED BY <2>1, <2>2
<1>2. s.shape.block \in Nat /\ Size(s.shape) \in Nat
  BY <1>1, RegularSizes
<1> DEFINE k1 == k + 1
           m1 == m + 1
<1>3. k1 \in Nat \ {0} /\ m1 \in Nat \ {0} /\ k1 - 1 = k /\ m1 - 1 = m
  BY <1>1
<1> HIDE DEF k1, m1
<1>4. Slot(s.shape, k1, m1, j) = ((k1 - 1) * s.shape.block) + ((m1 - 1) * Size(s.shape)) + j
  BY <1>1, <1>3, SlotInt
<1> QED BY <1>1, <1>2, <1>3, <1>4 DEF k1, m1

(* A mini-block begun has a value, a width that holds it, and a body.      *)
LEMMA MiniUsed ==
  ASSUME NEW s, NEW k, NEW m, MiniAt(s, k, m)
  PROVE  /\ Used(s, k + 1, m + 1) /\ open.widths[1] = Width(s, Wide, k + 1, m + 1)
         /\ open.widths[1] \in Nat /\ open.widths[1] <= Bits[Wide]
         /\ Len(Body(Gaps(s, Wide, k + 1, m + 1), open.widths[1])) =
              (open.size * open.widths[1]) \div Octet
         /\ Body(Gaps(s, Wide, k + 1, m + 1), open.widths[1]) \in Seq(Item)
<1>1. Regular(s, Wide) /\ k \in Nat /\ k < BlockCount(s) /\ open.size = Size(s.shape)
  BY DEF MiniAt, OpenAt
<1>2. m + 1 \in Nat \ {0} /\ m + 1 = m + 1 /\ 1 \in 1..(s.shape.minis - m)
  <2>1. s.shape.minis \in Nat /\ m \in 0..(s.shape.minis - 1)
    BY <1>1, RegularSizes DEF MiniAt
  <2> QED BY <2>1
<1>3. Used(s, k + 1, m + 1)
  <2>1. Slot(s.shape, k + 1, m + 1, 1) = k * s.shape.block + m * Size(s.shape) + 1
    BY SlotIs
  <2>2. k * s.shape.block + m * Size(s.shape) + 1 \in 1..(Len(s.ints) - 1) /\ Len(s.ints) \in Nat
    BY <1>1, RegularSizes DEF MiniAt, OpenAt
  <2>3. Slot(s.shape, k + 1, m + 1, 1) < Len(s.ints)
    BY <2>1, <2>2
  <2> QED BY <2>3 DEF Used
<1> DEFINE m1 == m + 1
           w == Width(s, Wide, k + 1, m1)
           g == Gaps(s, Wide, k + 1, m1)
<1>4. m1 \in Nat \ {0}
  BY <1>2
<1>5. open.widths[1] = w
  BY <1>2 DEF MiniAt
<1> HIDE DEF m1
<1>6. w \in Nat
  BY <1>1, <1>4, WidthHolds
<1>7. w <= Bits[Wide]
  <2>1. Used(s, k + 1, m1)
    BY <1>3 DEF m1
  <2> QED BY <1>1, <1>4, <2>1, WidthHolds
<1>8. g \in Seq(Int) /\ Len(g) = Size(s.shape) /\ Octet \in Nat \ {0}
  BY <1>1, <1>4, GapsTyped DEF Regular
<1> HIDE DEF w, g
<1>9. Body(g, w) \in Seq(Item) /\ Len(Body(g, w)) = (Len(g) * w) \div Octet
  BY <1>6, <1>8, BodyTyped
<1> QED BY <1>1, <1>3, <1>5, <1>6, <1>7, <1>8, <1>9 DEF w, g, m1

(* Its body unpacks to its gaps, also one of no bytes.                     *)
LEMMA UnpacksGaps ==
  ASSUME NEW s, NEW k, NEW m, MiniAt(s, k, m), NEW body,
         body = Body(Gaps(s, Wide, k + 1, m + 1), open.widths[1])
  PROVE  Unpacked(open.widths[1], body) = Gaps(s, Wide, k + 1, m + 1)
<1> DEFINE m1 == m + 1
           g == Gaps(s, Wide, k + 1, m1)
           w == open.widths[1]
           z == Size(s.shape)
           n == (z * w) \div Octet
<1>1. Regular(s, Wide) /\ k \in Nat /\ k < BlockCount(s) /\ open.size = z /\ Octet \in Nat \ {0}
  BY DEF MiniAt, OpenAt, Regular
<1>2. m1 \in Nat \ {0}
  <2>1. s.shape.minis \in Nat /\ m \in 0..(s.shape.minis - 1)
    BY <1>1, RegularSizes DEF MiniAt
  <2> QED BY <2>1
<1>3. Used(s, k + 1, m1) /\ w = Width(s, Wide, k + 1, m1) /\ w \in Nat
  BY MiniUsed
<1> HIDE DEF m1
<1>4. /\ g \in Seq(Int) /\ Len(g) = z /\ DOMAIN g = 1..z
      /\ \A j \in 1..z : g[j] \in 0..(Span(Wide) - 1)
  BY <1>1, <1>2, GapsTyped
<1>5. \A j \in 1..z : g[j] < 2 ^ w
  BY <1>1, <1>2, <1>3, WidthHolds
<1>6. body = Body(g, w)
  BY DEF m1
<1>7. z \in Nat \ {0} /\ Span(Wide) \in Nat \ {0}
  BY <1>1, RegularSizes
<1> HIDE DEF g
<1>8. n \in Nat /\ (n = 0 => w = 0)
  <2>1. PICK c \in Nat \ {0} : z = c * Octet
    <3>1. s.shape \in [block : Nat, minis : Nat, spare : Nat] /\ Shaped(s.shape)
      BY <1>1, RegularSizes DEF Regular
    <3> QED BY <1>1, <3>1, ShapedSize
  <2> HIDE DEF z, w
  <2> DEFINE cw == c * w
  <2>2. z * w = cw * Octet /\ cw \in Nat
    BY <1>1, <1>3, <2>1
  <2>3. cw = 0 => w = 0
    BY <1>3, <2>1
  <2> HIDE DEF cw
  <2>4. (cw * Octet) \div Octet = cw
    BY <1>1, <2>2
  <2> QED BY <2>2, <2>3, <2>4
<1>9. body = [b \in 1..n |-> [is |-> "body", v |-> w, at |-> b, of |-> g]]
  BY <1>4, <1>6 DEF Body
<1> HIDE DEF n, w, z
<1>10. CASE n = 0
  <2>1. w = 0 /\ 2 ^ 0 = 1
    BY <1>8, <1>10
  <2>2. \A j \in 1..z : g[j] = 0
    <3>1. 2 ^ w = 1
      BY <2>1
    <3> QED BY <1>4, <1>5, <1>7, <3>1
  <2>3. body = << >>
    BY <1>9, <1>10
  <2>4. Unpacked(w, body) = [j \in 1..z |-> 0]
    BY <1>1, <2>3 DEF Unpacked
  <2>5. g = [j \in 1..z |-> 0]
    BY <1>4, <2>2
  <2> QED BY <2>4, <2>5 DEF g, w, m1
<1>11. CASE n # 0
  <2>1. body # << >> /\ body[1].of = g
    <3>1. 1 \in 1..n
      BY <1>8, <1>11
    <3>2. body[1] = [is |-> "body", v |-> w, at |-> 1, of |-> g]
      BY <1>9, <3>1
    <3>3. DOMAIN body = 1..n
      BY <1>9
    <3>4. DOMAIN << >> = {}
      OBVIOUS
    <3>5. body # << >>
      BY <3>1, <3>3, <3>4, Zenon
    <3>6. body[1].of = g
      BY <3>2
    <3> QED BY <3>5, <3>6
  <2>2. Unpacked(w, body) = g
    BY <1>6, <2>1 DEF Unpacked
  <2> QED BY <2>2 DEF g, w, m1
<1> QED BY <1>10, <1>11

LEMMA SumsAre ==
  ASSUME NEW deltas \in Seq(Int), open.prev \in Int, open.min \in Int, 2 * Wide \in Sizes
  PROVE  /\ Sums(deltas)[0] = open.prev
         /\ \A j \in 0..Len(deltas) : Sums(deltas)[j] \in Int
         /\ \A j \in 1..Len(deltas) :
              Sums(deltas)[j] = As(Sums(deltas)[j - 1] + open.min + deltas[j], Signed(2 * Wide))
<1> DEFINE n == Len(deltas)
           next(v, j) == As(v + open.min + deltas[j], Signed(2 * Wide))
           Is(f) == f = [j \in 0..n |-> IF j = 0 THEN open.prev ELSE next(f[j - 1], j)]
           sums == CHOOSE f : Is(f)
           step == [j \in 1..n |-> [v \in Int |-> next(v, j)]]
<1>1. Sums(deltas) = sums
  BY DEF Sums
<1>2. n \in Nat /\ \A j \in 1..n : deltas[j] \in Int
  OBVIOUS
<1>3. ASSUME NEW j \in 1..n, NEW v \in Int PROVE next(v, j) \in Int
  <2>1. v + open.min + deltas[j] \in Int
    BY <1>2
  <2> QED BY <2>1, AsNear
<1> HIDE DEF n, next
<1>4. step \in [1..n -> [Int -> Int]]
  BY <1>3
<1>5. PICK g \in [0..n -> Int] : ReadsBelow(g, n, open.prev, step)
  <2> HIDE DEF step
  <2> QED BY <1>2, <1>4, Recursion
<1>6. \A j \in 1..n : j - 1 \in 0..n /\ j \in 0..n /\ j # 0
  BY <1>2
<1>7. g[0] = open.prev /\ \A j \in 1..n : g[j] = next(g[j - 1], j)
  BY <1>5, <1>6 DEF ReadsBelow
<1>8. \A j \in 0..n : j = 0 \/ (j # 0 /\ j \in 1..n)
  BY <1>2
<1>9. \A j \in 0..n : g[j] = IF j = 0 THEN open.prev ELSE next(g[j - 1], j)
  BY <1>7, <1>8, Zenon
<1>10. Is(g)
  BY <1>9
<1>11. Is(sums)
  <2> HIDE DEF Is
  <2> QED BY <1>10
<1> HIDE DEF sums
<1>12. \A j \in 0..n : sums[j] = IF j = 0 THEN open.prev ELSE next(sums[j - 1], j)
  <2>1. sums = [j \in 0..n |-> IF j = 0 THEN open.prev ELSE next(sums[j - 1], j)]
    BY <1>11
  <2> QED BY <2>1, Zenon
<1>13. 0 \in 0..n
  BY <1>2
<1>14. sums[0] = open.prev /\ \A j \in 1..n : sums[j] = next(sums[j - 1], j)
  BY <1>6, <1>12, <1>13, Zenon
<1> HIDE DEF Is
<1>15. \A j \in 0..n : sums[j] \in Int
  <2> DEFINE P == {j \in 0..n : sums[j] \in Int}
  <2>1. 0 \in P
    BY <1>13, <1>14
  <2>2. ASSUME NEW j \in 0..(n - 1), j \in P PROVE j + 1 \in P
    <3> DEFINE i == j + 1
    <3>1. i \in 1..n /\ i \in 0..n /\ i - 1 = j /\ sums[j] \in Int
      BY <1>2, <2>2
    <3> HIDE DEF i
    <3>2. sums[i] = next(sums[j], i)
      BY <1>14, <3>1
    <3> QED BY <1>3, <3>1, <3>2 DEF i
  <2> HIDE DEF P
  <2>3. \A j \in 0..n : j \in P
    BY <1>2, <2>1, <2>2, Climb
  <2> QED BY <2>3 DEF P
<1> QED BY <1>1, <1>14, <1>15 DEF n, next

(* The running sum, however often it wrapped, is near the values.          *)
Taking(s, t) == IF Size(s.shape) < Len(s.ints) - t THEN Size(s.shape) ELSE Len(s.ints) - t

LEMMA SumsNear ==
  ASSUME NEW s, NEW k, NEW m, MiniAt(s, k, m)
  PROVE  LET sums == Sums(Gaps(s, Wide, k + 1, m + 1))
             t == k * s.shape.block + m * Size(s.shape) + 1
         IN  /\ Taking(s, t) \in 1..Size(s.shape) /\ Len(Gaps(s, Wide, k + 1, m + 1)) = Size(s.shape)
             /\ \A j \in 0..Taking(s, t) :
                  sums[j] \in Int /\ s.ints[t + j] \in Int /\ Near(sums[j], s.ints[t + j], Span(Wide))
<1> DEFINE b == Wide
           n == Len(s.ints)
           z == Size(s.shape)
           t == k * s.shape.block + m * z + 1
           m1 == m + 1
           g == Gaps(s, b, k + 1, m1)
           sums == Sums(g)
           q == Taking(s, t)
           M == Span(b)
           base == Base(s, b, k + 1)
<1>1. Regular(s, b) /\ k \in Nat /\ k < BlockCount(s) /\ open.min = base /\ open.prev \in Int
      /\ t \in 1..(n - 1) /\ Near(open.prev, s.ints[t], M)
  BY DEF MiniAt, OpenAt
<1>2. b \in Sizes /\ 2 * b \in Sizes /\ b \in {1, 2, 4, 8} /\ n \in Nat /\ z \in Nat \ {0} /\ M \in Nat \ {0}
  BY <1>1, RegularSizes
<1>3. m1 \in Nat \ {0}
  <2>1. s.shape.minis \in Nat /\ m \in 0..(s.shape.minis - 1)
    BY <1>1, RegularSizes DEF MiniAt
  <2> QED BY <2>1
<1>4. base \in Int /\ M \in Int
  BY <1>1, <1>2, BaseInt
<1>5. \A j \in Nat : Slot(s.shape, k + 1, m1, j) = t - 1 + j
  <2> SUFFICES ASSUME NEW j \in Nat PROVE Slot(s.shape, k + 1, m1, j) = t - 1 + j
    OBVIOUS
  <2> DEFINE kb == k * s.shape.block
             mz == m * z
  <2>1. Slot(s.shape, k + 1, m1, j) = kb + mz + j /\ kb \in Nat /\ mz \in Nat
    BY SlotIs
  <2>2. t = kb + mz + 1
    OBVIOUS
  <2> HIDE DEF kb, mz, t, m1
  <2> QED BY <2>1, <2>2
<1> HIDE DEF t, m1
<1>6. /\ g \in Seq(Int) /\ Len(g) = z
      /\ \A j \in 1..z : /\ g[j] \in 0..(M - 1)
                         /\ Slot(s.shape, k + 1, m1, j) < n =>
                              Near(g[j] + base, Delta(s, b, Slot(s.shape, k + 1, m1, j)), M)
  BY <1>1, <1>3, GapsTyped
<1>7. q \in 1..z /\ q <= n - t
  BY <1>1, <1>2 DEF Taking
<1>8. \A j \in 0..(n - t) : s.ints[t + j] \in Int
  <2>1. s.ints \in Seq(Holds(Signed(b))) /\ Holds(Signed(b)) = (-Half[b])..(Half[b] - 1) /\ Half[b] \in Nat
    <3>1. s \in StreamSet(b)
      BY <1>1 DEF Regular
    <3>2. Holds(Signed(b)) = (-Half[b])..(Half[b] - 1) /\ Half[b] \in Nat
      BY <1>2, Spans
    <3> QED BY <3>1, <3>2 DEF StreamSet
  <2> DEFINE ints == s.ints
             H == Holds(Signed(b))
  <2>2. \A h \in H : h \in Int
    <3> HIDE DEF H
    <3> QED BY <2>1 DEF H
  <2>3. \A j \in 0..(n - t) : t + j \in 1..Len(ints)
    BY <1>1, <1>2
  <2> HIDE DEF ints, H, n
  <2>4. ints \in Seq(H)
    BY <2>1 DEF ints, H
  <2>5. \A i \in 1..Len(ints) : ints[i] \in H
    BY <2>4
  <2> QED BY <2>2, <2>3, <2>5 DEF ints
<1>9. /\ sums[0] = open.prev
      /\ \A j \in 0..z : sums[j] \in Int
      /\ \A j \in 1..z : sums[j] = As(sums[j - 1] + open.min + g[j], Signed(2 * b))
  <2> HIDE DEF g
  <2> QED BY <1>1, <1>2, <1>4, <1>6, SumsAre
<1> HIDE DEF g, sums, q, M, n, z, base, b
<1> DEFINE P == {j \in 0..q : Near(sums[j], s.ints[t + j], M)}
<1>10. 0 \in P
  <2>1. t + 0 = t /\ 0 \in 0..q
    BY <1>1, <1>2, <1>7
  <2> QED BY <1>1, <1>9, <2>1
<1>11. ASSUME NEW j \in 0..(q - 1), j \in P PROVE j + 1 \in P
  <2> DEFINE i == j + 1
             d == Delta(s, b, t + j)
             x == s.ints[t + j]
             y == s.ints[t + i]
             u == sums[j]
             v == u + open.min + g[i]
  <2>1. i \in 1..q /\ i \in 0..q /\ i \in 1..z /\ i \in Nat /\ i - 1 = j /\ j \in 0..z /\ j \in 0..(n - t)
        /\ i \in 0..(n - t)
        /\ t - 1 + i = t + j /\ t + j \in 1..(n - 1) /\ t + j + 1 = t + i /\ t + j < n
    BY <1>1, <1>2, <1>7
  <2>2. d \in Int /\ x \in Int /\ y \in Int /\ Near(d, y - x, M)
    <3> DEFINE l == t + j
    <3>1. b \in {4, 8} /\ s \in StreamSet(b) /\ l \in 1..(Len(s.ints) - 1) /\ l + 1 = t + i
      BY <1>1, <2>1 DEF Regular, n
    <3> HIDE DEF l, i
    <3>2. Delta(s, b, l) \in Int /\ s.ints[l] \in Int /\ s.ints[l + 1] \in Int
          /\ Near(Delta(s, b, l), s.ints[l + 1] - s.ints[l], Span(b))
      BY <3>1, DeltaNear
    <3> QED BY <3>1, <3>2 DEF l, M
  <2>3. Near(g[i] + base, d, M) /\ g[i] \in Int
    <3>1. Slot(s.shape, k + 1, m1, i) = t + j
      BY <1>5, <2>1
    <3> QED BY <1>2, <1>6, <2>1, <3>1
  <2>4. u \in Int /\ Near(u, x, M)
    BY <1>9, <1>11, <2>1
  <2>5. sums[i] = As(v, Signed(2 * b)) /\ v \in Int
    BY <1>1, <1>4, <1>9, <2>1, <2>3, <2>4
  <2> HIDE DEF i, d, x, y, u
  <2>6. y - x \in Int /\ g[i] + base \in Int
    BY <1>4, <2>2, <2>3
  <2>7. Near(g[i] + base, y - x, M)
    BY <1>4, <2>2, <2>3, <2>6, NearNear
  <2>8. Near(u + (g[i] + base), x + (y - x), M)
    BY <1>4, <2>2, <2>4, <2>6, <2>7, NearAdd
  <2>9. u + (g[i] + base) = v /\ x + (y - x) = y
    BY <1>1, <1>4, <2>2, <2>3, <2>4
  <2> HIDE DEF v
  <2>10. Near(v, y, M)
    BY <2>8, <2>9
  <2>11. sums[i] \in Int /\ Near(sums[i], v, Span(2 * b))
    BY <1>2, <2>5, AsNear
  <2>12. Near(sums[i], v, M)
    BY <1>2, <2>5, <2>11, Narrower DEF M
  <2>13. Near(sums[i], y, M)
    BY <1>4, <2>2, <2>5, <2>10, <2>11, <2>12, NearNear
  <2> QED BY <2>1, <2>13 DEF i, y
<1> HIDE DEF P
<1>12. \A j \in 0..q : j \in P
  BY <1>2, <1>7, <1>10, <1>11, Climb
<1>13. \A j \in 0..q : sums[j] \in Int /\ s.ints[t + j] \in Int /\ Near(sums[j], s.ints[t + j], M)
  <2>1. \A j \in 0..q : j \in 0..z /\ j \in 0..(n - t)
    BY <1>1, <1>2, <1>7
  <2> QED BY <1>8, <1>9, <1>12, <2>1 DEF P
<1> QED BY <1>6, <1>7, <1>13 DEF g, sums, q, M, n, z, base, b, t, m1

-----------------------------------------------------------------------------
(* The page.                                                               *)

DataUnits(p) == [i \in DOMAIN p.data |-> Unit("data", p.data[i])]
Rest(p, n) == Behind(Streams(p), n) \o DataUnits(p)
IntKinds == {"i32", "i64"}

LEMMA PayloadTyped ==
  ASSUME payload \in Payloads
  PROVE  /\ Octet \in Nat \ {0} /\ MaxMinis \in Nat /\ Wide \in {4, 8} /\ payload.cut \in Nat
         /\ payload.kind \in IntKinds \cup {"length", "byte_array"}
         /\ payload.streams \in Seq(StreamSet(Wide)) /\ Len(payload.streams) = StreamsOf(payload.kind)
         /\ \A k \in 1..Len(payload.streams) :
              /\ payload.streams[k] \in StreamSet(Wide)
              /\ \/ payload.streams[k].ints = << >> \/ Shaped(payload.streams[k].shape)
                 \/ Refused(payload, payload.streams[k])
         /\ payload.data \in Seq(Int) /\ Len(payload.streams) \in {1, 2}
<1>1. /\ payload.kind \in IntKinds \cup {"length", "byte_array"}
      /\ payload.streams \in Seq(StreamSet(Wide)) /\ Len(payload.streams) = StreamsOf(payload.kind)
      /\ payload.data \in Seq(Int) /\ payload.cut \in Nat
      /\ \A k \in DOMAIN payload.streams :
           \/ payload.streams[k].ints = << >> \/ Shaped(payload.streams[k].shape)
           \/ Refused(payload, payload.streams[k])
  BY PayloadsAssumption DEF IntKinds, StreamSet, Wide
<1>2. Wide \in {4, 8} /\ Len(payload.streams) \in {1, 2}
  BY <1>1 DEF Wide, BytesOf, StreamsOf
<1> DEFINE st == payload.streams
           T == StreamSet(Wide)
<1> HIDE DEF st, T
<1>3. st \in Seq(T)
  BY <1>1 DEF st, T
<1>4. \A k \in 1..Len(st) : st[k] \in T /\ k \in DOMAIN st
  BY <1>3
<1> QED BY <1>1, <1>2, <1>4, PayloadsAssumption DEF st, T

LEMMA RestTyped ==
  ASSUME payload \in Payloads
  PROVE  /\ DataUnits(payload) \in Seq(Item) /\ Len(DataUnits(payload)) = Len(payload.data)
         /\ \A i \in 1..Len(payload.data) : DataUnits(payload)[i].v = payload.data[i]
         /\ Rest(payload, Len(payload.streams)) = DataUnits(payload)
         /\ \A n \in 0..Len(payload.streams) : Rest(payload, n) \in Seq(Item)
         /\ \A n \in 0..(Len(payload.streams) - 1) :
              /\ payload.streams[n + 1] \in StreamSet(Wide)
              /\ Header(payload.streams[n + 1]) \in Seq(Item)
              /\ Following(payload.streams[n + 1], Wide) \in Seq(Item)
              /\ Rest(payload, n) = Header(payload.streams[n + 1])
                   \o (Following(payload.streams[n + 1], Wide) \o Rest(payload, n + 1))
<1> DEFINE N == Len(payload.streams)
           D == DataUnits(payload)
           P == Streams(payload)
           e(k) == Encoded(payload.streams[k], Wide)
<1>1. /\ Octet \in Nat \ {0} /\ Wide \in {4, 8} /\ payload.data \in Seq(Int) /\ N \in Nat
      /\ payload.streams \in Seq(StreamSet(Wide))
      /\ \A k \in 1..N : payload.streams[k] \in StreamSet(Wide)
  BY PayloadTyped
<1>2. /\ D \in Seq(Item) /\ Len(D) = Len(payload.data)
      /\ \A i \in 1..Len(payload.data) : D[i].v = payload.data[i]
  <2> DEFINE data == payload.data
             u(i) == Unit("data", data[i])
             nd == Len(data)
  <2>1. D = [i \in 1..nd |-> u(i)] /\ nd \in Nat
    BY <1>1 DEF DataUnits
  <2>2. \A i \in 1..nd : data[i] \in Int
    BY <1>1
  <2>3. \A i \in 1..nd : u(i) \in Item /\ u(i).v = data[i]
    BY <2>2, UnitItem
  <2> HIDE DEF u, D, nd
  <2> QED BY <2>1, <2>3 DEF nd
<1>3. ASSUME NEW k \in 1..N
      PROVE  LET s == payload.streams[k]
             IN  /\ e(k) \in Seq(Item) /\ Header(s) \in Seq(Item) /\ Following(s, Wide) \in Seq(Item)
                 /\ e(k) = Header(s) \o Following(s, Wide)
  <2> DEFINE s == payload.streams[k]
  <2>1. s \in StreamSet(Wide)
    BY <1>1
  <2> HIDE DEF s
  <2>2. /\ Encoded(s, Wide) \in Seq(Item) /\ Header(s) \in Seq(Item) /\ Following(s, Wide) \in Seq(Item)
        /\ Encoded(s, Wide) = Header(s) \o Following(s, Wide)
    BY <1>1, <2>1, EncodedTyped
  <2> QED BY <2>2 DEF s
<1>4. P = [k \in 1..N |-> e(k)]
  BY <1>1 DEF Streams, Wide
<1>5. P \in Seq(Seq(Item)) /\ Len(P) = N /\ \A k \in 1..N : P[k] = e(k)
  <2>1. \A k \in 1..N : e(k) \in Seq(Item)
    BY <1>3
  <2> HIDE DEF e, N
  <2> QED BY <1>1, <1>4, <2>1
<1> HIDE DEF P, D, e, N
<1>6. /\ Behind(P, N) = << >> /\ \A n \in 0..N : Behind(P, n) \in Seq(Item)
      /\ \A n \in 0..(N - 1) : Behind(P, n) = P[n + 1] \o Behind(P, n + 1)
  BY <1>5, BehindIs
<1>7. \A n \in 0..N : Rest(payload, n) \in Seq(Item)
  BY <1>2, <1>6, EndToEnd DEF Rest, P, D
<1>8. Rest(payload, N) = D
  <2>1. << >> \o D = D
    BY <1>2
  <2> QED BY <1>6, <2>1 DEF Rest, P, D
<1>9. ASSUME NEW n \in 0..(N - 1)
      PROVE  LET s == payload.streams[n + 1]
             IN  /\ s \in StreamSet(Wide)
                 /\ Header(s) \in Seq(Item) /\ Following(s, Wide) \in Seq(Item)
                 /\ Rest(payload, n) = Header(s) \o (Following(s, Wide) \o Rest(payload, n + 1))
  <2> DEFINE s == payload.streams[n + 1]
             h == Header(s)
             f == Following(s, Wide)
             b == Behind(P, n + 1)
  <2>1. n + 1 \in 1..N /\ n + 1 \in 0..N /\ n \in 0..N
    BY <1>1
  <2>2. s \in StreamSet(Wide) /\ h \in Seq(Item) /\ f \in Seq(Item) /\ e(n + 1) = h \o f
    BY <1>1, <1>3, <2>1
  <2>3. b \in Seq(Item) /\ Behind(P, n) = (h \o f) \o b
    BY <1>5, <1>6, <2>1, <2>2
  <2> HIDE DEF h, f, b
  <2>4. (h \o f) \o b = h \o (f \o b) /\ f \o b \in Seq(Item)
    BY <2>2, <2>3, ItemsInTurn
  <2>5. (h \o (f \o b)) \o D = h \o ((f \o b) \o D)
    <3> DEFINE fb == f \o b
    <3>1. fb \in Seq(Item) /\ h \in Seq(Item) /\ D \in Seq(Item)
      BY <1>2, <2>2, <2>4
    <3> HIDE DEF fb
    <3>2. (h \o fb) \o D = h \o (fb \o D)
      BY <3>1, ItemsInTurn
    <3> QED BY <3>2 DEF fb
  <2>6. (f \o b) \o D = f \o (b \o D)
    BY <1>2, <2>2, <2>3, ItemsInTurn
  <2>7. Rest(payload, n) = Behind(P, n) \o D /\ Rest(payload, n + 1) = b \o D
    BY DEF Rest, P, D, b
  <2>8. Rest(payload, n) = h \o (f \o Rest(payload, n + 1))
    BY <2>3, <2>4, <2>5, <2>6, <2>7
  <2> QED BY <2>2, <2>8 DEF h, f
<1> QED BY <1>2, <1>7, <1>8, <1>9 DEF D, N

-----------------------------------------------------------------------------
(* Where the decoder is.                                                   *)

LEMMA NeededIs ==
  ASSUME SuffixLengths \in Seq(Int)
  PROVE  /\ Needed(0) = 0 /\ \A k \in 0..Len(SuffixLengths) : Needed(k) \in Int
         /\ \A k \in 1..Len(SuffixLengths) : Needed(k) = Needed(k - 1) + SuffixLengths[k]
<1> DEFINE a == SuffixLengths
           n == Len(a)
           Is(f) == f = [k \in 0..n |-> IF k = 0 THEN 0 ELSE f[k - 1] + a[k]]
           need == CHOOSE f : Is(f)
           step == [k \in 1..n |-> [v \in Int |-> v + a[k]]]
<1>1. \A k : Needed(k) = need[k]
  BY DEF Needed
<1>2. n \in Nat /\ \A k \in 1..n : a[k] \in Int
  OBVIOUS
<1> HIDE DEF n, a
<1>3. step \in [1..n -> [Int -> Int]]
  BY <1>2
<1>4. PICK g \in [0..n -> Int] : ReadsBelow(g, n, 0, step)
  <2> HIDE DEF step
  <2>1. 0 \in Int
    OBVIOUS
  <2> QED BY <1>2, <1>3, <2>1, Recursion
<1>5. \A k \in 1..n : k - 1 \in 0..n /\ k \in 0..n /\ k # 0
  BY <1>2
<1>6. g[0] = 0 /\ \A k \in 1..n : g[k] = g[k - 1] + a[k]
  BY <1>4, <1>5 DEF ReadsBelow
<1>7. \A k \in 0..n : k = 0 \/ (k # 0 /\ k \in 1..n)
  BY <1>2
<1>8. \A k \in 0..n : g[k] = IF k = 0 THEN 0 ELSE g[k - 1] + a[k]
  BY <1>6, <1>7, Zenon
<1>9. Is(g)
  BY <1>8
<1>10. Is(need)
  <2> HIDE DEF Is
  <2> QED BY <1>9
<1> HIDE DEF need
<1>11. \A k \in 0..n : need[k] = IF k = 0 THEN 0 ELSE need[k - 1] + a[k]
  <2>1. need = [k \in 0..n |-> IF k = 0 THEN 0 ELSE need[k - 1] + a[k]]
    BY <1>10
  <2> QED BY <2>1, Zenon
<1>12. 0 \in 0..n
  BY <1>2
<1>13. need[0] = 0 /\ \A k \in 1..n : need[k] = need[k - 1] + a[k]
  BY <1>5, <1>11, <1>12, Zenon
<1> HIDE DEF Is
<1>14. \A k \in 0..n : need[k] \in Int
  <2> DEFINE P == {k \in 0..n : need[k] \in Int}
  <2>1. 0 \in P
    BY <1>12, <1>13
  <2>2. ASSUME NEW k \in 0..(n - 1), k \in P PROVE k + 1 \in P
    <3> DEFINE i == k + 1
    <3>1. i \in 1..n /\ i \in 0..n /\ i - 1 = k /\ need[k] \in Int
      BY <1>2, <2>2
    <3> HIDE DEF i
    <3>2. need[i] = need[k] + a[i]
      BY <1>13, <3>1
    <3> QED BY <1>2, <3>1, <3>2 DEF i
  <2> HIDE DEF P
  <2>3. \A k \in 0..n : k \in P
    BY <1>2, <2>1, <2>2, Climb
  <2> QED BY <2>3 DEF P
<1> QED BY <1>1, <1>13, <1>14 DEF n, a

(* With no negative length, no value needs less than the one before it.    *)
LEMMA NeededGrows ==
  ASSUME SuffixLengths \in Seq(Int), \A k \in 1..Len(SuffixLengths) : SuffixLengths[k] >= 0,
         NEW k \in 0..Len(SuffixLengths)
  PROVE  Needed(k) <= Needed(Len(SuffixLengths))
<1> DEFINE n == Len(SuffixLengths)
           P == {j \in 0..(n - k) : Needed(k) <= Needed(k + j)}
<1>1. n \in Nat /\ k \in 0..n /\ n - k \in Nat
  OBVIOUS
<1>2. /\ \A j \in 0..n : Needed(j) \in Int
      /\ \A j \in 1..n : Needed(j) = Needed(j - 1) + SuffixLengths[j]
  BY NeededIs
<1>3. \A j \in 1..n : SuffixLengths[j] \in Int /\ SuffixLengths[j] >= 0
  OBVIOUS
<1> HIDE DEF n
<1>4. 0 \in P
  <2>1. k + 0 = k /\ 0 \in 0..(n - k) /\ Needed(k) \in Int
    BY <1>1, <1>2
  <2> QED BY <2>1
<1>5. ASSUME NEW j \in 0..(n - k - 1), j \in P PROVE j + 1 \in P
  <2> DEFINE i == k + (j + 1)
  <2>1. i \in 1..n /\ i - 1 = k + j /\ k + j \in 0..n /\ j + 1 \in 0..(n - k) /\ i \in 0..n
    BY <1>1
  <2> HIDE DEF i
  <2>2. Needed(i) = Needed(k + j) + SuffixLengths[i] /\ Needed(k) <= Needed(k + j)
    BY <1>2, <1>5, <2>1
  <2>3. Needed(k) \in Int /\ Needed(k + j) \in Int /\ Needed(i) \in Int
    BY <1>1, <1>2, <2>1
  <2>4. Needed(k) <= Needed(i)
    BY <1>3, <2>1, <2>2, <2>3
  <2> QED BY <2>1, <2>4 DEF i
<1> HIDE DEF P
<1>6. \A j \in 0..(n - k) : j \in P
  BY <1>1, <1>4, <1>5, Climb
<1>7. n - k \in P /\ k + (n - k) = n
  BY <1>1, <1>6
<1> QED BY <1>7 DEF P, n

Current == payload.streams[Len(lengths) + 1]

(* The streams passed, and that the format allows them if they are lengths.*)
Passed(s) == s.ints = << >> \/ Shaped(s.shape) \/ payload.kind \in IntKinds

Streamed ==
  /\ payload \in Payloads
  /\ DOMAIN lengths = 1..Len(lengths) /\ Len(lengths) \in 0..Len(payload.streams)
  /\ \A i \in 1..Len(lengths) :
       lengths[i] = payload.streams[i].ints /\ Passed(payload.streams[i])

HeaderPlace == Ahead(cursor, Rest(payload, Len(lengths)))

(* A stream that is not of such a shape has no block.                      *)
Hopeless ==
  /\ Current.ints # << >> /\ ~Shaped(Current.shape)
  /\ open.minis \in Nat \ {0}
  /\ open.minis > MaxMinis \/ Ahead(cursor, <<Unit("varint", 0)>>)

BlockPlace(k) ==
  /\ k \in Nat /\ OpenAt(Current, k * Current.shape.block + 1)
  /\ Ahead(cursor, Behind(Blocks(Current, Wide), k) \o Rest(payload, Len(lengths) + 1))

MiniPlace(k, m) ==
  /\ MiniAt(Current, k, m)
  /\ Ahead(cursor, Behind(Bodies(Current, Wide, k + 1), m)
                     \o (Behind(Blocks(Current, Wide), k + 1)
                           \o Rest(payload, Len(lengths) + 1)))

(* A value taken is spelled, and its prefix and suffix are allowed.        *)
SpelledSoFar(k) ==
  /\ SuffixLengths[k] \in Nat
  /\ Shared(k) \in 0..(IF k = 1 THEN 0 ELSE Shared(k - 1) + SuffixLengths[k - 1])
  /\ values[k] \in Seq(Int) /\ Len(values[k]) = Shared(k) + SuffixLengths[k]
  /\ values[k] = SubSeq(IF k = 1 THEN << >> ELSE values[k - 1], 1, Shared(k))
                   \o SubSeq(payload.data, Needed(k - 1) + 1, Needed(k))

DataPlace ==
  /\ Len(lengths) = Len(payload.streams) /\ payload.kind \notin IntKinds
  /\ Len(values) \in 0..Len(SuffixLengths) /\ values \in Seq(Seq(Int))
  /\ Len(values) > 0 => Len(PrefixLengths) = Len(SuffixLengths)
  /\ \A k \in 1..Len(values) : SpelledSoFar(k)
  /\ Needed(Len(values)) \in 0..Len(payload.data)
  /\ cursor \in 0..Len(units) /\ Len(units) \in Nat
  /\ Len(units) - cursor <= Len(payload.data) - Needed(Len(values))
  /\ payload.cut = 0 => Len(units) - cursor = Len(payload.data) - Needed(Len(values))
  /\ \A j \in 1..(Len(units) - cursor) :
       units[cursor + j].v = payload.data[Needed(Len(values)) + j]

DInv ==
  \/ dpc = "rest"
  \/ /\ Streamed /\ dpc \in {"header", "block", "mini", "data", "done", "failed"}
     /\ dpc \in {"header", "block", "mini"} => Len(lengths) < Len(payload.streams) /\ values = << >>
     /\ dpc = "header" => HeaderPlace
     /\ dpc = "block" => Hopeless \/ \E k \in Nat : BlockPlace(k)
     /\ dpc = "mini" => \E k, m \in Nat : MiniPlace(k, m)
     /\ dpc = "data" => DataPlace
     /\ dpc = "done" => payload.kind \in IntKinds \/ (Valid /\ Spelled)
     /\ dpc = "failed" => ~Valid \/ payload.cut > 0

-----------------------------------------------------------------------------
(* The steps.                                                              *)

LEMMA SuffixTyped ==
  ASSUME payload \in Payloads
  PROVE  /\ SuffixLengths \in Seq(Int) /\ PrefixLengths \in Seq(Int)
         /\ Len(SuffixLengths) \in Nat /\ Len(PrefixLengths) \in Nat
<1>1. /\ Wide \in {4, 8} /\ Len(payload.streams) \in {1, 2}
      /\ \A k \in 1..Len(payload.streams) : payload.streams[k] \in StreamSet(Wide)
  BY PayloadTyped
<1> DEFINE H == Holds(Signed(Wide))
<1>2. \A v \in H : v \in Int
  <2>1. Wide \in Sizes
    BY <1>1 DEF Sizes
  <2>2. H = (-Half[Wide])..(Half[Wide] - 1) /\ Half[Wide] \in Nat
    BY <2>1, Spans
  <2> QED BY <2>2
<1>3. \A s \in StreamSet(Wide) : s.ints \in Seq(H)
  BY DEF StreamSet
<1> HIDE DEF H
<1>4. \A q \in Seq(H) : q \in Seq(Int) /\ Len(q) \in Nat
  BY <1>2
<1>5. Len(payload.streams) \in 1..Len(payload.streams) /\ 1 \in 1..Len(payload.streams)
  BY <1>1
<1>6. SuffixLengths \in Seq(H) /\ PrefixLengths \in Seq(H)
  BY <1>1, <1>3, <1>5 DEF SuffixLengths, PrefixLengths
<1> QED BY <1>4, <1>6

(* In front of the data.                                                   *)
LEMMA DataBegins ==
  ASSUME payload \in Payloads, NEW c, Ahead(c, Rest(payload, Len(payload.streams)))
  PROVE  /\ c \in 0..Len(units) /\ Len(units) \in Nat /\ Len(payload.data) \in Nat
         /\ Len(units) - c <= Len(payload.data) - 0
         /\ payload.cut = 0 => Len(units) - c = Len(payload.data) - 0
         /\ \A j \in 1..(Len(units) - c) : units[c + j].v = payload.data[0 + j]
<1> DEFINE D == DataUnits(payload)
           nd == Len(payload.data)
           n == Len(units)
<1>1. Rest(payload, Len(payload.streams)) = D /\ Len(D) = nd /\ \A i \in 1..nd : D[i].v = payload.data[i]
  BY RestTyped
<1>2. nd \in Nat
  BY PayloadTyped
<1>3. /\ c \in 0..n /\ n \in Nat /\ n <= c + nd /\ (payload.cut = 0 => n = c + nd)
      /\ \A j \in 1..(n - c) : units[c + j] = D[j]
  BY <1>1 DEF Ahead
<1> HIDE DEF n, D, nd
<1>4. ASSUME NEW j \in 1..(n - c) PROVE units[c + j].v = payload.data[0 + j]
  <2>1. j \in 1..nd /\ 0 + j = j
    BY <1>2, <1>3
  <2> QED BY <1>1, <1>3, <2>1
<1> QED BY <1>2, <1>3, <1>4 DEF n, nd

(* A stream ends with all of its values, and the next one, or the data,    *)
(* in front.                                                               *)
LEMMA EndInv ==
  ASSUME Streamed, Len(lengths) < Len(payload.streams), values = << >>, Passed(Current),
         NEW got, NEW upto, EndStream(got, upto), got = Current.ints,
         Ahead(upto, Rest(payload, Len(lengths) + 1))
  PROVE  DInv'
<1> DEFINE n == Len(lengths)
           N == Len(payload.streams)
<1>1. /\ payload \in Payloads /\ DOMAIN lengths = 1..n /\ n \in 0..N
      /\ \A i \in 1..n : lengths[i] = payload.streams[i].ints /\ Passed(payload.streams[i])
      /\ n < N
  BY DEF Streamed
<1>2. /\ N \in {1, 2} /\ N = StreamsOf(payload.kind)
      /\ payload.kind \in IntKinds \cup {"length", "byte_array"}
  BY <1>1, PayloadTyped
<1>3. /\ cursor' = upto /\ lengths' = Append(lengths, got) /\ payload' = payload /\ units' = units
      /\ values' = values
      /\ dpc' = IF payload.kind \in IntKinds THEN "done" ELSE IF n + 1 < N THEN "header" ELSE "data"
  BY <1>2 DEF EndStream, IntKinds
<1>4. /\ n \in Nat /\ n + 1 \in 0..N /\ Len(lengths') = n + 1 /\ DOMAIN lengths' = 1..(n + 1)
      /\ \A i \in 1..n : lengths'[i] = lengths[i]
      /\ lengths'[n + 1] = got
  <2>1. n \in Nat /\ n + 1 \in 0..N
    BY <1>1, <1>2
  <2>2. lengths' = [i \in 1..(n + 1) |-> IF i = n + 1 THEN got ELSE lengths[i]]
    BY <1>3
  <2>3. Len(lengths') = n + 1 /\ DOMAIN lengths' = 1..(n + 1)
    <3> HIDE DEF n
    <3> QED BY <2>1, <2>2
  <2>4. \A i \in 1..n : i \in 1..(n + 1) /\ i # n + 1
    BY <2>1
  <2>5. n + 1 \in 1..(n + 1)
    BY <2>1
  <2> HIDE DEF n
  <2> QED BY <2>1, <2>2, <2>3, <2>4, <2>5
<1>5. Streamed'
  <2>1. \A i \in 1..(n + 1) : lengths'[i] = payload.streams[i].ints /\ Passed(payload.streams[i])
    <3>1. \A i \in 1..(n + 1) : i \in 1..n \/ i = n + 1
      BY <1>4
    <3>2. lengths'[n + 1] = payload.streams[n + 1].ints /\ Passed(payload.streams[n + 1])
      BY <1>4 DEF Current
    <3> HIDE DEF n
    <3> QED BY <1>1, <1>4, <3>1, <3>2
  <2> QED BY <1>1, <1>3, <1>4, <2>1 DEF Streamed, Passed
<1>6. CASE payload.kind \in IntKinds
  BY <1>3, <1>5, <1>6 DEF DInv
<1>7. CASE payload.kind \notin IntKinds /\ n + 1 < N
  <2>1. dpc' = "header" /\ Len(lengths') < Len(payload'.streams) /\ values' = << >>
    BY <1>3, <1>4, <1>7
  <2>2. Ahead(cursor, Rest(payload, Len(lengths)))'
    BY <1>3, <1>4 DEF Ahead
  <2>3. HeaderPlace'
    BY <2>2 DEF HeaderPlace
  <2> QED BY <1>5, <2>1, <2>3 DEF DInv
<1>8. CASE payload.kind \notin IntKinds /\ ~(n + 1 < N)
  <2>1. dpc' = "data" /\ n + 1 = N
    BY <1>1, <1>2, <1>3, <1>4, <1>8
  <2>2. /\ upto \in 0..Len(units) /\ Len(units) \in Nat /\ Len(payload.data) \in Nat
        /\ Len(units) - upto <= Len(payload.data) - 0
        /\ payload.cut = 0 => Len(units) - upto = Len(payload.data) - 0
        /\ \A j \in 1..(Len(units) - upto) : units[upto + j].v = payload.data[0 + j]
    BY <1>1, <2>1, DataBegins
  <2>3. Needed(0) = 0 /\ Len(SuffixLengths) \in Nat
    BY <1>1, SuffixTyped, NeededIs
  <2>4. /\ Len(values') = 0 /\ values' \in Seq(Seq(Int)) /\ 1..0 = {}
    BY <1>3
  <2>5. /\ (Needed(Len(values)))' = 0 /\ SuffixLengths' = SuffixLengths /\ PrefixLengths' = PrefixLengths
    <3>1. SuffixLengths' = SuffixLengths /\ PrefixLengths' = PrefixLengths
      BY <1>3 DEF SuffixLengths, PrefixLengths
    <3>2. (Needed(Len(values)))' = Needed(0)
      BY <2>4, <3>1 DEF Needed
    <3> QED BY <2>3, <3>1, <3>2
  <2>6. DataPlace'
    BY <1>3, <1>4, <1>8, <2>1, <2>2, <2>3, <2>4, <2>5 DEF DataPlace
  <2> QED BY <1>5, <2>1, <2>6 DEF DInv
<1> QED BY <1>6, <1>7, <1>8

(* A page refused is not allowed, or has lost units.                       *)
LEMMA FailInv == ASSUME Streamed, Fail, ~Valid \/ payload.cut > 0 PROVE DInv'
<1>1. dpc' = "failed" /\ UNCHANGED <<payload, units, cursor, open, lengths, values>>
  BY DEF Fail
<1>2. Streamed'
  BY <1>1 DEF Streamed, Passed
<1>3. (~Valid \/ payload.cut > 0)'
  BY <1>1 DEF Valid, Needed, SuffixLengths, PrefixLengths, Shared
<1> QED BY <1>1, <1>2, <1>3 DEF DInv

LEMMA CurrentIs ==
  ASSUME Streamed, Len(lengths) < Len(payload.streams)
  PROVE  /\ payload \in Payloads /\ Len(lengths) \in 0..(Len(payload.streams) - 1)
         /\ Current \in StreamSet(Wide) /\ Wide \in {4, 8} /\ Octet \in Nat \ {0} /\ MaxMinis \in Nat
         /\ payload.cut \in Nat
         /\ Header(Current) \in Seq(Item) /\ Len(Header(Current)) = 4
         /\ Header(Current)[1].v = Current.shape.block /\ Header(Current)[2].v = Current.shape.minis
         /\ Header(Current)[3].v = Len(Current.ints)
         /\ Current.ints # << >> => Header(Current)[4].v = Current.ints[1]
         /\ Following(Current, Wide) \in Seq(Item)
         /\ Rest(payload, Len(lengths) + 1) \in Seq(Item)
         /\ Rest(payload, Len(lengths)) =
              Header(Current) \o (Following(Current, Wide) \o Rest(payload, Len(lengths) + 1))
         /\ Current.shape \in [block : Nat, minis : Nat, spare : Nat]
         /\ Len(Current.ints) \in Nat /\ (Len(Current.ints) = 0 <=> Current.ints = << >>)
         /\ Current.ints = << >> \/ Shaped(Current.shape) \/ Refused(payload, Current)
         /\ Current.ints # << >> /\ ~Shaped(Current.shape) => ~Valid
<1> DEFINE n == Len(lengths)
           N == Len(payload.streams)
           s == payload.streams[n + 1]
<1>1. payload \in Payloads /\ n \in 0..N /\ n < N
  BY DEF Streamed
<1>2. N \in {1, 2} /\ Wide \in {4, 8} /\ Octet \in Nat \ {0} /\ MaxMinis \in Nat /\ payload.cut \in Nat
  BY <1>1, PayloadTyped
<1>3. n \in 0..(N - 1) /\ n + 1 \in 1..N /\ n + 1 \in 0..N
  BY <1>1, <1>2
<1>4. /\ s \in StreamSet(Wide) /\ Header(s) \in Seq(Item) /\ Following(s, Wide) \in Seq(Item)
      /\ Rest(payload, n) = Header(s) \o (Following(s, Wide) \o Rest(payload, n + 1))
      /\ Rest(payload, n + 1) \in Seq(Item)
  BY <1>1, <1>3, RestTyped
<1>5. s.ints = << >> \/ Shaped(s.shape) \/ Refused(payload, s)
  BY <1>1, <1>3, PayloadTyped
<1>6. n + 1 \in DOMAIN payload.streams
  BY <1>1, <1>3, PayloadTyped
<1> HIDE DEF s
<1>7. /\ Len(Header(s)) = 4
      /\ Header(s)[1].v = s.shape.block /\ Header(s)[2].v = s.shape.minis
      /\ Header(s)[3].v = Len(s.ints) /\ (s.ints # << >> => Header(s)[4].v = s.ints[1])
  BY <1>2, <1>4, EncodedTyped
<1>8. /\ s.shape \in [block : Nat, minis : Nat, spare : Nat]
      /\ Len(s.ints) \in Nat /\ (Len(s.ints) = 0 <=> s.ints = << >>)
  BY <1>4 DEF StreamSet
<1>9. s.ints # << >> /\ ~Shaped(s.shape) => ~Valid
  <2>1. s.ints # << >> => Len(s.ints) > 0
    BY <1>8
  <2>2. Valid => (Len(s.ints) > 0 => Shaped(s.shape))
    BY <1>6 DEF Valid, s
  <2> QED BY <2>1, <2>2
<1>10. s = Current
  BY DEF s, Current
<1> HIDE DEF n, N
<1> QED BY <1>1, <1>2, <1>3, <1>4, <1>5, <1>7, <1>8, <1>9, <1>10 DEF n, N

LEMMA StreamInts ==
  ASSUME NEW bytes \in {4, 8}, NEW s \in StreamSet(bytes)
  PROVE  \A i \in 1..Len(s.ints) : s.ints[i] \in Holds(Signed(bytes)) /\ s.ints[i] \in Int
<1> DEFINE H == Holds(Signed(bytes))
           ints == s.ints
<1>1. \A v \in H : v \in Int
  <2>1. bytes \in Sizes
    BY DEF Sizes
  <2>2. H = (-Half[bytes])..(Half[bytes] - 1) /\ Half[bytes] \in Nat
    BY <2>1, Spans
  <2> QED BY <2>2
<1>2. ints \in Seq(H)
  BY DEF StreamSet
<1> HIDE DEF H, ints
<1>3. \A i \in 1..Len(ints) : ints[i] \in H
  BY <1>2
<1> QED BY <1>1, <1>3 DEF H, ints

(* The first block begins.                                                 *)
LEMMA BlockBegins ==
  ASSUME DInv, dpc = "header", Len(lengths) < Len(payload.streams), Streamed, values = << >>,
         Len(Current.ints) >= 2, Current.shape.minis # 0,
         Current.shape.block % Current.shape.minis = 0,
         Ahead(cursor + 4, Following(Current, Wide) \o Rest(payload, Len(lengths) + 1)),
         UNCHANGED <<payload, units, lengths, values>>, dpc' = "block", cursor' = cursor + 4,
         open' = [minis |-> Current.shape.minis, size |-> Size(Current.shape),
                  remaining |-> Len(Current.ints) - 1, prev |-> Current.ints[1], min |-> 0,
                  widths |-> << >>, out |-> <<Current.ints[1]>>]
  PROVE  DInv'
<1> DEFINE s == Current
           n == Len(s.ints)
           R == Rest(payload, Len(lengths) + 1)
<1>1. /\ payload \in Payloads /\ s \in StreamSet(Wide) /\ Wide \in {4, 8} /\ Octet \in Nat \ {0}
      /\ MaxMinis \in Nat /\ s.shape \in [block : Nat, minis : Nat, spare : Nat] /\ n \in Nat
      /\ R \in Seq(Item) /\ s.ints # << >>
      /\ s.ints = << >> \/ Shaped(s.shape) \/ Refused(payload, s)
  BY CurrentIs
<1>2. Current' = Current /\ Wide' = Wide /\ Streamed'
  BY DEF Current, Wide, Streamed, Passed
<1>3. Len(lengths') < Len(payload'.streams) /\ values' = << >> /\ dpc' = "block"
  OBVIOUS
<1>4. CASE Shaped(s.shape)
  <2>1. Regular(s, Wide)
    BY <1>1, <1>4 DEF Regular
  <2>2. Following(s, Wide) = Behind(Blocks(s, Wide), 0)
    BY <1>1, <1>4 DEF Following
  <2>3. s.ints[1] \in Int
    BY <1>1, StreamInts
  <2>4. 0 * s.shape.block + 1 = 1 /\ 1 \in 1..(n - 1) /\ 0 \in Nat
    BY <1>1, <2>1, RegularSizes
  <2>5. Near(s.ints[1], s.ints[1], Span(Wide))
    BY <2>1, <2>3, RegularSizes, NearSame
  <2>6. OpenAt(s, 1)'
    <3>1. (Regular(s, Wide))'
      BY <1>2, <2>1 DEF Regular, Current, Wide
    <3>2. /\ open'.out = <<s.ints[1]>> /\ open'.prev = s.ints[1]
          /\ open'.minis = s.shape.minis /\ open'.size = Size(s.shape) /\ open'.remaining = n - 1
      OBVIOUS
    <3>3. open'.out \in Seq(Int) /\ Len(open'.out) = 1 /\ \A i \in 1..1 : open'.out[i] = s.ints[i]
      BY <2>3, <3>2
    <3>4. DOMAIN open' = OpenFields
      BY DEF OpenFields
    <3> HIDE DEF s
    <3>5. s' = s
      BY <1>2 DEF s
    <3> QED BY <1>2, <2>3, <2>4, <2>5, <3>1, <3>2, <3>3, <3>4, <3>5 DEF OpenAt
  <2>7. BlockPlace(0)'
    <3>1. (OpenAt(Current, 0 * Current.shape.block + 1))'
      <4>1. (0 * Current.shape.block + 1)' = 1
        BY <1>2, <2>4
      <4> QED BY <1>2, <2>6, <4>1
    <3>2. Ahead(cursor + 4, Behind(Blocks(s, Wide), 0) \o R)
      BY <2>2
    <3>3. (Ahead(cursor, Behind(Blocks(Current, Wide), 0) \o Rest(payload, Len(lengths) + 1)))'
      BY <1>2, <3>2 DEF Ahead
    <3> QED BY <2>4, <3>1, <3>3 DEF BlockPlace
  <2> QED BY <1>2, <1>3, <2>4, <2>7 DEF DInv
<1>5. CASE ~Shaped(s.shape)
  <2>1. s.shape.minis > MaxMinis \/ (payload.kind \in IntKinds /\ payload.data = << >>)
    <3>1. s.shape.minis # 0 /\ s.shape.block % s.shape.minis = 0 /\ n >= 2 /\ s.ints # << >>
      BY <1>1
    <3>2. Refused(payload, s)
      BY <1>1, <1>5, <3>1
    <3>3. Len(s.ints) # 1
      <4>1. n # 1
        <5> HIDE DEF n
        <5> QED BY <1>1, <3>1
      <4> QED BY <4>1
    <3> HIDE DEF s
    <3> QED BY <3>1, <3>2, <3>3 DEF Refused, IntKinds
  <2>2. ASSUME payload.kind \in IntKinds, payload.data = << >>
        PROVE  Ahead(cursor + 4, <<Unit("varint", 0)>>)
    <3>1. Len(payload.streams) = 1
      BY <1>1, <2>2, PayloadTyped DEF IntKinds, StreamsOf
    <3>2. Len(lengths) = 0
      BY <3>1 DEF Streamed
    <3>3. R = DataUnits(payload)
      BY <1>1, <3>1, <3>2, RestTyped
    <3>4. R = << >>
      BY <2>2, <3>3 DEF DataUnits
    <3>5. Following(s, Wide) = <<Unit("varint", 0)>>
      BY <1>1, <1>5 DEF Following
    <3>6. <<Unit("varint", 0)>> \o << >> = <<Unit("varint", 0)>>
      OBVIOUS
    <3> QED BY <3>4, <3>5, <3>6
  <2>3. open'.minis = s.shape.minis /\ s.shape.minis \in Nat \ {0}
    BY <1>1
  <2>4. open'.minis > MaxMinis \/ (Ahead(cursor, <<Unit("varint", 0)>>))'
    <3>1. CASE s.shape.minis > MaxMinis
      BY <2>3, <3>1
    <3>2. CASE payload.kind \in IntKinds /\ payload.data = << >>
      BY <2>2, <3>2 DEF Ahead
    <3> QED BY <2>1, <3>1, <3>2
  <2>5. Hopeless'
    BY <1>1, <1>2, <1>5, <2>3, <2>4 DEF Hopeless
  <2> QED BY <1>2, <1>3, <2>5 DEF DInv
<1> QED BY <1>4, <1>5

LEMMA HeaderInv == ASSUME DInv, ReadHeader PROVE DInv'
<1> DEFINE s == Current
           n == Len(s.ints)
           h == Header(s)
           R == Rest(payload, Len(lengths) + 1)
           F == Following(s, Wide) \o R
<1>1. /\ Streamed /\ Len(lengths) < Len(payload.streams) /\ values = << >>
      /\ Ahead(cursor, Rest(payload, Len(lengths))) /\ dpc = "header"
  BY DEF DInv, HeaderPlace, ReadHeader
<1>2. /\ h \in Seq(Item) /\ Len(h) = 4 /\ h[1].v = s.shape.block /\ h[2].v = s.shape.minis
      /\ h[3].v = n /\ (s.ints # << >> => h[4].v = s.ints[1])
      /\ Following(s, Wide) \in Seq(Item) /\ R \in Seq(Item) /\ Rest(payload, Len(lengths)) = h \o F
      /\ payload.cut \in Nat /\ n \in Nat /\ (n = 0 <=> s.ints = << >>)
      /\ s.shape \in [block : Nat, minis : Nat, spare : Nat] /\ Octet \in Nat \ {0}
      /\ s.ints = << >> \/ Shaped(s.shape) \/ Refused(payload, s)
      /\ (s.ints # << >> /\ ~Shaped(s.shape) => ~Valid)
      /\ s \in StreamSet(Wide) /\ Wide \in {4, 8}
  BY <1>1, CurrentIs
<1>3. F \in Seq(Item) /\ Ahead(cursor, h \o F)
  BY <1>1, <1>2, EndToEnd
<1> HIDE DEF h, F, R, s
<1>4. CASE ~Left(4)
  <2>1. Fail
    BY <1>4 DEF ReadHeader
  <2>2. payload.cut > 0
    BY <1>2, <1>3, <1>4, LostAhead DEF Left
  <2> QED BY <1>1, <2>1, <2>2, FailInv
<1>5. CASE Left(4)
  <2>1. Ahead(cursor + 4, F) /\ \A j \in 1..4 : units[cursor + j] = h[j]
    <3>1. cursor + Len(h) <= Len(units)
      BY <1>2, <1>5 DEF Left
    <3>2. Ahead(cursor + Len(h), F) /\ \A j \in 1..Len(h) : units[cursor + j] = h[j]
      BY <1>2, <1>3, <3>1, TakenAhead
    <3> QED BY <1>2, <3>2
  <2>2. /\ At(1) = s.shape.block /\ At(2) = s.shape.minis /\ At(3) = n
        /\ (s.ints # << >> => At(4) = s.ints[1])
    BY <1>2, <2>1 DEF At
  <2>3. CASE n = 0
    <3>1. EndStream(<< >>, cursor + 4)
      BY <1>5, <2>2, <2>3 DEF ReadHeader
    <3>2. s.ints = << >>
      BY <1>2, <2>3
    <3>3. Following(s, Wide) = << >>
      BY <2>3 DEF Following
    <3>4. F = R
      BY <1>2, <3>3 DEF F
    <3>5. Passed(s)
      BY <3>2 DEF Passed
    <3>6. Ahead(cursor + 4, Rest(payload, Len(lengths) + 1))
      BY <2>1, <3>4 DEF R
    <3> QED BY <1>1, <3>1, <3>2, <3>5, <3>6, EndInv DEF s
  <2>4. CASE n > 0 /\ (s.shape.minis = 0 \/ s.shape.block % s.shape.minis # 0)
    <3>1. Fail
      BY <1>5, <2>2, <2>4 DEF ReadHeader
    <3>2. ~Shaped(s.shape)
      <4>1. Shaped(s.shape) => s.shape.minis # 0 /\ s.shape.block % s.shape.minis = 0
        BY <1>2, ShapedSize
      <4> QED BY <2>4, <4>1
    <3> QED BY <1>1, <1>2, <2>4, <3>1, <3>2, FailInv
  <2>5. CASE n = 1 /\ s.shape.minis # 0 /\ s.shape.block % s.shape.minis = 0
    <3>1. s.ints # << >> /\ At(4) = s.ints[1]
      BY <1>2, <2>2, <2>5
    <3>2. EndStream(<<At(4)>>, cursor + 4)
      BY <1>5, <2>2, <2>5 DEF ReadHeader
    <3>3. <<At(4)>> = s.ints
      <4> DEFINE ints == s.ints
      <4>1. ints \in Seq(Holds(Signed(Wide)))
        BY <1>2 DEF StreamSet
      <4>2. Len(ints) = 1
        BY <2>5
      <4> HIDE DEF ints
      <4>3. ints = <<ints[1]>>
        BY <4>1, <4>2
      <4> QED BY <3>1, <4>3 DEF ints
    <3>4. Following(s, Wide) = << >>
      BY <2>5 DEF Following
    <3>5. F = R
      BY <1>2, <3>4 DEF F
    <3>6. Passed(s)
      BY <1>2, <2>5, <3>1 DEF Passed, Refused, IntKinds
    <3>7. Ahead(cursor + 4, Rest(payload, Len(lengths) + 1))
      BY <2>1, <3>5 DEF R
    <3> QED BY <1>1, <3>2, <3>3, <3>6, <3>7, EndInv DEF s
  <2>6. CASE n >= 2 /\ s.shape.minis # 0 /\ s.shape.block % s.shape.minis = 0
    <3>0. ~(n = 0) /\ ~(n = 1) /\ n > 0
      <4> HIDE DEF n
      <4> QED BY <1>2, <2>6
    <3>1. s.ints # << >> /\ At(4) = s.ints[1] /\ ~(n = 0) /\ ~(n = 1) /\ n > 0
      BY <1>2, <2>2, <3>0
    <3>2. /\ dpc' = "block" /\ cursor' = cursor + 4 /\ UNCHANGED <<payload, units, lengths, values>>
          /\ open' = [minis |-> At(2), size |-> At(1) \div At(2), remaining |-> At(3) - 1,
                      prev |-> At(4), min |-> 0, widths |-> << >>, out |-> <<At(4)>>]
      BY <1>5, <2>2, <2>6, <3>1 DEF ReadHeader
    <3>3. open' = [minis |-> s.shape.minis, size |-> Size(s.shape),
                   remaining |-> n - 1, prev |-> s.ints[1], min |-> 0,
                   widths |-> << >>, out |-> <<s.ints[1]>>]
      BY <2>2, <3>1, <3>2 DEF Size
    <3>4. Ahead(cursor + 4, Following(Current, Wide) \o Rest(payload, Len(lengths) + 1))
      BY <2>1 DEF F, R, s
    <3>5. /\ Len(Current.ints) >= 2 /\ Current.shape.minis # 0
          /\ Current.shape.block % Current.shape.minis = 0
      BY <2>6 DEF s
    <3>6. open' = [minis |-> Current.shape.minis, size |-> Size(Current.shape),
                   remaining |-> Len(Current.ints) - 1, prev |-> Current.ints[1], min |-> 0,
                   widths |-> << >>, out |-> <<Current.ints[1]>>]
      BY <3>3 DEF s
    <3>7. dpc' = "block" /\ cursor' = cursor + 4 /\ UNCHANGED <<payload, units, lengths, values>>
      BY <3>2
    <3> QED BY ONLY DInv, <1>1, <3>4, <3>5, <3>6, <3>7, BlockBegins
  <2> HIDE DEF n
  <2> QED BY <1>2, <2>3, <2>4, <2>5, <2>6
<1> QED BY <1>4, <1>5

(* A block that is begun is one of the stream, and in front.               *)
LEMMA BlockAhead ==
  ASSUME Streamed, Len(lengths) < Len(payload.streams), NEW k \in Nat, BlockPlace(k)
  PROVE  LET s == Current
             head == <<Unit("varint", Base(s, Wide, k + 1))>> \o Widths(s, Wide, k + 1)
             rest == Behind(Bodies(s, Wide, k + 1), 0)
                       \o (Behind(Blocks(s, Wide), k + 1) \o Rest(payload, Len(lengths) + 1))
         IN  /\ Regular(s, Wide) /\ k < BlockCount(s)
             /\ head \in Seq(Item) /\ Len(head) = 1 + s.shape.minis
             /\ rest \in Seq(Item) /\ Ahead(cursor, head \o rest)
             /\ head[1].v = Base(s, Wide, k + 1)
             /\ \A i \in 1..s.shape.minis : head[1 + i].v = Width(s, Wide, k + 1, i)
<1> DEFINE s == Current
           u == Unit("varint", Base(s, Wide, k + 1))
           ws == Widths(s, Wide, k + 1)
           bs == Behind(Bodies(s, Wide, k + 1), 0)
           B == Behind(Blocks(s, Wide), k + 1)
           R == Rest(payload, Len(lengths) + 1)
           n == s.shape.minis
<1>1. /\ Regular(s, Wide) /\ R \in Seq(Item)
      /\ Ahead(cursor, Behind(Blocks(s, Wide), k) \o R)
  BY CurrentIs DEF BlockPlace, OpenAt
<1>2. k < BlockCount(s) /\ BlockCount(s) \in Nat
  <2>1. k * s.shape.block + 1 \in 1..(Len(s.ints) - 1)
    BY DEF BlockPlace, OpenAt
  <2>2. /\ Len(s.ints) \in Nat /\ Len(s.ints) >= 2 /\ s.shape.block \in Nat \ {0}
        /\ BlockCount(s) \in Nat \ {0}
    BY <1>1, RegularSizes DEF Regular
  <2> DEFINE m == Len(s.ints)
             b == s.shape.block
             q == ((m - 2) \div b) + 1
  <2>3. BlockCount(s) = q
    BY DEF BlockCount
  <2> HIDE DEF m, b, s
  <2>4. k * b + 1 < m
    BY <2>1, <2>2 DEF m, b
  <2>5. k + 1 <= q
    BY <2>2, <2>4, BlockStarts DEF m, b
  <2> HIDE DEF q
  <2> QED BY <2>2, <2>3, <2>5
<1>3. /\ <<u>> \in Seq(Item) /\ ws \in Seq(Item) /\ Len(ws) = n /\ bs \in Seq(Item)
      /\ Block(s, Wide, k + 1) \in Seq(Item) /\ Block(s, Wide, k + 1) = (<<u>> \o ws) \o bs
  BY <1>1, <1>2, BlockTyped
<1>4. B \in Seq(Item) /\ Behind(Blocks(s, Wide), k) = Block(s, Wide, k + 1) \o B
  <2>1. /\ Blocks(s, Wide) \in Seq(Seq(Item)) /\ Len(Blocks(s, Wide)) = BlockCount(s)
        /\ \A j \in 1..BlockCount(s) : Blocks(s, Wide)[j] = Block(s, Wide, j)
    BY <1>1, BlocksTyped
  <2>2. k \in 0..(BlockCount(s) - 1) /\ k + 1 \in 0..BlockCount(s) /\ k + 1 \in 1..BlockCount(s)
    BY <1>2
  <2>3. /\ Behind(Blocks(s, Wide), k + 1) \in Seq(Item)
        /\ Behind(Blocks(s, Wide), k) = Blocks(s, Wide)[k + 1] \o Behind(Blocks(s, Wide), k + 1)
    BY <2>1, <2>2, BehindIs
  <2> QED BY <2>1, <2>2, <2>3
<1>5. u.v = Base(s, Wide, k + 1)
  <2>1. Base(s, Wide, k + 1) \in Int
    BY <1>1, <1>2, BaseInt
  <2> QED BY <2>1, UnitItem
<1>6. n \in Nat /\ \A i \in 1..n : ws[i].v = Width(s, Wide, k + 1, i)
  <2>1. n \in Nat
    BY <1>1, RegularSizes
  <2>2. \A i \in 1..n : ws[i] = Unit("width", Width(s, Wide, k + 1, i))
    BY DEF Widths
  <2>3. ASSUME NEW i \in 1..n PROVE Width(s, Wide, k + 1, i) \in Int
    <3>1. i \in Nat \ {0}
      BY <2>1
    <3> QED BY <1>1, <1>2, <3>1, WidthHolds
  <2> HIDE DEF n, ws
  <2> QED BY <2>1, <2>2, <2>3, UnitItem
<1> HIDE DEF u, ws, bs, B, R, n
<1> DEFINE head == <<u>> \o ws
<1>7. head \in Seq(Item) /\ Len(head) = 1 + n /\ head[1] = u /\ \A i \in 1..n : head[1 + i] = ws[i]
  <2>1. Len(<<u>>) = 1 /\ <<u>>[1] = u /\ 1 \in 1..1
    OBVIOUS
  <2> QED BY <1>3, <2>1, EndToEnd
<1> HIDE DEF head
<1> HIDE DEF s
<1>8. (Block(s, Wide, k + 1) \o B) \o R = head \o (bs \o (B \o R)) /\ bs \o (B \o R) \in Seq(Item)
  <2>1. Block(s, Wide, k + 1) = head \o bs
    BY <1>3 DEF head
  <2> DEFINE p == Block(s, Wide, k + 1)
  <2>0. head \in Seq(Item) /\ bs \in Seq(Item) /\ B \in Seq(Item) /\ R \in Seq(Item)
    BY <1>1, <1>3, <1>4, <1>7 DEF R
  <2>2. (head \o bs) \o B = head \o (bs \o B) /\ bs \o B \in Seq(Item)
    BY ONLY <2>0, ItemsInTurn
  <2> DEFINE bb == bs \o B
  <2>3. bb \in Seq(Item)
    BY <2>2
  <2> HIDE DEF bb
  <2>4. (head \o bb) \o R = head \o (bb \o R)
    BY ONLY <2>0, <2>3, ItemsInTurn
  <2>5. (bs \o B) \o R = bs \o (B \o R) /\ bs \o (B \o R) \in Seq(Item)
    BY ONLY <2>0, ItemsInTurn
  <2> HIDE DEF p
  <2> QED BY <2>1, <2>2, <2>4, <2>5 DEF bb, p
<1>9. Ahead(cursor, head \o (bs \o (B \o R)))
  BY <1>1, <1>4, <1>8 DEF R
<1> QED BY <1>1, <1>2, <1>5, <1>6, <1>7, <1>8, <1>9 DEF head, u, ws, bs, B, R, n, s

(* Where a step leaves the stream.                                         *)
LEMMA OpenStands ==
  ASSUME UNCHANGED <<payload, units, lengths>>, NEW t, Regular(Current, Wide), DOMAIN open' = OpenFields,
         t \in 1..(Len(Current.ints) - 1), open'.out \in Seq(Int), Len(open'.out) = t,
         \A i \in 1..t : open'.out[i] = Current.ints[i],
         open'.minis = Current.shape.minis, open'.size = Size(Current.shape),
         open'.remaining = Len(Current.ints) - t,
         open'.prev \in Int, Near(open'.prev, Current.ints[t], Span(Wide))
  PROVE  OpenAt(Current, t)' /\ Current' = Current /\ Wide' = Wide
<1>1. Current' = Current /\ Wide' = Wide
  BY DEF Current, Wide
<1>2. (Regular(Current, Wide))'
  BY <1>1 DEF Regular
<1> QED BY <1>1, <1>2 DEF OpenAt

LEMMA BlockStands ==
  ASSUME Streamed, Len(lengths) < Len(payload.streams), values = << >>,
         UNCHANGED <<payload, units, lengths, values>>, dpc' = "block",
         NEW k \in Nat, NEW t, t = k * Current.shape.block + 1, OpenAt(Current, t)',
         Current' = Current, Wide' = Wide,
         Ahead(cursor', Behind(Blocks(Current, Wide), k) \o Rest(payload, Len(lengths) + 1))
  PROVE  DInv'
<1>1. Streamed'
  BY DEF Streamed, Passed
<1>2. (k * Current.shape.block + 1)' = t
  OBVIOUS
<1>3. (OpenAt(Current, k * Current.shape.block + 1))'
  BY <1>2
<1>4. (Ahead(cursor, Behind(Blocks(Current, Wide), k) \o Rest(payload, Len(lengths) + 1)))'
  BY DEF Ahead
<1>5. BlockPlace(k)'
  BY <1>3, <1>4 DEF BlockPlace
<1> QED BY <1>1, <1>5 DEF DInv

LEMMA MiniStands ==
  ASSUME Streamed, Len(lengths) < Len(payload.streams), values = << >>,
         UNCHANGED <<payload, units, lengths, values>>, dpc' = "mini",
         NEW k \in Nat, NEW m \in Nat, NEW t,
         t = k * Current.shape.block + m * Size(Current.shape) + 1, OpenAt(Current, t)',
         Current' = Current, Wide' = Wide,
         k < BlockCount(Current), m \in 0..(Current.shape.minis - 1),
         open'.min = Base(Current, Wide, k + 1),
         open'.widths \in Seq(Nat), Len(open'.widths) = Current.shape.minis - m,
         \A i \in 1..(Current.shape.minis - m) :
           open'.widths[i] = Width(Current, Wide, k + 1, m + i),
         Ahead(cursor', Behind(Bodies(Current, Wide, k + 1), m)
                          \o (Behind(Blocks(Current, Wide), k + 1)
                                \o Rest(payload, Len(lengths) + 1)))
  PROVE  DInv'
<1>1. Streamed'
  BY DEF Streamed, Passed
<1>2. (k * Current.shape.block + m * Size(Current.shape) + 1)' = t
  OBVIOUS
<1>3. (OpenAt(Current, k * Current.shape.block + m * Size(Current.shape) + 1))'
  BY <1>2
<1>4. (Ahead(cursor, Behind(Bodies(Current, Wide, k + 1), m)
                       \o (Behind(Blocks(Current, Wide), k + 1)
                             \o Rest(payload, Len(lengths) + 1))))'
  BY DEF Ahead
<1>5. MiniAt(Current, k, m)'
  BY <1>3 DEF MiniAt
<1>6. MiniPlace(k, m)'
  BY <1>4, <1>5 DEF MiniPlace
<1> QED BY <1>1, <1>6 DEF DInv

LEMMA BlockInv == ASSUME DInv, ReadBlock PROVE DInv'
<1> DEFINE s == Current
<1>1. /\ Streamed /\ Len(lengths) < Len(payload.streams) /\ values = << >>
      /\ Hopeless \/ \E k \in Nat : BlockPlace(k)
  BY DEF DInv, ReadBlock
<1>2. /\ payload.cut \in Nat /\ MaxMinis \in Nat /\ (s.ints # << >> /\ ~Shaped(s.shape) => ~Valid)
      /\ s.shape \in [block : Nat, minis : Nat, spare : Nat] /\ Octet \in Nat \ {0}
  BY <1>1, CurrentIs
<1>3. CASE Hopeless
  <2>1. ~Valid
    BY <1>2, <1>3 DEF Hopeless
  <2>2. ~Left(1) \/ open.minis > MaxMinis \/ ~Left(1 + open.minis)
    <3>1. ASSUME Ahead(cursor, <<Unit("varint", 0)>>) PROVE ~Left(1 + open.minis)
      <4>1. Len(<<Unit("varint", 0)>>) = 1
        OBVIOUS
      <4>2. cursor \in Nat /\ Len(units) \in Nat /\ Len(units) <= cursor + 1
        BY <3>1, <4>1 DEF Ahead
      <4>3. open.minis \in Nat \ {0}
        BY <1>3 DEF Hopeless
      <4> QED BY <4>2, <4>3 DEF Left
    <3> QED BY <1>3, <3>1 DEF Hopeless
  <2>3. Fail
    BY <2>2 DEF ReadBlock
  <2> QED BY <1>1, <2>1, <2>3, FailInv
<1>4. ASSUME NEW k \in Nat, BlockPlace(k) PROVE DInv'
  <2> DEFINE head == <<Unit("varint", Base(s, Wide, k + 1))>> \o Widths(s, Wide, k + 1)
             rest == Behind(Bodies(s, Wide, k + 1), 0)
                       \o (Behind(Blocks(s, Wide), k + 1) \o Rest(payload, Len(lengths) + 1))
             n == s.shape.minis
  <2>1. /\ Regular(s, Wide) /\ k < BlockCount(s) /\ head \in Seq(Item) /\ Len(head) = 1 + n
        /\ rest \in Seq(Item) /\ Ahead(cursor, head \o rest)
        /\ head[1].v = Base(s, Wide, k + 1)
        /\ \A i \in 1..n : head[1 + i].v = Width(s, Wide, k + 1, i)
    BY <1>1, <1>4, BlockAhead
  <2>2. n \in Nat \ {0} /\ n <= MaxMinis /\ open.minis = n
    <3>1. Shaped(s.shape)
      BY <2>1 DEF Regular
    <3> QED BY <1>2, <1>4, <3>1, ShapedSize DEF BlockPlace, OpenAt
  <2>3. cursor \in Nat /\ Len(units) \in Nat
    BY <2>1 DEF Ahead
  <2> HIDE DEF head, rest, n, s
  <2>4. CASE ~Left(1 + n)
    <3>1. Fail
      BY <2>2, <2>4 DEF ReadBlock
    <3>2. payload.cut > 0
      <4>1. ~(cursor + Len(head) <= Len(units))
        BY <2>1, <2>4 DEF Left
      <4> QED BY <1>2, <2>1, <4>1, LostAhead
    <3> QED BY <1>1, <3>1, <3>2, FailInv
  <2>5. CASE Left(1 + n)
    <3>1. Left(1) /\ ~(n > MaxMinis)
      BY <1>2, <2>2, <2>3, <2>5 DEF Left
    <3>2. /\ dpc' = "mini" /\ cursor' = cursor + 1 + n
          /\ open' = [open EXCEPT !.min = At(1), !.widths = [i \in 1..n |-> At(1 + i)]]
          /\ UNCHANGED <<payload, units, lengths, values>>
      BY <2>2, <2>5, <3>1 DEF ReadBlock
    <3>3. Ahead(cursor + (1 + n), rest) /\ \A j \in 1..(1 + n) : units[cursor + j] = head[j]
      <4>1. cursor + Len(head) <= Len(units)
        BY <2>1, <2>5 DEF Left
      <4>2. Ahead(cursor + Len(head), rest) /\ \A j \in 1..Len(head) : units[cursor + j] = head[j]
        BY <2>1, <4>1, TakenAhead
      <4> QED BY <2>1, <4>2
    <3>4. At(1) = Base(s, Wide, k + 1) /\ \A i \in 1..n : At(1 + i) = Width(s, Wide, k + 1, i)
      <4>1. 1 \in 1..(1 + n) /\ \A i \in 1..n : 1 + i \in 1..(1 + n)
        BY <2>2
      <4>2. \A j \in 1..(1 + n) : At(j) = head[j].v
        BY <3>3 DEF At
      <4> QED BY <2>1, <4>1, <4>2
    <3>5. /\ open'.min = Base(s, Wide, k + 1)
          /\ open'.widths = [i \in 1..n |-> Width(s, Wide, k + 1, i)]
          /\ open'.minis = open.minis /\ open'.size = open.size /\ open'.remaining = open.remaining
          /\ open'.prev = open.prev /\ open'.out = open.out /\ DOMAIN open' = OpenFields
      <4> DEFINE ws == [i \in 1..n |-> At(1 + i)]
      <4>1. ws = [i \in 1..n |-> Width(s, Wide, k + 1, i)]
        BY <3>4
      <4>2. /\ DOMAIN open = OpenFields
            /\ \A f \in {"min", "widths", "minis", "size", "remaining", "prev", "out"} :
                 f \in OpenFields
        BY <1>4 DEF BlockPlace, OpenAt, OpenFields
      <4> HIDE DEF ws
      <4> QED BY <3>2, <3>4, <4>1, <4>2 DEF ws
    <3>6. k * Current.shape.block \in Nat /\ k * Current.shape.block + 0 * Size(Current.shape) + 1 \in Int
          /\ k * Current.shape.block + 0 * Size(Current.shape) + 1 = k * Current.shape.block + 1
      BY <2>1, RegularSizes DEF s
    <3>7. PICK t \in Int : t = k * Current.shape.block + 0 * Size(Current.shape) + 1
      BY <3>6
    <3>8. OpenAt(Current, t)
      BY <1>4, <3>6, <3>7 DEF BlockPlace
    <3>9. OpenAt(Current, t)' /\ Current' = Current /\ Wide' = Wide
      BY <3>2, <3>5, <3>8, OpenStands DEF OpenAt
    <3>10. /\ open'.widths \in Seq(Nat) /\ Len(open'.widths) = n - 0
           /\ \A i \in 1..(n - 0) : open'.widths[i] = Width(s, Wide, k + 1, 0 + i)
      <4> DEFINE w(i) == Width(s, Wide, k + 1, i)
      <4>1. \A i \in 1..n : w(i) \in Nat
        <5>1. \A i \in 1..n : i \in Nat \ {0}
          BY <2>2
        <5> QED BY <2>1, <5>1, WidthHolds
      <4>2. open'.widths = [i \in 1..n |-> w(i)]
        BY <3>5
      <4> HIDE DEF w
      <4>3. n - 0 = n /\ \A i \in 1..n : 0 + i = i
        BY <2>2
      <4>4. open'.widths \in Seq(Nat) /\ Len(open'.widths) = n /\ \A i \in 1..n : open'.widths[i] = w(i)
        BY <2>2, <4>1, <4>2
      <4> QED BY <4>3, <4>4 DEF w
    <3>11. Ahead(cursor', rest)
      <4>1. cursor' = cursor + (1 + n)
        BY <2>2, <2>3, <3>2
      <4> QED BY <3>3, <4>1
    <3>12. 0 \in Nat /\ 0 \in 0..(n - 1)
      BY <2>2
    <3>13. /\ k < BlockCount(Current) /\ 0 \in 0..(Current.shape.minis - 1)
           /\ open'.min = Base(Current, Wide, k + 1)
           /\ open'.widths \in Seq(Nat) /\ Len(open'.widths) = Current.shape.minis - 0
           /\ \A i \in 1..(Current.shape.minis - 0) :
                open'.widths[i] = Width(Current, Wide, k + 1, 0 + i)
           /\ Ahead(cursor', Behind(Bodies(Current, Wide, k + 1), 0)
                            \o (Behind(Blocks(Current, Wide), k + 1)
                                  \o Rest(payload, Len(lengths) + 1)))
      BY <2>1, <3>5, <3>10, <3>11, <3>12 DEF s, n, rest
    <3>14. UNCHANGED <<payload, units, lengths, values>> /\ dpc' = "mini"
      BY <3>2
    <3> QED BY ONLY <1>1, <3>7, <3>9, <3>12, <3>13, <3>14, MiniStands
  <2> QED BY <2>3, <2>4, <2>5
<1> QED BY <1>1, <1>3, <1>4

(* A mini-block that is begun has its body in front.                       *)
LEMMA MiniAhead ==
  ASSUME Streamed, Len(lengths) < Len(payload.streams), NEW k \in Nat, NEW m \in Nat, MiniPlace(k, m)
  PROVE  LET s == Current
             body == Body(Gaps(s, Wide, k + 1, m + 1), open.widths[1])
             rest == Behind(Bodies(s, Wide, k + 1), m + 1)
                       \o (Behind(Blocks(s, Wide), k + 1) \o Rest(payload, Len(lengths) + 1))
         IN  /\ body \in Seq(Item) /\ rest \in Seq(Item) /\ Ahead(cursor, body \o rest)
             /\ Len(body) = (open.size * open.widths[1]) \div Octet
<1> DEFINE s == Current
           body == Body(Gaps(s, Wide, k + 1, m + 1), open.widths[1])
           P == Bodies(s, Wide, k + 1)
           Q == Behind(Blocks(s, Wide), k + 1)
           R == Rest(payload, Len(lengths) + 1)
           QR == Q \o R
           c == Behind(P, m + 1)
           n == s.shape.minis
<1>1. /\ MiniAt(s, k, m) /\ Regular(s, Wide) /\ k < BlockCount(s) /\ m \in 0..(n - 1)
      /\ Ahead(cursor, Behind(P, m) \o QR)
  BY DEF MiniPlace, MiniAt, OpenAt
<1>2. R \in Seq(Item)
  BY CurrentIs
<1>3. n \in Nat \ {0} /\ BlockCount(s) \in Nat \ {0}
  BY <1>1, RegularSizes
<1>4. m + 1 \in 1..n /\ m + 1 \in 0..n /\ k + 1 \in 0..BlockCount(s)
  BY <1>1, <1>3
<1>5. Q \in Seq(Item)
  BY <1>1, <1>4, BlocksTyped, BehindIs
<1>6. /\ P \in Seq(Seq(Item)) /\ Len(P) = n
      /\ P[m + 1] = body
  <2>1. Used(s, k + 1, m + 1) /\ open.widths[1] = Width(s, Wide, k + 1, m + 1)
    BY <1>1, MiniUsed
  <2>2. P \in Seq(Seq(Item)) /\ Len(P) = n
    BY <1>1, BodiesTyped
  <2>3. P[m + 1] = Body(Gaps(s, Wide, k + 1, m + 1), Width(s, Wide, k + 1, m + 1))
    BY <1>1, <1>4, <2>1, BodiesTyped
  <2> QED BY <2>1, <2>2, <2>3
<1>7. /\ Len(body) = (open.size * open.widths[1]) \div Octet
      /\ body \in Seq(Item)
  BY <1>1, MiniUsed
<1> HIDE DEF P, Q, R, body, n
<1>8. c \in Seq(Item) /\ Behind(P, m) = body \o c
  BY <1>1, <1>4, <1>6, BehindIs
<1>9. QR \in Seq(Item)
  BY <1>2, <1>5, EndToEnd
<1> HIDE DEF c, QR
<1>10. (body \o c) \o QR = body \o (c \o QR) /\ c \o QR \in Seq(Item)
  BY ONLY <1>7, <1>8, <1>9, ItemsInTurn
<1>11. Ahead(cursor, body \o (c \o QR))
  BY <1>1, <1>8, <1>10
<1> QED BY <1>7, <1>10, <1>11 DEF body, c, QR, Q, R, P

LEMMA IntsTogether ==
  ASSUME NEW a \in Seq(Int), NEW b \in Seq(Int)
  PROVE  /\ a \o b \in Seq(Int) /\ Len(a \o b) = Len(a) + Len(b)
         /\ \A i \in 1..Len(a) : (a \o b)[i] = a[i]
         /\ \A i \in 1..Len(b) : (a \o b)[Len(a) + i] = b[i]
  BY EndToEnd

(* What a mini-block adds are the next values.                             *)
Adding(s, k, m, t, sums, q, got) ==
  /\ MiniAt(s, k, m) /\ t = k * s.shape.block + m * Size(s.shape) + 1
  /\ sums = Sums(Gaps(s, Wide, k + 1, m + 1)) /\ q = Taking(s, t)
  /\ got = open.out \o [j \in 1..q |-> As(sums[j], Signed(Wide))]

LEMMA MiniAdds ==
  ASSUME NEW s, NEW k, NEW m, NEW t, NEW sums, NEW q, NEW got, Adding(s, k, m, t, sums, q, got)
  PROVE  /\ q = (IF open.size < open.remaining THEN open.size ELSE open.remaining)
         /\ t \in Nat /\ q \in 1..Size(s.shape) /\ t + q <= Len(s.ints)
         /\ got \in Seq(Int) /\ Len(got) = t + q
         /\ \A i \in 1..(t + q) : got[i] = s.ints[i]
         /\ sums[q] \in Int /\ Near(sums[q], s.ints[t + q], Span(Wide))
<1> DEFINE n == Len(s.ints)
           z == Size(s.shape)
           add == [j \in 1..q |-> As(sums[j], Signed(Wide))]
<1>0. /\ MiniAt(s, k, m) /\ t = k * s.shape.block + m * Size(s.shape) + 1
      /\ sums = Sums(Gaps(s, Wide, k + 1, m + 1)) /\ q = Taking(s, t) /\ got = open.out \o add
  BY DEF Adding
<1>1. /\ Regular(s, Wide) /\ t \in 1..(n - 1) /\ open.out \in Seq(Int) /\ Len(open.out) = t
      /\ \A i \in 1..t : open.out[i] = s.ints[i]
      /\ open.size = z /\ open.remaining = n - t
  BY <1>0 DEF MiniAt, OpenAt
<1>2. z \in Nat \ {0} /\ n \in Nat /\ Wide \in Sizes /\ Wide \in {4, 8} /\ s \in StreamSet(Wide)
  BY <1>1, RegularSizes DEF Regular
<1>3. q = (IF z < n - t THEN z ELSE n - t)
  BY <1>0 DEF Taking
<1>4. q \in 1..z /\ \A j \in 0..q : sums[j] \in Int /\ Near(sums[j], s.ints[t + j], Span(Wide))
  BY <1>0, SumsNear
<1> HIDE DEF n, z
<1>5. q \in Nat \ {0} /\ t + q <= n /\ t \in Nat /\ q \in 0..q /\ 1..q \subseteq 0..q
  BY <1>1, <1>2, <1>3, <1>4
<1>6. \A j \in 1..q : As(sums[j], Signed(Wide)) = s.ints[t + j] /\ As(sums[j], Signed(Wide)) \in Int
  <2> SUFFICES ASSUME NEW j \in 1..q
               PROVE  As(sums[j], Signed(Wide)) = s.ints[t + j] /\ s.ints[t + j] \in Int
    OBVIOUS
  <2>1. t + j \in 1..n
    BY <1>1, <1>2, <1>5
  <2> DEFINE v == s.ints[t + j]
             u == sums[j]
  <2>2. v \in Holds(Signed(Wide)) /\ v \in Int
    BY <1>2, <2>1, StreamInts DEF n
  <2>3. u \in Int /\ Near(u, v, Span(Wide))
    BY <1>4, <1>5
  <2> HIDE DEF u, v
  <2>4. As(u, Signed(Wide)) = v
    BY <1>2, <2>2, <2>3, AsBack
  <2> QED BY <2>2, <2>4 DEF u, v
<1>7. add \in Seq(Int) /\ Len(add) = q /\ \A j \in 1..q : add[j] = s.ints[t + j]
  <2> DEFINE a(j) == As(sums[j], Signed(Wide))
  <2>1. \A j \in 1..q : a(j) = s.ints[t + j] /\ a(j) \in Int
    BY <1>6
  <2>2. add = [j \in 1..q |-> a(j)]
    OBVIOUS
  <2> HIDE DEF a, add
  <2> QED BY ONLY <1>5, <2>1, <2>2
<1> HIDE DEF add
<1>8. /\ got \in Seq(Int) /\ Len(got) = t + q
      /\ \A i \in 1..t : got[i] = open.out[i]
      /\ \A j \in 1..q : got[t + j] = add[j]
  <2> DEFINE old == open.out
  <2>1. old \in Seq(Int) /\ Len(old) = t /\ got = old \o add
    BY <1>0, <1>1
  <2> HIDE DEF old
  <2>2. add \in Seq(Int)
    BY <1>7
  <2>3. /\ old \o add \in Seq(Int) /\ Len(old \o add) = Len(old) + Len(add)
        /\ \A i \in 1..Len(old) : (old \o add)[i] = old[i]
        /\ \A i \in 1..Len(add) : (old \o add)[Len(old) + i] = add[i]
    BY ONLY <2>1, <2>2, IntsTogether, Zenon
  <2> QED BY <1>7, <2>1, <2>3 DEF old
<1>9. \A i \in 1..(t + q) : got[i] = s.ints[i]
  <2> SUFFICES ASSUME NEW i \in 1..(t + q) PROVE got[i] = s.ints[i]
    OBVIOUS
  <2>1. CASE i \in 1..t
    BY <1>1, <1>8, <2>1
  <2>2. CASE i \notin 1..t
    <3> DEFINE j == i - t
    <3>1. j \in 1..q /\ t + j = i
      BY <1>5, <2>2
    <3> HIDE DEF j
    <3>2. got[t + j] = s.ints[t + j]
      BY <1>7, <1>8, <3>1
    <3> QED BY <3>1, <3>2
  <2> QED BY <2>1, <2>2
<1> QED BY <1>1, <1>3, <1>4, <1>5, <1>8, <1>9 DEF n, z

LEMMA Times ==
  ASSUME NEW a \in Nat, NEW z \in Nat PROVE a * z \in Nat /\ (a + 1) * z = a * z + z
  OBVIOUS

LEMMA TimesSum ==
  ASSUME NEW a \in Nat, NEW c \in Nat, NEW z \in Nat
  PROVE  c * z \in Nat /\ (a + c) * z = a * z + c * z
  OBVIOUS

(* Where the mini-block behind one begins, in its block or the next; and   *)
(* that no mini-block or block is behind the last value.                   *)
LEMMA MiniEnds ==
  ASSUME NEW s, NEW k, NEW m, MiniAt(s, k, m), NEW t, t = k * s.shape.block + m * Size(s.shape) + 1
  PROVE  /\ m + 1 < s.shape.minis => t + Size(s.shape) = k * s.shape.block + (m + 1) * Size(s.shape) + 1
         /\ m + 1 = s.shape.minis => t + Size(s.shape) = (k + 1) * s.shape.block + 1
         /\ t + Size(s.shape) >= Len(s.ints) =>
              /\ \A i \in (m + 2)..s.shape.minis : ~Used(s, k + 1, i)
              /\ k + 1 = BlockCount(s)
<1> DEFINE n == Len(s.ints)
           z == Size(s.shape)
           b == s.shape.block
           w == s.shape.minis
           kb == k * b
           mz == m * z
           wz == w * z
<1>1. Regular(s, Wide) /\ k \in Nat /\ k < BlockCount(s) /\ m \in 0..(w - 1) /\ t \in 1..(n - 1)
  BY DEF MiniAt, OpenAt
<1>2. n \in Nat /\ z \in Nat \ {0} /\ b \in Nat \ {0} /\ w \in Nat \ {0} /\ b = wz /\ BlockCount(s) \in Nat \ {0}
      /\ n >= 2
  BY <1>1, RegularSizes DEF Regular
<1>3. m \in Nat /\ kb \in Nat /\ mz \in Nat /\ t = kb + mz + 1
  <2>1. m \in Nat
    BY <1>1, <1>2
  <2>2. kb \in Nat /\ mz \in Nat
    <3> HIDE DEF b, z
    <3> QED BY <1>1, <1>2, <2>1, Times
  <2> QED BY <2>1, <2>2
<1>4. (m + 1) * z = mz + z /\ (k + 1) * b = kb + b
  <2> HIDE DEF b, z
  <2> QED BY <1>1, <1>2, <1>3, Times
<1>5. m + 1 = w => wz = mz + z
  BY <1>4
<1>6. ASSUME NEW i \in Nat, i >= m + 1 PROVE i * z >= mz + z /\ i * z \in Nat
  <2>1. PICK d \in Nat : i = (m + 1) + d
    <3>1. i - (m + 1) \in Nat /\ i = (m + 1) + (i - (m + 1))
      BY <1>3, <1>6
    <3> QED BY <3>1
  <2>2. i * z = (m + 1) * z + d * z /\ d * z \in Nat
    <3> DEFINE m1 == m + 1
    <3>1. m1 \in Nat /\ z \in Nat
      BY <1>2, <1>3
    <3> HIDE DEF m1, z
    <3> QED BY <2>1, <3>1, TimesSum DEF m1
  <2> HIDE DEF mz, z
  <2> DEFINE dz == d * z
             iz == i * z
             m1z == (m + 1) * z
  <2>3. iz = m1z + dz /\ dz \in Nat /\ m1z = mz + z
    BY <1>4, <2>2
  <2> HIDE DEF dz, iz, m1z
  <2>4. iz >= mz + z /\ iz \in Nat
    BY <1>2, <1>3, <2>3
  <2> QED BY <2>4 DEF iz
<1>7. wz >= mz + z /\ wz \in Nat
  <2>1. w \in Nat /\ w >= m + 1
    BY <1>1, <1>2
  <2> QED BY <1>6, <2>1
<1>8. ASSUME t + z >= n PROVE k + 1 = BlockCount(s)
  <2> DEFINE B == ((n - 2) \div b) + 1
             k1 == k + 1
             k1b == k1 * b
  <2>1. BlockCount(s) = B
    BY DEF BlockCount
  <2>2. k1b = kb + b
    BY <1>4
  <2>3. k1 \in Nat /\ B \in Nat
    BY <1>1, <1>2, <2>1
  <2> HIDE DEF kb, mz, wz, z, n, b, w
  <2>4. k1 + 1 <= B <=> k1b + 1 < n
    BY <1>2, <2>3, BlockStarts
  <2> HIDE DEF B, k1b
  <2>5. ~(k1b + 1 < n)
    BY <1>2, <1>3, <1>7, <1>8, <2>2
  <2>6. k1 <= B
    BY <1>1, <1>2, <2>1
  <2> QED BY <2>1, <2>3, <2>4, <2>5, <2>6
<1>9. ASSUME t + z >= n, NEW i \in (m + 2)..w PROVE ~Used(s, k + 1, i)
  <2> DEFINE i1 == i - 1
             i1z == i1 * z
             k1 == k + 1
  <2>1. i1 \in Nat /\ i1 >= m + 1 /\ i \in Nat \ {0} /\ k1 \in Nat \ {0} /\ k1 - 1 = k /\ 1 \in Nat
    <3>1. i \in (m + 2)..w /\ m \in Nat /\ w \in Nat /\ k \in Nat
      BY <1>1, <1>2, <1>3
    <3> HIDE DEF w
    <3> QED BY ONLY <3>1
  <2>2. Slot(s.shape, k1, i, 1) = ((k1 - 1) * b) + (i1 * z) + 1
    BY <1>1, <2>1, SlotInt
  <2>3. Slot(s.shape, k1, i, 1) = kb + i1z + 1
    BY <2>1, <2>2
  <2> HIDE DEF i1, k1
  <2>4. i1z >= mz + z /\ i1z \in Nat
    BY <1>6, <2>1
  <2> HIDE DEF kb, mz, wz, z, n, b, w, i1z
  <2>5. ~(kb + i1z + 1 < n)
    BY <1>2, <1>3, <1>9, <2>4
  <2> QED BY <2>3, <2>5 DEF Used, n, k1
<1> HIDE DEF kb, mz, wz
<1>10. /\ t + z = kb + (mz + z) + 1
       /\ m + 1 = w => t + z = kb + b + 1
  <2> HIDE DEF z, b, w, n
  <2> QED BY <1>2, <1>3, <1>5
<1> QED BY <1>4, <1>8, <1>9, <1>10 DEF kb

(* Behind the last value is what is behind the stream.                     *)
LEMMA MiniLast ==
  ASSUME Streamed, Len(lengths) < Len(payload.streams), NEW k \in Nat, NEW m \in Nat, MiniPlace(k, m),
         NEW t, t = k * Current.shape.block + m * Size(Current.shape) + 1
  PROVE  LET s == Current
             R == Rest(payload, Len(lengths) + 1)
             X == Behind(Blocks(s, Wide), k + 1) \o R
             rest == Behind(Bodies(s, Wide, k + 1), m + 1) \o X
         IN  /\ t + Size(s.shape) >= Len(s.ints) => rest = R
             /\ m + 1 = s.shape.minis => rest = X
<1> DEFINE s == Current
           R == Rest(payload, Len(lengths) + 1)
           P == Bodies(s, Wide, k + 1)
           B == Blocks(s, Wide)
           n == s.shape.minis
           X == Behind(B, k + 1) \o R
<1>1. MiniAt(s, k, m) /\ Regular(s, Wide) /\ k < BlockCount(s) /\ m \in 0..(n - 1)
  BY DEF MiniPlace, MiniAt, OpenAt
<1>2. R \in Seq(Item)
  BY CurrentIs
<1>3. n \in Nat \ {0} /\ BlockCount(s) \in Nat \ {0}
  BY <1>1, RegularSizes
<1>4. m + 1 \in 1..n /\ m + 1 \in 0..n /\ k + 1 \in 0..BlockCount(s)
  BY <1>1, <1>3
<1>5. B \in Seq(Seq(Item)) /\ Len(B) = BlockCount(s)
  BY <1>1, BlocksTyped
<1>6. /\ P \in Seq(Seq(Item)) /\ Len(P) = n
      /\ \A i \in 1..n : P[i] = IF Used(s, k + 1, i)
                                THEN Body(Gaps(s, Wide, k + 1, i), Width(s, Wide, k + 1, i))
                                ELSE << >>
  BY <1>1, BodiesTyped
<1>7. X \in Seq(Item) /\ << >> \o X = X /\ << >> \o R = R
  <2>1. Behind(B, k + 1) \in Seq(Item)
    BY <1>4, <1>5, BehindIs
  <2> HIDE DEF B, R
  <2>2. X \in Seq(Item)
    BY <1>2, <2>1, EndToEnd
  <2> HIDE DEF X
  <2> QED BY <1>2, <2>2
<1>8. ASSUME m + 1 = n PROVE Behind(P, m + 1) = << >>
  BY <1>6, <1>8, BehindIs
<1>9. ASSUME t + Size(s.shape) >= Len(s.ints) PROVE Behind(P, m + 1) = << >> /\ X = R
  <2>1. /\ \A i \in (m + 2)..n : ~Used(s, k + 1, i)
        /\ k + 1 = BlockCount(s)
    BY <1>1, <1>9, MiniEnds
  <2>2. Behind(B, k + 1) = << >>
    BY <1>5, <2>1, BehindIs
  <2> DEFINE m1 == m + 1
  <2>3. \A i \in (m1 + 1)..n : P[i] = << >>
    <3>1. \A i \in (m1 + 1)..n : i \in 1..n /\ i \in (m + 2)..n
      BY <1>3
    <3> HIDE DEF m1, P, n
    <3> QED BY <1>6, <2>1, <3>1
  <2>4. m1 \in 0..n
    BY <1>4
  <2> HIDE DEF m1, P, n
  <2>5. Behind(P, m1) = << >>
    BY <1>6, <2>3, <2>4, BehindEmpty
  <2> QED BY <1>7, <2>2, <2>5 DEF m1
<1> HIDE DEF P, B, s, n, R
<1> QED BY <1>7, <1>8, <1>9 DEF P, B, s, n, R

LEMMA PartOf ==
  ASSUME NEW S, NEW a \in Seq(S), NEW c \in Nat, NEW n \in Nat, c + n <= Len(a)
  PROVE  LET sub == SubSeq(a, c + 1, c + n)
         IN  sub \in Seq(S) /\ Len(sub) = n /\ \A j \in 1..n : sub[j] = a[c + j]
<1> DEFINE sub == SubSeq(a, c + 1, c + n)
<1>1. Len(a) \in Nat /\ \A j \in 1..n : c + j \in 1..Len(a) /\ (c + 1) + j - 1 = c + j
  OBVIOUS
<1>2. (c + n) - (c + 1) + 1 = n
  OBVIOUS
<1>3. /\ Len(sub) = n
      /\ \A j \in 1..n : sub[j] = a[(c + 1) + j - 1]
  BY <1>1, <1>2
<1>4. sub \in Seq(S)
  <2>1. sub = [j \in 1..n |-> a[c + j]]
    BY <1>1, <1>2
  <2>2. \A j \in 1..n : a[c + j] \in S
    BY <1>1
  <2> HIDE DEF sub
  <2> QED BY <2>1, <2>2
<1> QED BY <1>1, <1>3, <1>4

LEMMA MiniInv == ASSUME DInv, ReadMini PROVE DInv'
<1> DEFINE s == Current
           n == Len(s.ints)
           z == Size(s.shape)
           w == s.shape.minis
           R == Rest(payload, Len(lengths) + 1)
<1>1. /\ Streamed /\ Len(lengths) < Len(payload.streams) /\ values = << >>
      /\ \E k, m \in Nat : MiniPlace(k, m)
  BY DEF DInv, ReadMini
<1>2. PICK k \in Nat, m \in Nat : MiniPlace(k, m)
  BY <1>1
<1>3. MiniAt(s, k, m) /\ Regular(s, Wide) /\ k < BlockCount(s) /\ m \in 0..(w - 1) /\ DOMAIN open = OpenFields
  BY <1>2 DEF MiniPlace, MiniAt, OpenAt
<1>4. /\ n \in Nat /\ z \in Nat \ {0} /\ w \in Nat \ {0} /\ s.shape.block \in Nat \ {0}
      /\ BlockCount(s) \in Nat \ {0}
  BY <1>3, RegularSizes
<1>5. PICK t : t = k * s.shape.block + m * z + 1
  OBVIOUS
<1>6. t \in 1..(n - 1) /\ open.remaining = n - t /\ open.size = z /\ open.minis = w
  BY <1>3, <1>5 DEF MiniAt, OpenAt
<1> DEFINE g == Gaps(s, Wide, k + 1, m + 1)
           width == open.widths[1]
           body == Body(g, width)
           rest == Behind(Bodies(s, Wide, k + 1), m + 1) \o (Behind(Blocks(s, Wide), k + 1) \o R)
           size == (open.size * width) \div Octet
           sub == SubSeq(units, cursor + 1, cursor + size)
<1>7. /\ body \in Seq(Item) /\ rest \in Seq(Item) /\ Ahead(cursor, body \o rest)
      /\ Len(body) = size
  BY <1>1, <1>2, MiniAhead
<1>8. ~(width > Bits[Wide])
  <2>1. width \in Nat /\ width <= Bits[Wide] /\ Bits[Wide] \in Nat
    BY <1>3, MiniUsed, RegularSizes, Spans
  <2> HIDE DEF width
  <2> QED BY <2>1
<1>9. payload.cut \in Nat
  BY <1>1, CurrentIs
<1>10. cursor \in Nat /\ Len(units) \in Nat /\ size \in Nat /\ units \in Seq(Item)
  <2> HIDE DEF body, size, rest
  <2> QED BY <1>7 DEF Ahead
<1>11. CASE ~Left(size)
  <2>1. Fail
    BY <1>11 DEF ReadMini
  <2> HIDE DEF body, rest, size
  <2>2. payload.cut > 0
    BY <1>7, <1>9, <1>11, LostAhead DEF Left
  <2> QED BY <1>1, <2>1, <2>2, FailInv
<1>12. ASSUME Left(size) PROVE sub = body /\ Ahead(cursor + size, rest) /\ cursor + size \in Int
  <2> HIDE DEF body, rest, size
  <2>1. cursor + Len(body) <= Len(units)
    BY <1>7, <1>12 DEF Left
  <2>2. Ahead(cursor + size, rest) /\ \A j \in 1..size : units[cursor + j] = body[j]
    BY <1>7, <2>1, TakenAhead
  <2>3. sub \in Seq(Item) /\ Len(sub) = size /\ \A j \in 1..size : sub[j] = units[cursor + j]
    <3>1. cursor + size <= Len(units) /\ cursor + 1 \in Nat /\ cursor + size \in Nat
          /\ (cursor + size) - (cursor + 1) + 1 = size
      BY <1>7, <1>10, <2>1
    <3> HIDE DEF size
    <3> QED BY <1>10, <3>1, PartOf
  <2> HIDE DEF sub
  <2>4. sub = body
    BY <1>7, <2>2, <2>3, Identical
  <2> QED BY <1>10, <2>2, <2>4
<1>13. PICK sums : sums = Sums(g)
  OBVIOUS
<1>14. PICK q : q = Taking(s, t)
  OBVIOUS
<1>17. PICK got : got = open.out \o [j \in 1..q |-> As(sums[j], Signed(Wide))]
  OBVIOUS
<1>15. /\ q = (IF open.size < open.remaining THEN open.size ELSE open.remaining)
       /\ t \in Nat /\ q \in 1..z /\ t + q <= n
       /\ got \in Seq(Int) /\ Len(got) = t + q /\ \A i \in 1..(t + q) : got[i] = s.ints[i]
       /\ sums[q] \in Int /\ Near(sums[q], s.ints[t + q], Span(Wide))
  <2>1. Adding(s, k, m, t, sums, q, got)
    BY <1>3, <1>5, <1>13, <1>14, <1>17 DEF Adding
  <2> HIDE DEF s
  <2>2. /\ q = (IF open.size < open.remaining THEN open.size ELSE open.remaining)
        /\ t \in Nat /\ q \in 1..Size(s.shape) /\ t + q <= Len(s.ints)
        /\ got \in Seq(Int) /\ Len(got) = t + q
        /\ \A i \in 1..(t + q) : got[i] = s.ints[i]
        /\ sums[q] \in Int /\ Near(sums[q], s.ints[t + q], Span(Wide))
    BY ONLY <2>1, MiniAdds
  <2> QED BY <2>2 DEF n, z
<1>16. CASE Left(size)
  <2>1. Unpacked(width, sub) = g
    BY <1>3, <1>12, <1>16, UnpacksGaps
  <2>2. \/ StreamOver(open.remaining - q, Tail(open.widths)) /\ EndStream(got, cursor + size)
        \/ /\ ~StreamOver(open.remaining - q, Tail(open.widths))
           /\ cursor' = cursor + size
           /\ dpc' = IF Tail(open.widths) = << >> THEN "block" ELSE "mini"
           /\ open' = [open EXCEPT !.remaining = open.remaining - q, !.prev = sums[q], !.out = got,
                                   !.widths = Tail(@)]
           /\ UNCHANGED <<payload, units, lengths, values>>
    BY <1>8, <1>13, <1>15, <1>16, <1>17, <2>1 DEF ReadMini
  <2> HIDE DEF g, size, sub, width, body, rest, n, z, w, s, R
  <2>3. CASE open.remaining - q = 0
    <3>1. EndStream(got, cursor + size)
      BY <2>2, <2>3 DEF StreamOver
    <3>2. t + q = n /\ t + z >= n
      BY <1>4, <1>6, <1>15, <2>3
    <3>3. got = s.ints
      <4> DEFINE ints == s.ints
      <4>1. s \in StreamSet(Wide) /\ Wide \in {4, 8}
        BY <1>3 DEF Regular
      <4>2. ints \in Seq(Holds(Signed(Wide))) /\ \A i \in 1..Len(ints) : ints[i] \in Int
        BY <4>1, StreamInts DEF StreamSet
      <4>3. Len(ints) = n
        BY DEF n
      <4> HIDE DEF ints
      <4>4. ints \in Seq(Int)
        BY <4>2
      <4>5. \A i \in 1..Len(got) : got[i] = ints[i]
        BY <1>15, <3>2, <4>3 DEF ints
      <4> QED BY <1>15, <3>2, <4>3, <4>4, <4>5, Identical DEF ints
    <3>4. rest = R
      BY <1>1, <1>2, <1>5, <3>2, MiniLast DEF rest, R, s, n, z
    <3>5. Passed(Current)
      BY <1>3 DEF Passed, Regular, s
    <3>6. Ahead(cursor + size, Rest(payload, Len(lengths) + 1))
      BY <1>12, <1>16, <3>4 DEF R
    <3> QED BY <1>1, <3>1, <3>3, <3>5, <3>6, EndInv DEF s
  <2>4. CASE open.remaining - q # 0
    <3>1. /\ cursor' = cursor + size
          /\ dpc' = IF Tail(open.widths) = << >> THEN "block" ELSE "mini"
          /\ open' = [open EXCEPT !.remaining = open.remaining - q, !.prev = sums[q], !.out = got,
                                  !.widths = Tail(@)]
          /\ UNCHANGED <<payload, units, lengths, values>>
      BY <2>2, <2>4 DEF StreamOver
    <3>2. q = z /\ t + q = t + z /\ t + z \in 1..(n - 1) /\ open.remaining - q = n - (t + z)
      BY <1>4, <1>6, <1>15, <2>4
    <3>3. /\ open'.remaining = n - (t + z) /\ open'.prev = sums[q] /\ open'.out = got
          /\ open'.widths = Tail(open.widths) /\ open'.minis = open.minis /\ open'.size = open.size
          /\ open'.min = open.min /\ DOMAIN open' = OpenFields
      <4> DEFINE r == open.remaining - q
                 v == sums[q]
                 tail == Tail(open.widths)
      <4>1. DOMAIN open = OpenFields
            /\ \A f \in {"min", "widths", "minis", "size", "remaining", "prev", "out"} :
                 f \in OpenFields
        BY <1>3 DEF OpenFields
      <4>2. open' = [open EXCEPT !.remaining = r, !.prev = v, !.out = got, !.widths = tail]
        BY <3>1
      <4>3. r = n - (t + z)
        BY <3>2
      <4> HIDE DEF r, v, tail
      <4> QED BY <4>1, <4>2, <4>3 DEF v, tail
    <3> PICK t1 : t1 = t + z
      OBVIOUS
    <3>4. /\ open.widths \in Seq(Nat) /\ Len(open.widths) = w - m
          /\ \A i \in 1..(w - m) : open.widths[i] = Width(s, Wide, k + 1, m + i)
      BY <1>3 DEF MiniAt, w
    <3> DEFINE ws == open.widths
               m1 == m + 1
    <3>5. /\ Tail(ws) \in Seq(Nat) /\ Len(Tail(ws)) = w - m1
          /\ \A i \in 1..(w - m1) : Tail(ws)[i] = Width(s, Wide, k + 1, m1 + i)
          /\ Tail(ws) = << >> <=> m1 = w
      <4>1. ws # << >> /\ Len(ws) >= 1
        BY <1>3, <1>4, <3>4
      <4>2. Tail(ws) \in Seq(Nat) /\ Len(Tail(ws)) = Len(ws) - 1
            /\ \A i \in 1..(Len(ws) - 1) : Tail(ws)[i] = ws[i + 1]
        <5> HIDE DEF ws
        <5> QED BY <3>4, <4>1 DEF ws
      <4>3. Len(ws) - 1 = w - m1
        BY <1>4, <3>4
      <4>4. \A i \in 1..(w - m1) : i + 1 \in 1..(w - m) /\ m + (i + 1) = m1 + i
        BY <1>4
      <4> HIDE DEF ws, m1
      <4>5. Tail(ws) = << >> <=> Len(Tail(ws)) = 0
        <5> DEFINE tl == Tail(ws)
        <5>1. tl \in Seq(Nat)
          BY <4>2
        <5> HIDE DEF tl
        <5>2. tl = << >> <=> Len(tl) = 0
          BY <5>1
        <5> QED BY <5>2 DEF tl
      <4>6. w - m1 = 0 <=> w = m1
        BY <1>4 DEF m1
      <4> QED BY <3>4, <4>2, <4>3, <4>4, <4>5, <4>6 DEF ws
    <3>6. OpenAt(Current, t1)' /\ Current' = Current /\ Wide' = Wide
      <4>1. /\ UNCHANGED <<payload, units, lengths>> /\ Regular(Current, Wide) /\ DOMAIN open' = OpenFields
            /\ t1 \in 1..(Len(Current.ints) - 1) /\ open'.out \in Seq(Int) /\ Len(open'.out) = t1
            /\ \A i \in 1..t1 : open'.out[i] = Current.ints[i]
            /\ open'.minis = Current.shape.minis /\ open'.size = Size(Current.shape)
            /\ open'.remaining = Len(Current.ints) - t1
            /\ open'.prev \in Int /\ Near(open'.prev, Current.ints[t1], Span(Wide))
        BY <1>3, <1>6, <1>15, <3>1, <3>2, <3>3 DEF s, n, z, w
      <4> QED BY <4>1, OpenStands
    <3>7. t1 = (IF m1 = w THEN (k + 1) * Current.shape.block + 1
                ELSE k * Current.shape.block + m1 * Size(Current.shape) + 1)
      <4>1. /\ m1 < w => t + z = k * s.shape.block + m1 * z + 1
            /\ m1 = w => t + z = (k + 1) * s.shape.block + 1
        BY <1>3, <1>5, MiniEnds DEF w, z
      <4>2. m1 < w \/ m1 = w
        BY <1>3, <1>4
      <4> HIDE DEF m1
      <4>3. m1 = w => ~(m1 < w)
        BY <1>4
      <4> QED BY <4>1, <4>2, <4>3 DEF s, z
    <3>8. CASE m1 = w
      <4> DEFINE k1 == k + 1
      <4>1. dpc' = "block" /\ k1 \in Nat
        BY <3>1, <3>5, <3>8
      <4>2. rest = Behind(Blocks(Current, Wide), k1) \o R
        BY <1>1, <1>2, <1>5, <3>8, MiniLast DEF rest, R, s, w, z
      <4>3. Ahead(cursor', Behind(Blocks(Current, Wide), k1) \o Rest(payload, Len(lengths) + 1))
        BY <1>12, <1>16, <3>1, <4>2 DEF R
      <4>4. t1 = k1 * Current.shape.block + 1
        BY <3>7, <3>8
      <4>5. UNCHANGED <<payload, units, lengths, values>>
        BY <3>1
      <4> HIDE DEF k1
      <4> QED BY ONLY <1>1, <3>6, <4>1, <4>3, <4>4, <4>5, BlockStands
    <3>9. CASE m1 # w
      <4>1. dpc' = "mini" /\ m1 \in Nat /\ m1 \in 0..(w - 1)
        <5>1. dpc' = "mini"
          <6> HIDE DEF m1
          <6> QED BY <3>1, <3>5, <3>9
        <5>2. m1 \in Nat /\ m1 \in 0..(w - 1)
          BY <1>3, <1>4, <3>9
        <5> QED BY <5>1, <5>2
      <4>2. Ahead(cursor', Behind(Bodies(Current, Wide, k + 1), m1)
                            \o (Behind(Blocks(Current, Wide), k + 1)
                                  \o Rest(payload, Len(lengths) + 1)))
        BY <1>12, <1>16, <3>1 DEF R, rest, s
      <4>3. t1 = k * Current.shape.block + m1 * Size(Current.shape) + 1
        BY <3>7, <3>9
      <4>4. UNCHANGED <<payload, units, lengths, values>>
        BY <3>1
      <4>5. open'.min = Base(Current, Wide, k + 1)
        BY <1>3, <3>3 DEF MiniAt, s
      <4> HIDE DEF m1
      <4>6. /\ open'.widths \in Seq(Nat) /\ Len(open'.widths) = Current.shape.minis - m1
            /\ \A i \in 1..(Current.shape.minis - m1) :
                 open'.widths[i] = Width(Current, Wide, k + 1, m1 + i)
            /\ m1 \in 0..(Current.shape.minis - 1) /\ k < BlockCount(Current)
        BY <1>3, <3>3, <3>5, <4>1 DEF s, w
      <4>7. k \in Nat /\ m1 \in Nat
        BY <4>1
      <4> QED BY ONLY <1>1, <3>6, <4>1, <4>2, <4>3, <4>4, <4>5, <4>6, <4>7, MiniStands
    <3> QED BY <3>8, <3>9
  <2> QED BY <2>3, <2>4
<1> QED BY <1>11, <1>16

-----------------------------------------------------------------------------
(* The data.                                                               *)

LEMMA DataFacts ==
  ASSUME Streamed, DataPlace
  PROVE  /\ payload \in Payloads /\ payload.kind \in {"length", "byte_array"}
         /\ SuffixLengths \in Seq(Int) /\ PrefixLengths \in Seq(Int)
         /\ Len(SuffixLengths) \in Nat /\ Len(PrefixLengths) \in Nat
         /\ DOMAIN SuffixLengths = 1..Len(SuffixLengths)
         /\ lengths[Len(lengths)] = SuffixLengths /\ Count = Len(PrefixLengths)
         /\ \A k : Suffix(k) = SuffixLengths[k] /\ Prefix(k) = Shared(k)
         /\ \A k \in 1..Len(SuffixLengths) : SuffixLengths[k] \in Int
         /\ \A k \in 1..Len(PrefixLengths) : Shared(k) \in Int
         /\ payload.data \in Seq(Int) /\ Len(payload.data) \in Nat /\ payload.cut \in Nat
<1> DEFINE N == Len(payload.streams)
<1>1. /\ payload \in Payloads /\ Len(lengths) = N
      /\ \A i \in 1..N : lengths[i] = payload.streams[i].ints
      /\ payload.kind \notin IntKinds
  BY DEF Streamed, DataPlace
<1>2. /\ N \in {1, 2} /\ payload.kind \in IntKinds \cup {"length", "byte_array"}
      /\ payload.data \in Seq(Int) /\ payload.cut \in Nat
  BY <1>1, PayloadTyped
<1>3. /\ SuffixLengths \in Seq(Int) /\ PrefixLengths \in Seq(Int)
      /\ Len(SuffixLengths) \in Nat /\ Len(PrefixLengths) \in Nat
  BY <1>1, SuffixTyped
<1>4. N \in 1..N /\ 1 \in 1..N
  <2> HIDE DEF N
  <2> QED BY <1>2
<1>5. lengths[N] = SuffixLengths /\ lengths[1] = PrefixLengths
  BY <1>1, <1>4 DEF SuffixLengths, PrefixLengths
<1>6. \A k : Suffix(k) = SuffixLengths[k] /\ Prefix(k) = Shared(k)
  BY <1>1, <1>5 DEF Suffix, Prefix, Shared
<1>7. /\ \A k \in 1..Len(SuffixLengths) : SuffixLengths[k] \in Int
      /\ \A k \in 1..Len(PrefixLengths) : PrefixLengths[k] \in Int
      /\ DOMAIN SuffixLengths = 1..Len(SuffixLengths)
  BY <1>3
<1>8. \A k \in 1..Len(PrefixLengths) : Shared(k) \in Int
  BY <1>7 DEF Shared
<1>9. Count = Len(PrefixLengths) /\ Len(payload.data) \in Nat
  BY <1>2, <1>5 DEF Count
<1> QED BY <1>1, <1>2, <1>3, <1>5, <1>6, <1>7, <1>8, <1>9

(* The value before the next one.                                          *)
LEMMA PrevIs ==
  ASSUME Streamed, DataPlace
  PROVE  LET k == Len(values) + 1
         IN  /\ k \in Nat \ {0} /\ k - 1 = Len(values)
             /\ Prev \in Seq(Int) /\ Len(Prev) \in Nat
             /\ Prev = IF k = 1 THEN << >> ELSE values[k - 1]
             /\ Len(Prev) = IF k = 1 THEN 0 ELSE Shared(k - 1) + SuffixLengths[k - 1]
<1> DEFINE n == Len(values)
<1>1. /\ n \in 0..Len(SuffixLengths) /\ \A j \in 1..n : SpelledSoFar(j)
      /\ values \in Seq(Seq(Int))
  BY DEF DataPlace
<1>2. Len(SuffixLengths) \in Nat
  BY DataFacts
<1> HIDE DEF n
<1>3. n \in Nat /\ n + 1 \in Nat \ {0} /\ (n + 1) - 1 = n /\ (n + 1 = 1 <=> n = 0)
      /\ (n # 0 => n \in 1..n)
  BY <1>1, <1>2
<1>4. values = << >> <=> n = 0
  BY <1>1 DEF n
<1>5. CASE n = 0
  <2>1. Prev = << >>
    BY <1>4, <1>5 DEF Prev
  <2>2. << >> \in Seq(Int) /\ Len(<< >>) = 0
    OBVIOUS
  <2> QED BY <1>3, <1>5, <2>1, <2>2 DEF n
<1>6. CASE n # 0
  <2>1. Prev = values[n]
    BY <1>4, <1>6 DEF Prev, n
  <2>2. values[n] \in Seq(Int) /\ Len(values[n]) = Shared(n) + SuffixLengths[n]
    BY <1>1, <1>3, <1>6 DEF SpelledSoFar
  <2>3. Len(values[n]) \in Nat
    BY <2>2
  <2> QED BY <1>3, <1>6, <2>1, <2>2, <2>3 DEF n
<1> QED BY <1>5, <1>6

(* One more value taken.                                                   *)
LEMMA ValueTaken ==
  ASSUME Streamed, DataPlace, dpc' = "data", UNCHANGED <<payload, units, open, lengths>>,
         NEW k, k = Len(values) + 1, k <= Len(SuffixLengths),
         Len(PrefixLengths) = Len(SuffixLengths), Shared(k) >= 0, SuffixLengths[k] >= 0,
         Shared(k) <= Len(Prev), Left(SuffixLengths[k]),
         cursor' = cursor + SuffixLengths[k],
         values' = Append(values, SubSeq(Prev, 1, Shared(k)) \o [j \in 1..SuffixLengths[k] |-> At(j)])
  PROVE  DInv'
<1> DEFINE S == SuffixLengths[k]
           P == Shared(k)
           n == Len(values)
           d == Needed(n)
           nd == Len(payload.data)
           nu == Len(units)
           N == Len(SuffixLengths)
           pre == SubSeq(Prev, 1, P)
           suf == [j \in 1..S |-> At(j)]
           v == pre \o suf
           data == payload.data
<1>1. /\ Len(lengths) = Len(payload.streams) /\ payload.kind \notin IntKinds
      /\ n \in 0..N /\ values \in Seq(Seq(Int))
      /\ \A i \in 1..n : SpelledSoFar(i)
      /\ d \in 0..nd /\ cursor \in 0..nu /\ nu \in Nat
      /\ nu - cursor <= nd - d /\ (payload.cut = 0 => nu - cursor = nd - d)
      /\ \A j \in 1..(nu - cursor) : units[cursor + j].v = data[d + j]
  BY DEF DataPlace
<1>2. /\ N \in Nat /\ nd \in Nat /\ data \in Seq(Int) /\ SuffixLengths \in Seq(Int)
      /\ Len(PrefixLengths) \in Nat
      /\ \A i \in 1..N : SuffixLengths[i] \in Int
      /\ \A i \in 1..Len(PrefixLengths) : Shared(i) \in Int
  BY DataFacts
<1>3. /\ k \in Nat \ {0} /\ k - 1 = n /\ Prev \in Seq(Int) /\ Len(Prev) \in Nat
      /\ Prev = (IF k = 1 THEN << >> ELSE values[k - 1])
      /\ Len(Prev) = (IF k = 1 THEN 0 ELSE Shared(k - 1) + SuffixLengths[k - 1])
  BY PrevIs
<1>4. k \in 1..N /\ S \in Nat /\ P \in Nat /\ P <= Len(Prev)
  <2>1. k \in 1..N
    BY <1>2, <1>3
  <2>2. S \in Int /\ P \in Int
    BY <1>2, <2>1
  <2> QED BY <2>1, <2>2
<1>5. Needed(k) = d + S
  BY <1>2, <1>3, <1>4, NeededIs
<1>6. nu - cursor >= S
  <2>1. cursor + S <= nu
    BY DEF Left
  <2> HIDE DEF S, nu, nd, d, N, n, P
  <2> QED BY <1>1, <1>4, <2>1
<1> HIDE DEF S, P, d, nd, nu, N, n, data
<1>7. d + S \in 0..nd /\ cursor + S \in 0..nu /\ d \in Nat /\ d + S <= nd
  <2>1. /\ d \in 0..nd /\ cursor \in 0..nu /\ nu \in Nat /\ nu - cursor <= nd - d
        /\ nd \in Nat /\ S \in Nat /\ nu - cursor >= S
    BY <1>1, <1>2, <1>4, <1>6
  <2> QED BY ONLY <2>1
<1>8. pre \in Seq(Int) /\ Len(pre) = P
  <2>1. 0 \in Nat /\ 0 + P <= Len(Prev) /\ 0 + 1 = 1 /\ 0 + P = P
    BY <1>3, <1>4
  <2> QED BY <1>3, <1>4, <2>1, PartOf
<1>9. suf \in Seq(Int) /\ Len(suf) = S /\ suf = SubSeq(data, d + 1, d + S)
  <2> DEFINE sub == SubSeq(data, d + 1, d + S)
  <2>1. sub \in Seq(Int) /\ Len(sub) = S /\ \A j \in 1..S : sub[j] = data[d + j]
    <3>1. data \in Seq(Int) /\ d \in Nat /\ S \in Nat /\ d + S <= Len(data)
      BY <1>2, <1>4, <1>7 DEF nd, data
    <3> QED BY ONLY <3>1, PartOf
  <2>2. \A j \in 1..S : At(j) = data[d + j]
    <3>1. \A j \in 1..S : j \in 1..(nu - cursor)
      BY <1>1, <1>4, <1>6
    <3> QED BY <1>1, <3>1 DEF At
  <2>3. \A j \in 1..S : At(j) = sub[j]
    BY <2>1, <2>2
  <2>4. \A j \in 1..S : sub[j] \in Int
    <3> HIDE DEF sub
    <3>1. \A j \in 1..Len(sub) : sub[j] \in Int
      BY <2>1
    <3> QED BY <2>1, <3>1
  <2> HIDE DEF sub
  <2>5. suf \in Seq(Int) /\ Len(suf) = S /\ \A j \in 1..S : suf[j] = sub[j]
    BY <1>4, <2>3, <2>4
  <2> HIDE DEF suf
  <2>6. suf = sub
    BY <2>1, <2>5, Identical
  <2> QED BY <2>5, <2>6 DEF sub
<1>10. values' = Append(values, v)
  BY DEF S, P
<1> HIDE DEF suf, pre
<1>11. v \in Seq(Int) /\ Len(v) = P + S
  BY <1>4, <1>8, <1>9, IntsTogether
<1>12. v = SubSeq(IF k = 1 THEN << >> ELSE values[k - 1], 1, Shared(k))
             \o SubSeq(payload.data, Needed(k - 1) + 1, Needed(k))
  BY <1>3, <1>5, <1>9 DEF pre, P, d, data
<1> HIDE DEF v
<1>13. /\ values' \in Seq(Seq(Int)) /\ Len(values') = k /\ values'[k] = v
       /\ \A i \in 1..n : values'[i] = values[i]
  <2> DEFINE T == Seq(Int)
  <2>1. values \in Seq(T) /\ v \in T
    BY <1>1, <1>11
  <2> HIDE DEF T
  <2>2. values' \in Seq(T) /\ Len(values') = Len(values) + 1 /\ values'[Len(values) + 1] = v
        /\ \A i \in 1..Len(values) : values'[i] = values[i]
    BY ONLY <1>10, <2>1
  <2> QED BY <2>2 DEF T, n
<1>14. /\ SuffixLengths' = SuffixLengths /\ PrefixLengths' = PrefixLengths
       /\ \A i : (Shared(i))' = Shared(i)
       /\ \A i : (Needed(i))' = Needed(i)
  <2>1. SuffixLengths' = SuffixLengths /\ PrefixLengths' = PrefixLengths
    BY DEF SuffixLengths, PrefixLengths
  <2> QED BY <2>1 DEF Shared, Needed
<1>15. \A i \in 1..k : (SpelledSoFar(i))'
  <2> SUFFICES ASSUME NEW i \in 1..k PROVE (SpelledSoFar(i))'
    OBVIOUS
  <2>1. i \in Nat \ {0} /\ (i \in 1..n \/ i = k) /\ (i = 1 \/ i - 1 \in 1..n)
    BY <1>3
  <2>2. i = 1 \/ values'[i - 1] = values[i - 1]
    BY <1>13, <2>1
  <2>3. (IF i = 1 THEN << >> ELSE values'[i - 1]) = (IF i = 1 THEN << >> ELSE values[i - 1])
    BY <2>2
  <2>4. CASE i \in 1..n
    <3>1. SpelledSoFar(i) /\ values'[i] = values[i]
      BY <1>1, <1>13, <2>4
    <3> QED BY <1>14, <2>3, <3>1 DEF SpelledSoFar
  <2>5. CASE i = k
    <3>1. /\ SuffixLengths[k] \in Nat
          /\ Shared(k) \in 0..(IF k = 1 THEN 0 ELSE Shared(k - 1) + SuffixLengths[k - 1])
      BY <1>3, <1>4 DEF S, P
    <3>2. v \in Seq(Int) /\ Len(v) = Shared(k) + SuffixLengths[k]
      BY <1>11 DEF S, P
    <3> QED BY <1>12, <1>13, <1>14, <2>3, <2>5, <3>1, <3>2 DEF SpelledSoFar
  <2> QED BY <2>1, <2>4, <2>5
<1>16. /\ payload' = payload /\ units' = units /\ lengths' = lengths /\ cursor' = cursor + S
  BY DEF S
<1>17. /\ nu - (cursor + S) <= nd - (d + S)
       /\ payload.cut = 0 => nu - (cursor + S) = nd - (d + S)
       /\ \A j \in 1..(nu - (cursor + S)) : units[(cursor + S) + j].v = data[(d + S) + j]
  <2>1. /\ nu - (cursor + S) <= nd - (d + S)
        /\ payload.cut = 0 => nu - (cursor + S) = nd - (d + S)
    BY <1>1, <1>2, <1>4, <1>7
  <2>2. ASSUME NEW j \in 1..(nu - (cursor + S))
        PROVE  units[(cursor + S) + j].v = data[(d + S) + j]
    <3>1. S + j \in 1..(nu - cursor) /\ (cursor + S) + j = cursor + (S + j) /\ (d + S) + j = d + (S + j)
      BY <1>1, <1>4, <1>7
    <3> QED BY <1>1, <3>1
  <2> QED BY <2>1, <2>2
<1>18. (Needed(Len(values)))' = d + S
  BY <1>5, <1>13, <1>14
<1>19. DataPlace'
  <2>1. Len(values') \in 0..N /\ Len(PrefixLengths) = N
    BY <1>3, <1>4, <1>13 DEF N
  <2> QED BY <1>1, <1>7, <1>13, <1>14, <1>15, <1>16, <1>17, <1>18, <2>1 DEF DataPlace, nu, nd, N, data
<1>20. Streamed'
  BY <1>16 DEF Streamed, Passed
<1> QED BY <1>19, <1>20 DEF DInv

(* The last value: the payload is one the format allows, and the values    *)
(* are those it spells.                                                    *)
LEMMA AllSpelled ==
  ASSUME Streamed, DataPlace, Len(PrefixLengths) = Len(SuffixLengths),
         Len(values) = Len(SuffixLengths)
  PROVE  Valid /\ Spelled
<1> DEFINE n == Len(SuffixLengths)
<1>1. /\ payload \in Payloads /\ payload.kind \in {"length", "byte_array"} /\ n \in Nat
      /\ DOMAIN SuffixLengths = 1..n
  BY DataFacts
<1>2. /\ \A i \in 1..n : SpelledSoFar(i)
      /\ Needed(n) <= Len(payload.data) /\ values \in Seq(Seq(Int)) /\ Len(values) = n
      /\ Len(lengths) = Len(payload.streams) /\ payload.kind \notin IntKinds
  BY DataFacts DEF DataPlace
<1>3. \A s \in DOMAIN payload.streams :
        Len(payload.streams[s].ints) > 0 => Shaped(payload.streams[s].shape)
  <2>1. \A s \in 1..Len(payload.streams) : Passed(payload.streams[s])
    BY <1>2 DEF Streamed
  <2>2. DOMAIN payload.streams = 1..Len(payload.streams)
    BY <1>1, PayloadTyped
  <2>3. \A s \in DOMAIN payload.streams : payload.streams[s].ints = << >>
                                           \/ Shaped(payload.streams[s].shape)
    BY <1>2, <2>1, <2>2 DEF Passed
  <2>4. Len(<< >>) = 0
    OBVIOUS
  <2> QED BY <2>3, <2>4
<1>4. \A k \in 1..n : /\ SuffixLengths[k] >= 0
                      /\ Shared(k) \in 0..(IF k = 1 THEN 0 ELSE Shared(k - 1) + SuffixLengths[k - 1])
                      /\ values[k] = SubSeq(IF k = 1 THEN << >> ELSE values[k - 1], 1, Shared(k))
                                       \o SubSeq(payload.data, Needed(k - 1) + 1, Needed(k))
  <2>1. \A v \in Nat : v >= 0
    OBVIOUS
  <2> QED BY <1>2, <2>1 DEF SpelledSoFar
<1>5. Valid
  BY <1>1, <1>2, <1>3, <1>4 DEF Valid
<1>6. Spelled
  <2>1. DOMAIN values = 1..n
    BY <1>2
  <2> QED BY <1>2, <1>4, <2>1 DEF Spelled
<1> QED BY <1>5, <1>6

(* The next value of a page that the format allows and that lost nothing   *)
(* is there.                                                               *)
LEMMA NextThere ==
  ASSUME Streamed, DataPlace, Valid, payload.cut = 0, NEW k, k = Len(values) + 1,
         k <= Len(SuffixLengths)
  PROVE  ~(Prefix(k) < 0 \/ Suffix(k) < 0 \/ Prefix(k) > Len(Prev) \/ ~Left(Suffix(k)))
<1> DEFINE n == Len(values)
           N == Len(SuffixLengths)
           d == Needed(n)
           nd == Len(payload.data)
           nu == Len(units)
           S == SuffixLengths[k]
<1>1. /\ payload.kind \in {"length", "byte_array"} /\ N \in Nat /\ nd \in Nat
      /\ SuffixLengths \in Seq(Int) /\ DOMAIN SuffixLengths = 1..N
      /\ \A i \in 1..N : SuffixLengths[i] \in Int
      /\ \A i \in 1..Len(PrefixLengths) : Shared(i) \in Int
      /\ Suffix(k) = S /\ Prefix(k) = Shared(k)
  BY DataFacts
<1>2. /\ Needed(N) <= nd /\ Len(PrefixLengths) = N
      /\ \A i \in 1..N : /\ SuffixLengths[i] >= 0
                         /\ Shared(i) \in 0..(IF i = 1 THEN 0
                                              ELSE Shared(i - 1) + SuffixLengths[i - 1])
  BY <1>1 DEF Valid
<1>3. k \in Nat \ {0} /\ k - 1 = n
      /\ Len(Prev) = (IF k = 1 THEN 0 ELSE Shared(k - 1) + SuffixLengths[k - 1]) /\ Len(Prev) \in Nat
  BY PrevIs
<1>4. k \in 1..N /\ k \in 0..N /\ N \in 0..N
  BY <1>1, <1>3
<1>5. /\ d \in 0..nd /\ cursor \in 0..nu /\ nu \in Nat /\ nu - cursor = nd - d
  BY DEF DataPlace
<1>6. Needed(k) = d + S /\ Needed(k) \in Int /\ Needed(N) \in Int
  BY <1>1, <1>3, <1>4, NeededIs
<1>7. Needed(k) <= Needed(N)
  BY <1>1, <1>2, <1>4, NeededGrows
<1>8. S \in Int /\ S >= 0 /\ Shared(k) \in 0..Len(Prev)
  BY <1>1, <1>2, <1>3, <1>4
<1> HIDE DEF S, d, nd, nu, N, n
<1>9. Left(S)
  <2>1. cursor + S <= nu
    BY <1>1, <1>2, <1>5, <1>6, <1>7, <1>8
  <2> QED BY <2>1 DEF Left, nu
<1>10. ~(Shared(k) < 0) /\ ~(S < 0) /\ ~(Shared(k) > Len(Prev))
  BY <1>3, <1>8
<1> QED BY <1>1, <1>9, <1>10

LEMMA ValueInv == ASSUME DInv, ReadValue PROVE DInv'
<1>1. Streamed /\ DataPlace
  BY DEF DInv, ReadValue
<1>2. PICK k : k = Len(values) + 1
  OBVIOUS
<1>3. /\ payload.kind \in {"length", "byte_array"} /\ payload.cut \in Nat
      /\ lengths[Len(lengths)] = SuffixLengths /\ Count = Len(PrefixLengths)
      /\ Suffix(k) = SuffixLengths[k] /\ Prefix(k) = Shared(k)
      /\ Len(SuffixLengths) \in Nat /\ Len(PrefixLengths) \in Nat
      /\ \A i \in 1..Len(SuffixLengths) : SuffixLengths[i] \in Int
      /\ \A i \in 1..Len(PrefixLengths) : Shared(i) \in Int
  BY <1>1, DataFacts
<1>4. Len(values) \in 0..Len(SuffixLengths) /\ Len(Prev) \in Nat /\ k \in Nat \ {0}
  BY <1>1, <1>2, PrevIs DEF DataPlace
<1>5. CASE Len(SuffixLengths) # Len(PrefixLengths)
  <2>1. Fail
    BY <1>3, <1>5 DEF ReadValue
  <2>2. ~Valid
    BY <1>3, <1>5 DEF Valid
  <2> QED BY <1>1, <2>1, <2>2, FailInv
<1>6. CASE Len(SuffixLengths) = Len(PrefixLengths) /\ k > Len(SuffixLengths)
  <2>1. dpc' = "done" /\ UNCHANGED <<payload, units, cursor, open, lengths, values>>
    BY <1>2, <1>3, <1>6 DEF ReadValue
  <2>2. Len(values) = Len(SuffixLengths)
    BY <1>2, <1>3, <1>4, <1>6
  <2>3. Valid /\ Spelled
    BY <1>1, <1>6, <2>2, AllSpelled
  <2>4. Valid' /\ Spelled'
    <3>1. SuffixLengths' = SuffixLengths /\ PrefixLengths' = PrefixLengths
      BY <2>1 DEF SuffixLengths, PrefixLengths
    <3> QED BY <2>1, <2>3, <3>1 DEF Valid, Spelled, Needed, Shared
  <2>5. Streamed'
    BY <1>1, <2>1 DEF Streamed, Passed
  <2> QED BY <2>1, <2>4, <2>5 DEF DInv
<1>7. CASE Len(SuffixLengths) = Len(PrefixLengths) /\ k <= Len(SuffixLengths)
  <2> DEFINE bad == Prefix(k) < 0 \/ Suffix(k) < 0 \/ Prefix(k) > Len(Prev) \/ ~Left(Suffix(k))
  <2>0. ~(k > Len(SuffixLengths)) /\ k \in 1..Len(SuffixLengths)
    BY <1>3, <1>4, <1>7
  <2>1. CASE bad
    <3>1. Fail
      BY <1>2, <1>3, <1>7, <2>0, <2>1 DEF ReadValue
    <3>2. ~(Valid /\ payload.cut = 0)
      BY <1>1, <1>2, <1>7, <2>1, NextThere
    <3>3. ~Valid \/ payload.cut > 0
      BY <1>3, <3>2
    <3> QED BY <1>1, <3>1, <3>3, FailInv
  <2>2. CASE ~bad
    <3>1. /\ cursor' = cursor + SuffixLengths[k]
          /\ values' = Append(values, SubSeq(Prev, 1, Shared(k))
                                        \o [j \in 1..SuffixLengths[k] |-> At(j)])
          /\ UNCHANGED <<payload, units, dpc, open, lengths>> /\ dpc = "data"
      BY <1>2, <1>3, <1>7, <2>0, <2>2 DEF ReadValue
    <3>2. /\ Shared(k) >= 0 /\ SuffixLengths[k] >= 0 /\ Shared(k) <= Len(Prev)
          /\ Left(SuffixLengths[k])
      <4>1. SuffixLengths[k] \in Int /\ Shared(k) \in Int
        BY <1>3, <1>7, <2>0
      <4>2. /\ ~(Shared(k) < 0) /\ ~(SuffixLengths[k] < 0) /\ ~(Shared(k) > Len(Prev))
            /\ Left(SuffixLengths[k])
        BY <1>3, <2>2
      <4> QED BY <1>4, <4>1, <4>2
    <3>3. dpc' = "data" /\ UNCHANGED <<payload, units, open, lengths>>
      BY <3>1
    <3> QED BY <1>1, <1>2, <1>7, <3>1, <3>2, <3>3, ValueTaken
  <2> QED BY <2>1, <2>2
<1> QED BY <1>3, <1>4, <1>5, <1>6, <1>7

-----------------------------------------------------------------------------
(* From the start on.                                                      *)

LEMMA DeltaBegins == DeltaInit => DInv
<1> SUFFICES ASSUME DeltaInit PROVE DInv
  OBVIOUS
<1>1. /\ payload \in Payloads /\ units = Written(payload) /\ dpc = "header" /\ cursor = 0
      /\ lengths = << >> /\ values = << >>
  BY DEF DeltaInit
<1>2. /\ Len(payload.streams) \in {1, 2} /\ payload.cut \in Nat
      /\ Rest(payload, 0) \in Seq(Item)
  <2>1. Len(payload.streams) \in {1, 2} /\ payload.cut \in Nat
    BY <1>1, PayloadTyped
  <2>2. 0 \in 0..Len(payload.streams)
    BY <2>1
  <2> QED BY <1>1, <2>1, <2>2, RestTyped
<1>3. Len(lengths) = 0 /\ DOMAIN lengths = 1..0 /\ 1..0 = {} /\ 0 < Len(payload.streams)
      /\ 0 \in 0..Len(payload.streams)
  <2>1. Len(lengths) = 0 /\ DOMAIN lengths = 1..0 /\ 1..0 = {}
    BY <1>1
  <2> DEFINE N == Len(payload.streams)
  <2>2. N \in {1, 2}
    BY <1>2
  <2> HIDE DEF N
  <2>3. 0 < N /\ 0 \in 0..N
    BY <2>2
  <2> QED BY <2>1, <2>3 DEF N
<1>4. units = SubSeq(Rest(payload, 0), 1, Len(Rest(payload, 0)) - payload.cut)
  BY <1>1 DEF Written, Rest, DataUnits
<1>5. Ahead(0, Rest(payload, 0))
  BY <1>2, <1>4, CutAhead
<1>6. HeaderPlace
  BY <1>1, <1>3, <1>5 DEF HeaderPlace
<1>7. Streamed
  BY <1>1, <1>3 DEF Streamed
<1> QED BY <1>1, <1>3, <1>6, <1>7 DEF DInv

LEMMA DeltaRests == DeltaAtRest => DInv
  BY DEF DeltaAtRest, DInv

LEMMA DeltaStep == ASSUME DInv, DeltaNext \/ UNCHANGED deltaVars PROVE DInv'
<1>1. CASE ReadHeader
  BY <1>1, HeaderInv
<1>2. CASE ReadBlock
  BY <1>2, BlockInv
<1>3. CASE ReadMini
  BY <1>3, MiniInv
<1>4. CASE ReadValue
  BY <1>4, ValueInv
<1>5. CASE UNCHANGED deltaVars
  <2>1. UNCHANGED <<payload, units, dpc, cursor, open, lengths, values>>
    BY <1>5 DEF deltaVars
  <2>2. SuffixLengths' = SuffixLengths /\ PrefixLengths' = PrefixLengths /\ Current' = Current
        /\ Wide' = Wide
    BY <2>1 DEF SuffixLengths, PrefixLengths, Current, Wide
  <2>3. /\ (\A i : (Shared(i))' = Shared(i)) /\ (\A i : (Needed(i))' = Needed(i))
    BY <2>1, <2>2 DEF Shared, Needed
  <2>4. Valid' = Valid /\ Spelled' = Spelled
    BY <2>1, <2>2, <2>3 DEF Valid, Spelled
  <2>5. Streamed' = Streamed /\ HeaderPlace' = HeaderPlace /\ Hopeless' = Hopeless
    BY <2>1, <2>2 DEF Streamed, Passed, HeaderPlace, Hopeless, Ahead
  <2>6. \A k \in Nat : (BlockPlace(k))' = BlockPlace(k)
    BY <2>1, <2>2 DEF BlockPlace, OpenAt, Regular, Ahead
  <2>7. \A k, m \in Nat : (MiniPlace(k, m))' = MiniPlace(k, m)
    BY <2>1, <2>2 DEF MiniPlace, MiniAt, OpenAt, Regular, Ahead
  <2>8. DataPlace' = DataPlace
    BY <2>1, <2>2, <2>3 DEF DataPlace, SpelledSoFar
  <2> QED BY <2>1, <2>4, <2>5, <2>6, <2>7, <2>8 DEF DInv
<1> QED BY <1>1, <1>2, <1>3, <1>4, <1>5 DEF DeltaNext

LEMMA DeltaAnswers == DInv => DeltaReadsBack
<1> SUFFICES ASSUME DInv PROVE DeltaReadsBack
  OBVIOUS
<1>1. CASE dpc = "done"
  <2>1. Streamed /\ (payload.kind \in IntKinds \/ (Valid /\ Spelled))
    BY <1>1 DEF DInv
  <2>2. \A s \in DOMAIN lengths : lengths[s] = payload.streams[s].ints
    BY <2>1 DEF Streamed
  <2>3. payload.kind \in {"length", "byte_array"} => payload.kind \notin IntKinds
    BY DEF IntKinds
  <2> QED BY <1>1, <2>1, <2>2, <2>3 DEF DeltaReadsBack
<1>2. CASE dpc = "failed"
  BY <1>2 DEF DInv, DeltaReadsBack
<1>3. CASE dpc # "done" /\ dpc # "failed"
  BY <1>3 DEF DeltaReadsBack
<1> QED BY <1>1, <1>2, <1>3

(* What is decoded is what was written, or it was refused for cause        *)
(* (delta.rs): the deltas wrap in the width of the values, the sums in an  *)
(* accumulator twice as wide, and both are back where they began.          *)
THEOREM DeltaExact == Spec => []DeltaReadsBack
<1>1. Init => DInv
  BY DeltaBegins, DeltaRests DEF Init
<1>2. DInv /\ [Next]_vars => DInv'
  <2> SUFFICES ASSUME DInv, [Next]_vars PROVE DInv'
    OBVIOUS
  <2>1. DeltaNext \/ UNCHANGED deltaVars
    BY DEF Next, vars
  <2> QED BY <2>1, DeltaStep
<1> QED BY <1>1, <1>2, DeltaAnswers, PTL DEF Spec
================================================================================
