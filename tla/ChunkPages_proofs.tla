--------------------------- MODULE ChunkPages_proofs ---------------------------
(***************************************************************************)
(* What decode_chunk_into computes, page by page: the recursive definition *)
(* has a value, every prefix of the pages has a result of the right type,  *)
(* and each result comes from the one before it.  The induction over pages *)
(* is by least counterexample.                                             *)
(***************************************************************************)
EXTENDS ChunkPages, WellFoundedInduction, NaturalsInduction, SequenceTheorems,
        FiniteSetTheorems, TLAPS

(* Every nonempty set of naturals has a least element.                     *)
LEMMA LeastNat ==
  ASSUME NEW T \in SUBSET Nat, T # {} PROVE \E x \in T : \A y \in T : x <= y
<1> DEFINE R == OpToRel(<, Nat)
<1>1. \A x, y \in T : y < x => <<y, x>> \in R
  BY DEF OpToRel
<1>2. IsWellFoundedOn(R, Nat)
  BY NatLessThanWellFounded
<1> HIDE DEF R
<1>3. PICK x \in T : \A y \in T : ~(<<y, x>> \in R)
  BY <1>2, WFMin
<1>4. \A y \in T : ~(y < x) /\ y \in Nat /\ x \in Nat
  BY <1>1, <1>3
<1> QED BY <1>3, <1>4

(* Induction: a set of naturals that holds 0 and, up to n, the successor   *)
(* of each of its members holds every natural up to n.                     *)
LEMMA Climb ==
  ASSUME NEW n \in Nat, NEW P, 0 \in P, \A k \in 0..(n - 1) : k \in P => k + 1 \in P
  PROVE  \A k \in 0..n : k \in P
<1> SUFFICES ASSUME NEW c \in 0..n, c \notin P PROVE FALSE
  OBVIOUS
<1> DEFINE T == {k \in 0..n : k \notin P}
<1>1. T \in SUBSET Nat /\ T # {}
  OBVIOUS
<1> HIDE DEF T
<1>2. PICK x \in T : \A y \in T : x <= y
  BY <1>1, LeastNat
<1>3. x \in 0..n /\ x \notin P /\ x # 0
  BY <1>2 DEF T
<1>4. x - 1 \in 0..(n - 1) /\ x - 1 \in 0..n /\ ~(x <= x - 1) /\ x - 1 + 1 = x
  BY <1>3
<1>5. x - 1 \in P
  BY <1>2, <1>4 DEF T
<1> QED BY <1>3, <1>4, <1>5

(* A function defined from its value one below has a value.                *)
ReadsBelow(f, n, a, g) == f[0] = a /\ \A k \in 1..n : f[k] = g[k][f[k - 1]]

LEMMA Recursion ==
  ASSUME NEW n \in Nat, NEW S, NEW a \in S, NEW g \in [1..n -> [S -> S]]
  PROVE  \E f \in [0..n -> S] : ReadsBelow(f, n, a, g)
<1> DEFINE Upto(m) == \E f \in [0..m -> S] :
                        f[0] = a /\ \A k \in 1..m : f[k] = g[k][f[k - 1]]
           P == {m \in 0..n : Upto(m)}
<1>1. 0 \in P
  <2> DEFINE f == [k \in 0..0 |-> a]
  <2>1. f \in [0..0 -> S] /\ f[0] = a /\ 1..0 = {}
    OBVIOUS
  <2> HIDE DEF f
  <2>2. Upto(0)
    BY <2>1
  <2> QED BY <2>2
<1>2. ASSUME NEW m \in 0..(n - 1), m \in P PROVE m + 1 \in P
  <2>1. PICK f \in [0..m -> S] : f[0] = a /\ \A k \in 1..m : f[k] = g[k][f[k - 1]]
    BY <1>2
  <2> DEFINE h == [k \in 0..(m + 1) |-> IF k = m + 1 THEN g[m + 1][f[m]] ELSE f[k]]
  <2>2. g[m + 1][f[m]] \in S
    <3>1. m + 1 \in 1..n /\ f[m] \in S
      OBVIOUS
    <3> QED BY <3>1
  <2>3. h \in [0..(m + 1) -> S]
    BY <2>2
  <2>4. h[0] = a
    BY <2>1
  <2>5. ASSUME NEW k \in 1..(m + 1) PROVE h[k] = g[k][h[k - 1]]
    <3>1. CASE k = m + 1
      BY <3>1
    <3>2. CASE k \in 1..m
      <4>1. k \in 0..(m + 1) /\ k - 1 \in 0..(m + 1) /\ k # m + 1 /\ k - 1 # m + 1
        BY <3>2
      <4>2. h[k] = f[k] /\ h[k - 1] = f[k - 1]
        BY <4>1
      <4> QED BY <2>1, <3>2, <4>2
    <3> QED BY <3>1, <3>2
  <2> HIDE DEF h
  <2>6. Upto(m + 1) /\ m + 1 \in 0..n
    BY <2>3, <2>4, <2>5
  <2> QED BY <2>6
<1> HIDE DEF P
<1>3. \A k \in 0..n : k \in P
  BY <1>1, <1>2, Climb
<1>4. Upto(n)
  BY <1>3 DEF P
<1> QED BY <1>4 DEF ReadsBelow

(* So has one defined from its value further on.                           *)
ReadsAhead(f, n, ahead, last, g) ==
  \A k \in 0..n : f[k] = IF k < ahead[k] /\ ahead[k] <= n THEN g[k][f[ahead[k]]] ELSE last[k]

LEMMA RecursionAhead ==
  ASSUME NEW n \in Nat, NEW S, NEW ahead \in [0..n -> Nat], NEW last \in [0..n -> S],
         NEW g \in [0..n -> [S -> S]]
  PROVE  \E f \in [0..n -> S] : ReadsAhead(f, n, ahead, last, g)
<1> DEFINE Solves(f, m) == \A k \in (n - m)..n :
                             f[k] = IF k < ahead[k] /\ ahead[k] <= n THEN g[k][f[ahead[k]]]
                                    ELSE last[k]
           P == {m \in 0..n : \E f \in [(n - m)..n -> S] : Solves(f, m)}
<1>1. 0 \in P
  <2> DEFINE f == [k \in (n - 0)..n |-> last[n]]
  <2>1. f \in [(n - 0)..n -> S]
    OBVIOUS
  <2>2. ASSUME NEW k \in (n - 0)..n PROVE k = n /\ f[k] = last[k] /\ ~(k < ahead[k] /\ ahead[k] <= n)
    OBVIOUS
  <2> HIDE DEF f
  <2>3. Solves(f, 0)
    BY <2>2
  <2> HIDE DEF Solves
  <2>4. \E e \in [(n - 0)..n -> S] : Solves(e, 0)
    BY <2>1, <2>3
  <2> QED BY <2>4
<1>2. ASSUME NEW m \in 0..(n - 1), m \in P PROVE m + 1 \in P
  <2>1. PICK f \in [(n - m)..n -> S] : Solves(f, m)
    BY <1>2
  <2> DEFINE p == n - m - 1
             v == IF p < ahead[p] /\ ahead[p] <= n THEN g[p][f[ahead[p]]] ELSE last[p]
             h == [k \in p..n |-> IF k = p THEN v ELSE f[k]]
  <2>2. p \in 0..n /\ p = n - (m + 1) /\ p + 1 = n - m /\ m + 1 \in 0..n
    OBVIOUS
  <2> HIDE DEF p
  <2>3. v \in S
    <3>1. p < ahead[p] /\ ahead[p] <= n => ahead[p] \in (n - m)..n
      BY <2>2
    <3> QED BY <2>2, <3>1
  <2>4. h \in [p..n -> S]
    <3>1. \A k \in p..n : k # p => k \in (n - m)..n
      BY <2>2
    <3> HIDE DEF v
    <3> QED BY <2>3, <3>1
  <2>5. ASSUME NEW k \in p..n
        PROVE  h[k] = IF k < ahead[k] /\ ahead[k] <= n THEN g[k][h[ahead[k]]] ELSE last[k]
    <3>1. k \in 0..n /\ ahead[k] \in Nat /\ p \in Int
      BY <2>2
    <3>2. k < ahead[k] /\ ahead[k] <= n => ahead[k] \in p..n /\ ahead[k] # p /\ h[ahead[k]] = f[ahead[k]]
      BY <3>1
    <3>3. CASE k = p
      <4>1. h[k] = v
        BY <3>3
      <4> HIDE DEF h
      <4> QED BY <3>2, <3>3, <4>1
    <3>4. CASE k # p
      <4>1. k \in (n - m)..n
        BY <2>2, <3>1, <3>4
      <4>2. f[k] = IF k < ahead[k] /\ ahead[k] <= n THEN g[k][f[ahead[k]]] ELSE last[k]
        BY <2>1, <4>1
      <4>3. h[k] = f[k]
        BY <3>4
      <4> HIDE DEF h
      <4> QED BY <3>2, <4>2, <4>3
    <3> QED BY <3>3, <3>4
  <2> HIDE DEF h
  <2>6. Solves(h, m + 1)
    BY <2>2, <2>5
  <2>7. h \in [(n - (m + 1))..n -> S]
    BY <2>2, <2>4
  <2> QED BY <2>2, <2>6, <2>7
<1> HIDE DEF P
<1>3. \A m \in 0..n : m \in P
  BY <1>1, <1>2, Climb
<1>4. n \in P
  BY <1>3
<1>5. PICK f \in [(n - n)..n -> S] : Solves(f, n)
  BY <1>4 DEF P
<1>6. n - n = 0
  OBVIOUS
<1> QED BY <1>5, <1>6 DEF ReadsAhead

-----------------------------------------------------------------------------
(* The states of the one-shot reader.                                      *)

ReaderStates == [out : Seq(Int), dict : Seq(Int), err : BOOLEAN, done : BOOLEAN]

(* A chunk whose pages carry integers.                                     *)
IntPages(pages) == Len(pages) \in Nat /\ \A k \in 1..Len(pages) : pages[k].vals \in Seq(Int)

LEMMA PageRowsType ==
  ASSUME NEW p, p.vals \in Seq(Int), NEW d \in Seq(Int), IsData(p), Decodable(p, d)
  PROVE  PageRows(p, d) \in Seq(Int) /\ Len(PageRows(p, d)) = Len(p.vals)
<1> DEFINE vals == p.vals
           n == Len(vals)
<1>1. CASE p.kind = "plain"
  BY <1>1 DEF PageRows
<1>2. CASE p.kind # "plain"
  <2>1. p.kind = "coded"
    BY <1>2 DEF IsData
  <2>2. \A i \in 1..n : vals[i] \in 0..(Len(d) - 1)
    BY <2>1 DEF Decodable
  <2>3. PageRows(p, d) = [i \in 1..n |-> d[vals[i] + 1]]
    BY <1>2 DEF PageRows
  <2>4. n \in Nat /\ \A i \in 1..n : d[vals[i] + 1] \in Int
    <3> HIDE DEF vals
    <3>1. vals \in Seq(Int)
      BY DEF vals
    <3>2. n \in Nat
      BY <3>1
    <3>3. ASSUME NEW i \in 1..n PROVE d[vals[i] + 1] \in Int
      <4>1. vals[i] + 1 \in 1..Len(d)
        BY <2>2
      <4> QED BY <4>1
    <3> QED BY <3>2, <3>3
  <2> HIDE DEF n, vals
  <2>5. [i \in 1..n |-> d[vals[i] + 1]] \in Seq(Int) /\ Len([i \in 1..n |-> d[vals[i] + 1]]) = n
    BY <2>4
  <2> QED BY <2>3, <2>5 DEF n, vals
<1> QED BY <1>1, <1>2

LEMMA ReadPageType ==
  ASSUME NEW s \in ReaderStates, NEW p, p.vals \in Seq(Int), NEW total \in Int
  PROVE  ReadPage(s, p, total) \in ReaderStates
<1> DEFINE ok  == IsData(p) => Decodable(p, s.dict)
           out == IF IsData(p) /\ ok THEN s.out \o PageRows(p, s.dict) ELSE s.out
<1>1. s.out \in Seq(Int) /\ s.dict \in Seq(Int)
  BY DEF ReaderStates
<1>2. out \in Seq(Int)
  <2>1. CASE IsData(p) /\ ok
    <3>1. PageRows(p, s.dict) \in Seq(Int)
      BY <1>1, <2>1, PageRowsType
    <3> QED BY <1>1, <2>1, <3>1
  <2> QED BY <1>1, <2>1
<1>3. ok \in BOOLEAN
  OBVIOUS
<1>4. (Len(out) >= total) \in BOOLEAN
  BY <1>2
<1> HIDE DEF ok, out
<1>5. ReadPage(s, p, total) =
        IF s.err \/ s.done THEN s
        ELSE [out |-> out, dict |-> IF p.kind = "dict" THEN p.vals ELSE s.dict,
              err |-> p.kind = "bad" \/ ~ok, done |-> Len(out) >= total]
  BY DEF ReadPage, out, ok
<1> QED BY <1>1, <1>2, <1>3, <1>4, <1>5 DEF ReaderStates

(* After the first k pages.                                                *)
LEMMA AfterPages ==
  ASSUME NEW pages, IntPages(pages), NEW total \in Int
  PROVE  /\ After(pages, total) \in [0..Len(pages) -> ReaderStates]
         /\ After(pages, total)[0] = Opening
         /\ \A k \in 1..Len(pages) :
              After(pages, total)[k] = ReadPage(After(pages, total)[k - 1], pages[k], total)
<1> DEFINE n == Len(pages)
           g == [k \in 1..n |-> [s \in ReaderStates |-> ReadPage(s, pages[k], total)]]
           body(f) == [k \in 0..n |-> IF k = 0 THEN Opening ELSE ReadPage(f[k - 1], pages[k], total)]
<1>1. n \in Nat /\ \A k \in 1..n : pages[k].vals \in Seq(Int)
  BY DEF IntPages
<1> HIDE DEF n
<1>2. Opening \in ReaderStates
  BY DEF Opening, ReaderStates
<1>3. g \in [1..n -> [ReaderStates -> ReaderStates]]
  BY <1>1, ReadPageType
<1>4. PICK f \in [0..n -> ReaderStates] :
        f[0] = Opening /\ \A k \in 1..n : f[k] = g[k][f[k - 1]]
  <2> DEFINE S == ReaderStates
             a == Opening
  <2>1. n \in Nat /\ a \in S /\ g \in [1..n -> [S -> S]]
    BY <1>1, <1>2, <1>3
  <2> HIDE DEF g, S, a
  <2>2. \E f \in [0..n -> S] : ReadsBelow(f, n, a, g)
    BY <2>1, Recursion
  <2> QED BY <2>2 DEF S, a, ReadsBelow
<1>5. f = body(f)
  <2>1. ASSUME NEW k \in 1..n PROVE f[k] = ReadPage(f[k - 1], pages[k], total)
    <3>1. k \in 1..n /\ f[k - 1] \in ReaderStates
      BY <1>1
    <3> QED BY <1>4, <3>1
  <2>2. \A k \in 0..n : f[k] = body(f)[k]
    BY <1>1, <1>4, <2>1
  <2> QED BY <2>2
<1>6. After(pages, total) = body(After(pages, total))
  <2>1. After(pages, total) = CHOOSE h : h = body(h)
    BY DEF After, n
  <2> HIDE DEF body
  <2> QED BY <1>5, <2>1
<1> DEFINE h == After(pages, total)
<1> HIDE DEF h
<1>7. /\ h[0] = Opening /\ \A k \in 1..n : h[k] = ReadPage(h[k - 1], pages[k], total)
      /\ h = [k \in 0..n |-> h[k]]
  <2>1. h = [k \in 0..n |-> IF k = 0 THEN Opening ELSE ReadPage(h[k - 1], pages[k], total)]
    BY <1>6 DEF h
  <2>2. 0 \in 0..n /\ \A k \in 1..n : k \in 0..n /\ k # 0
    BY <1>1
  <2> QED BY <2>1, <2>2
<1>8. \A k \in 0..n : h[k] \in ReaderStates
  <2> DEFINE P == {k \in 0..n : h[k] \in ReaderStates}
  <2>1. 0 \in P
    BY <1>1, <1>2, <1>7
  <2>2. ASSUME NEW k \in 0..(n - 1), k \in P PROVE k + 1 \in P
    <3>1. k + 1 \in 1..n /\ k + 1 - 1 = k
      BY <1>1
    <3> DEFINE j == k + 1
    <3>2. j \in 1..n /\ j - 1 = k
      BY <3>1
    <3> HIDE DEF j
    <3>3. h[j] = ReadPage(h[j - 1], pages[j], total)
      BY <1>7, <3>2
    <3>4. h[j] \in ReaderStates
      BY <1>1, <2>2, <3>2, <3>3, ReadPageType
    <3> QED BY <1>1, <3>2, <3>4 DEF j
  <2> HIDE DEF P
  <2>3. \A k \in 0..n : k \in P
    BY <1>1, <2>1, <2>2, Climb
  <2> QED BY <2>3 DEF P
<1> QED BY <1>1, <1>7, <1>8 DEF h, n

(* What decode_chunk_into returns is rows, or an error flag beside them.   *)
LEMMA OneShotType ==
  ASSUME NEW pages, IntPages(pages), NEW total \in Int
  PROVE  OneShot(pages, total) \in ReaderStates
  BY AfterPages DEF OneShot, IntPages

(* Reading on after an error, or after the last row, changes nothing.      *)
LEMMA StaysPut ==
  ASSUME NEW pages, IntPages(pages), NEW total \in Int, NEW k \in 0..Len(pages),
         After(pages, total)[k].err \/ After(pages, total)[k].done
  PROVE  OneShot(pages, total) = After(pages, total)[k]
<1> DEFINE n == Len(pages)
           r == After(pages, total)
           m == n - k
           P == {i \in 0..m : r[k + i] = r[k]}
<1>1. n \in Nat /\ m \in Nat /\ k \in 0..n /\ k + 0 = k /\ k + m = n
  BY DEF IntPages
<1>2. \A i \in 1..n : r[i] = ReadPage(r[i - 1], pages[i], total)
  BY AfterPages
<1>3. r[k].err \/ r[k].done
  OBVIOUS
<1> HIDE DEF r, n, m
<1>4. 0 \in P
  BY <1>1
<1>5. ASSUME NEW i \in 0..(m - 1), i \in P PROVE i + 1 \in P
  <2> DEFINE j == k + i + 1
  <2>1. j \in 1..n /\ j - 1 = k + i /\ i + 1 \in 0..m /\ k + (i + 1) = j
    BY <1>1 DEF m
  <2> HIDE DEF j
  <2>2. r[j] = ReadPage(r[j - 1], pages[j], total) /\ r[j - 1] = r[k]
    BY <1>2, <1>5, <2>1
  <2>3. r[j] = r[k]
    BY <1>3, <2>2 DEF ReadPage
  <2> QED BY <2>1, <2>3
<1> HIDE DEF P
<1>6. \A i \in 0..m : i \in P
  BY <1>1, <1>4, <1>5, Climb
<1>7. r[k + m] = r[k]
  BY <1>1, <1>6 DEF P
<1> QED BY <1>1, <1>7 DEF OneShot, r, n

(* A page adds its rows, or none.                                          *)
LEMMA ReadsOrNot ==
  ASSUME NEW s, NEW p, NEW total
  PROVE  \/ ReadPage(s, p, total).out = s.out
         \/ /\ IsData(p) /\ Decodable(p, s.dict)
            /\ ReadPage(s, p, total).out = s.out \o PageRows(p, s.dict)
<1>1. CASE IsData(p) /\ Decodable(p, s.dict)
  BY <1>1 DEF ReadPage
<1>2. CASE ~(IsData(p) /\ Decodable(p, s.dict))
  BY <1>2 DEF ReadPage
<1> QED BY <1>1, <1>2

LEMMA ReadsOn ==
  ASSUME NEW s, NEW p, NEW total, ~s.err, ~s.done
  PROVE  LET t == ReadPage(s, p, total)
         IN  /\ t.done = (Len(t.out) >= total)
             /\ t.dict = IF p.kind = "dict" THEN p.vals ELSE s.dict
             /\ t.out = IF IsData(p) /\ Decodable(p, s.dict) THEN s.out \o PageRows(p, s.dict)
                       ELSE s.out
             /\ t.err <=> p.kind = "bad" \/ (IsData(p) /\ ~Decodable(p, s.dict))
<1> DEFINE ok  == IsData(p) => Decodable(p, s.dict)
           out == IF IsData(p) /\ ok THEN s.out \o PageRows(p, s.dict) ELSE s.out
           t   == ReadPage(s, p, total)
<1>1. t = [out  |-> out, dict |-> IF p.kind = "dict" THEN p.vals ELSE s.dict,
           err  |-> p.kind = "bad" \/ ~ok, done |-> Len(out) >= total]
  BY DEF ReadPage
<1>2. out = IF IsData(p) /\ Decodable(p, s.dict) THEN s.out \o PageRows(p, s.dict) ELSE s.out
  OBVIOUS
<1>3. ~ok <=> IsData(p) /\ ~Decodable(p, s.dict)
  OBVIOUS
<1> HIDE DEF t, out, ok
<1>4. /\ t.out = out /\ t.done = (Len(out) >= total)
      /\ t.dict = IF p.kind = "dict" THEN p.vals ELSE s.dict
      /\ t.err = (p.kind = "bad" \/ ~ok)
  BY <1>1
<1>5. t.err <=> p.kind = "bad" \/ (IsData(p) /\ ~Decodable(p, s.dict))
  BY <1>3, <1>4
<1> QED BY <1>2, <1>4, <1>5 DEF t

(* Rows once read stay at the front.                                       *)
LEMMA KeepsFront ==
  ASSUME NEW pages, IntPages(pages), NEW total \in Int, NEW k \in 0..Len(pages)
  PROVE  LET s == After(pages, total)[k].out
             t == OneShot(pages, total).out
         IN  /\ s \in Seq(Int) /\ t \in Seq(Int) /\ Len(s) <= Len(t)
             /\ \A i \in 1..Len(s) : t[i] = s[i]
<1> DEFINE n == Len(pages)
           r == After(pages, total)
           m == n - k
           Front(s, t) == /\ s \in Seq(Int) /\ t \in Seq(Int) /\ Len(s) <= Len(t)
                          /\ \A i \in 1..Len(s) : t[i] = s[i]
           P == {i \in 0..m : Front(r[k].out, r[k + i].out)}
<1>1. n \in Nat /\ m \in Nat /\ k \in 0..n /\ k + 0 = k /\ k + m = n
  BY DEF IntPages
<1>2. /\ \A i \in 1..n : r[i] = ReadPage(r[i - 1], pages[i], total)
      /\ \A i \in 0..n : r[i] \in ReaderStates
      /\ \A i \in 1..n : pages[i].vals \in Seq(Int)
  BY AfterPages DEF IntPages
<1> HIDE DEF r, n, m
<1>3. \A i \in 0..n : r[i].out \in Seq(Int) /\ r[i].dict \in Seq(Int)
  BY <1>2 DEF ReaderStates
<1>4. 0 \in P
  <2>1. r[k].out \in Seq(Int)
    BY <1>1, <1>3
  <2>2. Front(r[k].out, r[k].out)
    BY <2>1
  <2> HIDE DEF Front
  <2> QED BY <1>1, <2>2
<1>5. ASSUME NEW i \in 0..(m - 1), i \in P PROVE i + 1 \in P
  <2> DEFINE j == k + i + 1
             s == r[k].out
             t == r[j - 1].out
             u == r[j].out
  <2>1. j \in 1..n /\ j - 1 = k + i /\ i + 1 \in 0..m /\ k + (i + 1) = j /\ j - 1 \in 0..n /\ j \in 0..n
    BY <1>1 DEF m
  <2> HIDE DEF j
  <2>2. r[j] = ReadPage(r[j - 1], pages[j], total) /\ Front(s, t)
    BY <1>2, <1>5, <2>1
  <2>3. t \in Seq(Int) /\ r[j - 1].dict \in Seq(Int) /\ u \in Seq(Int)
    BY <1>3, <2>1
  <2>4. u = t \/ \E new \in Seq(Int) : u = t \o new
    <3> DEFINE p == pages[j]
               d == r[j - 1].dict
    <3>1. IsData(p) /\ Decodable(p, d) => PageRows(p, d) \in Seq(Int)
      BY <1>2, <2>1, <2>3, PageRowsType
    <3>2. \/ ReadPage(r[j - 1], pages[j], total).out = r[j - 1].out
          \/ /\ IsData(pages[j]) /\ Decodable(pages[j], r[j - 1].dict)
             /\ ReadPage(r[j - 1], pages[j], total).out
                  = r[j - 1].out \o PageRows(pages[j], r[j - 1].dict)
      BY ReadsOrNot
    <3>3. u = t \/ (IsData(p) /\ Decodable(p, d) /\ u = t \o PageRows(p, d))
      BY <2>2, <3>2
    <3> HIDE DEF p, d, u, t
    <3> QED BY <3>1, <3>3
  <2> HIDE DEF s, t, u
  <2>5. Front(s, u)
    <3>1. CASE u = t
      BY <2>2, <3>1
    <3>2. CASE \E new \in Seq(Int) : u = t \o new
      <4>1. PICK new \in Seq(Int) : u = t \o new
        BY <3>2
      <4>2. /\ Len(u) = Len(t) + Len(new) /\ Len(new) \in Nat /\ Len(t) \in Nat
            /\ \A x \in 1..Len(t) : u[x] = t[x]
        BY <2>3, <4>1
      <4>3. \A x \in 1..Len(s) : x \in 1..Len(t)
        BY <2>2, <4>2
      <4>4. Len(s) <= Len(u)
        <5>1. Len(s) \in Nat
          BY <2>2
        <5> QED BY <2>2, <4>2, <5>1
      <4> QED BY <2>2, <2>3, <4>2, <4>3, <4>4
    <3> QED BY <2>4, <3>1, <3>2
  <2> HIDE DEF Front
  <2> QED BY <2>1, <2>5 DEF s, u
<1> HIDE DEF P
<1>6. \A i \in 0..m : i \in P
  BY <1>1, <1>4, <1>5, Climb
<1>7. Front(r[k].out, r[k + m].out)
  <2> HIDE DEF Front
  <2>1. m \in P
    BY <1>1, <1>6
  <2> QED BY <2>1 DEF P
<1> QED BY <1>1, <1>7 DEF OneShot, r, n

-----------------------------------------------------------------------------
(* The rows of a page that are pushed.                                     *)

(* The rows pushed from the first i rows of s.                             *)
Picks(s, P) ==
  LET upTo[i \in 0..Len(s)] ==
        IF i = 0 THEN << >>
        ELSE IF i \in P THEN Append(upTo[i - 1], s[i]) ELSE upTo[i - 1]
  IN  upTo

LEMMA SelectedPicks ==
  ASSUME NEW s, NEW P PROVE Selected(s, P) = Picks(s, P)[Len(s)]
  BY DEF Selected, Picks

(* Row by row.                                                             *)
LEMMA PicksSteps ==
  ASSUME NEW s \in Seq(Int), NEW P
  PROVE  /\ Picks(s, P) \in [0..Len(s) -> Seq(Int)]
         /\ Picks(s, P)[0] = << >>
         /\ \A k \in 1..Len(s) :
              Picks(s, P)[k] = IF k \in P THEN Append(Picks(s, P)[k - 1], s[k])
                               ELSE Picks(s, P)[k - 1]
<1> DEFINE n == Len(s)
           g == [k \in 1..n |-> [q \in Seq(Int) |-> IF k \in P THEN Append(q, s[k]) ELSE q]]
           body(f) == [i \in 0..n |-> IF i = 0 THEN << >>
                                      ELSE IF i \in P THEN Append(f[i - 1], s[i]) ELSE f[i - 1]]
<1>1. n \in Nat /\ \A k \in 1..n : s[k] \in Int
  OBVIOUS
<1> HIDE DEF n
<1>2. \A k \in 1..n, q \in Seq(Int) : (IF k \in P THEN Append(q, s[k]) ELSE q) \in Seq(Int)
  BY <1>1
<1>3. g \in [1..n -> [Seq(Int) -> Seq(Int)]]
  BY <1>2
<1>4. PICK f \in [0..n -> Seq(Int)] : f[0] = << >> /\ \A k \in 1..n : f[k] = g[k][f[k - 1]]
  <2> DEFINE S == Seq(Int)
             a == << >>
  <2>1. n \in Nat /\ a \in S /\ g \in [1..n -> [S -> S]]
    BY <1>1, <1>3
  <2> HIDE DEF g, S, a
  <2>2. \E f \in [0..n -> S] : ReadsBelow(f, n, a, g)
    BY <2>1, Recursion
  <2> QED BY <2>2 DEF S, a, ReadsBelow
<1>5. f = body(f)
  <2>1. ASSUME NEW k \in 1..n PROVE f[k] = IF k \in P THEN Append(f[k - 1], s[k]) ELSE f[k - 1]
    <3>1. k \in 1..n /\ f[k - 1] \in Seq(Int)
      BY <1>1
    <3> QED BY <1>4, <3>1
  <2>2. ASSUME NEW k \in 0..n PROVE f[k] = body(f)[k]
    <3>1. CASE k = 0
      BY <1>4, <3>1
    <3>2. CASE k # 0
      <4>1. k \in 1..n
        BY <1>1, <3>2
      <4> QED BY <2>1, <3>2, <4>1
    <3> QED BY <3>1, <3>2
  <2> HIDE DEF g
  <2>3. DOMAIN body(f) = 0..n /\ body(f) = [k \in 0..n |-> body(f)[k]]
    OBVIOUS
  <2> HIDE DEF body
  <2> QED BY <1>4, <2>2, <2>3
<1>6. Picks(s, P) = body(Picks(s, P))
  <2>1. Picks(s, P) = CHOOSE h : h = body(h)
    BY DEF Picks, n
  <2> HIDE DEF body
  <2> QED BY <1>5, <2>1
<1> DEFINE h == Picks(s, P)
<1> HIDE DEF h
<1>7. /\ h[0] = << >>
      /\ \A k \in 1..n : h[k] = IF k \in P THEN Append(h[k - 1], s[k]) ELSE h[k - 1]
      /\ h = [k \in 0..n |-> h[k]]
  <2>1. h = [k \in 0..n |-> IF k = 0 THEN << >>
                            ELSE IF k \in P THEN Append(h[k - 1], s[k]) ELSE h[k - 1]]
    BY <1>6 DEF h
  <2>2. 0 \in 0..n /\ \A k \in 1..n : k \in 0..n /\ k # 0
    BY <1>1
  <2> QED BY <2>1, <2>2
<1>8. \A k \in 0..n : h[k] \in Seq(Int)
  <2> DEFINE D == {k \in 0..n : h[k] \in Seq(Int)}
  <2>1. 0 \in D
    <3>1. << >> \in Seq(Int) /\ 0 \in 0..n
      BY <1>1
    <3> QED BY <1>7, <3>1
  <2>2. ASSUME NEW k \in 0..(n - 1), k \in D PROVE k + 1 \in D
    <3> DEFINE j == k + 1
    <3>1. j \in 1..n /\ j - 1 = k /\ j \in 0..n
      BY <1>1
    <3> HIDE DEF j
    <3>2. h[j] = IF j \in P THEN Append(h[k], s[j]) ELSE h[k]
      BY <1>7, <3>1
    <3>3. h[j] \in Seq(Int)
      BY <1>1, <2>2, <3>1, <3>2
    <3> QED BY <3>1, <3>3 DEF j
  <2> HIDE DEF D
  <2>3. \A k \in 0..n : k \in D
    BY <1>1, <2>1, <2>2, Climb
  <2> QED BY <2>3 DEF D
<1> QED BY <1>1, <1>7, <1>8 DEF h, n

LEMMA SelectedType ==
  ASSUME NEW s \in Seq(Int), NEW P PROVE Selected(s, P) \in Seq(Int)
<1>1. Len(s) \in 0..Len(s)
  OBVIOUS
<1> QED BY <1>1, PicksSteps, SelectedPicks

(* What is pushed depends on the rows and positions so far.                *)
Alike(s, t, P, Q, n) ==
  /\ n <= Len(s) /\ n <= Len(t)
  /\ \A i \in 1..n : s[i] = t[i] /\ (i \in P <=> i \in Q)

LEMMA PicksAgree ==
  ASSUME NEW s \in Seq(Int), NEW t \in Seq(Int), NEW P, NEW Q, NEW n \in Nat, Alike(s, t, P, Q, n)
  PROVE  \A k \in 0..n : Picks(s, P)[k] = Picks(t, Q)[k]
<1> DEFINE ls == Len(s)
           lt == Len(t)
           f == Picks(s, P)
           g == Picks(t, Q)
           D == {k \in 0..n : f[k] = g[k]}
<1>1. ls \in Nat /\ lt \in Nat /\ n <= ls /\ n <= lt
  BY DEF Alike
<1>8. \A i \in 1..n : s[i] = t[i] /\ (i \in P <=> i \in Q)
  BY DEF Alike
<1>2. f[0] = << >> /\ g[0] = << >>
  BY PicksSteps
<1>3. \A k \in 1..ls : f[k] = IF k \in P THEN Append(f[k - 1], s[k]) ELSE f[k - 1]
  BY PicksSteps
<1>4. \A k \in 1..lt : g[k] = IF k \in Q THEN Append(g[k - 1], t[k]) ELSE g[k - 1]
  BY PicksSteps
<1> HIDE DEF f, g, ls, lt
<1>5. 0 \in D
  BY <1>2
<1>6. ASSUME NEW k \in 0..(n - 1), k \in D PROVE k + 1 \in D
  <2> DEFINE j == k + 1
  <2>1. j \in 1..n /\ j \in 1..ls /\ j \in 1..lt /\ j - 1 = k /\ j \in 0..n
    BY <1>1
  <2> HIDE DEF j
  <2>2. f[k] = g[k]
    BY <1>6
  <2>3. f[j] = g[j]
    BY <1>3, <1>4, <1>8, <2>1, <2>2
  <2> QED BY <2>1, <2>3 DEF j
<1> HIDE DEF D
<1>7. \A k \in 0..n : k \in D
  BY <1>5, <1>6, Climb
<1> QED BY <1>7 DEF D, f, g

LEMMA SelectedSame ==
  ASSUME NEW s \in Seq(Int), NEW P, NEW Q, \A i \in 1..Len(s) : i \in P <=> i \in Q
  PROVE  Selected(s, P) = Selected(s, Q)
<1> DEFINE n == Len(s)
<1>1. n \in Nat /\ n <= Len(s) /\ n \in 0..n /\ \A i \in 1..n : s[i] = s[i] /\ (i \in P <=> i \in Q)
  OBVIOUS
<1> HIDE DEF n
<1>2. Alike(s, s, P, Q, n)
  BY <1>1 DEF Alike
<1>3. \A k \in 0..n : Picks(s, P)[k] = Picks(s, Q)[k]
  BY <1>1, <1>2, PicksAgree
<1> QED BY <1>1, <1>3, SelectedPicks DEF n

(* Rows of one sequence behind those of another one.                       *)
LEMMA PushBehind ==
  ASSUME NEW s \in Seq(Int), NEW t \in Seq(Int), NEW v \in Int
  PROVE  Append(s \o t, v) = s \o Append(t, v)
<1> DEFINE l == Append(s \o t, v)
           r == s \o Append(t, v)
           ls == Len(s)
           lt == Len(t)
<1>1. ls \in Nat /\ lt \in Nat /\ l \in Seq(Int) /\ r \in Seq(Int)
  OBVIOUS
<1>2. Len(l) = ls + lt + 1 /\ Len(r) = ls + lt + 1
  OBVIOUS
<1>3. ASSUME NEW i \in 1..(ls + lt + 1) PROVE l[i] = r[i]
  <2>1. CASE i <= ls
    BY <2>1
  <2>2. CASE i > ls /\ i <= ls + lt
    BY <2>2
  <2>3. CASE i = ls + lt + 1
    BY <2>3
  <2> QED BY <1>1, <2>1, <2>2, <2>3
<1> HIDE DEF l, r, ls, lt
<1> QED BY <1>1, <1>2, <1>3, SeqEqual DEF l, r

Joins(s, t, P, Q, R) ==
  /\ \A i \in 1..Len(s) : i \in P <=> i \in Q
  /\ \A i \in 1..Len(t) : Len(s) + i \in P <=> i \in R

LEMMA SelectedConcat ==
  ASSUME NEW s \in Seq(Int), NEW t \in Seq(Int), NEW P, NEW Q, NEW R, Joins(s, t, P, Q, R)
  PROVE  Selected(s \o t, P) = Selected(s, Q) \o Selected(t, R)
<1> DEFINE st == s \o t
           ls == Len(s)
           lt == Len(t)
           f == Picks(st, P)
           g == Picks(t, R)
           front == Selected(s, Q)
           D == {k \in 0..lt : f[ls + k] = front \o g[k]}
<1>1. /\ ls \in Nat /\ lt \in Nat /\ st \in Seq(Int) /\ Len(st) = ls + lt
      /\ \A i \in 1..ls : st[i] = s[i]
      /\ \A i \in 1..lt : st[ls + i] = t[i]
  OBVIOUS
<1>2. \A k \in 0..ls : f[k] = Picks(s, Q)[k]
  <2>1. \A i \in 1..ls : i \in P <=> i \in Q
    BY DEF Joins
  <2>2. ls <= Len(s)
    OBVIOUS
  <2> HIDE DEF st, ls
  <2>3. ls <= Len(st) /\ \A i \in 1..ls : st[i] = s[i] /\ (i \in P <=> i \in Q)
    BY <1>1, <2>1
  <2>4. /\ st \in Seq(Int) /\ ls \in Nat /\ ls <= Len(st) /\ ls <= Len(s)
        /\ \A i \in 1..ls : st[i] = s[i] /\ (i \in P <=> i \in Q)
    BY <1>1, <2>2, <2>3
  <2>5. Alike(st, s, P, Q, ls)
    BY <2>4 DEF Alike
  <2>6. \A k \in 0..ls : Picks(st, P)[k] = Picks(s, Q)[k]
    BY <2>4, <2>5, PicksAgree
  <2> QED BY <2>6
<1>3. f[ls] = front
  BY <1>1, <1>2, SelectedPicks
<1>4. \A k \in 1..(ls + lt) : f[k] = IF k \in P THEN Append(f[k - 1], st[k]) ELSE f[k - 1]
  <2>1. st \in Seq(Int) /\ Len(st) = ls + lt
    BY <1>1
  <2> HIDE DEF st, ls, lt
  <2>2. \A k \in 1..Len(st) : Picks(st, P)[k] = IF k \in P THEN Append(Picks(st, P)[k - 1], st[k])
                                               ELSE Picks(st, P)[k - 1]
    BY <2>1, PicksSteps
  <2> QED BY <2>1, <2>2
<1>5. /\ g[0] = << >> /\ g \in [0..lt -> Seq(Int)]
      /\ \A k \in 1..lt : g[k] = IF k \in R THEN Append(g[k - 1], t[k]) ELSE g[k - 1]
  BY PicksSteps
<1>6. front \in Seq(Int)
  BY SelectedType
<1>7. \A i \in 1..lt : ls + i \in P <=> i \in R
  BY DEF Joins
<1>8. \A i \in 1..lt : t[i] \in Int
  OBVIOUS
<1>9. f[ls + lt] = Selected(st, P) /\ g[lt] = Selected(t, R)
  BY <1>1, SelectedPicks
<1> HIDE DEF f, g, ls, lt, st, front
<1>10. 0 \in D
  <2>1. ls + 0 = ls /\ 0 \in 0..lt
    BY <1>1
  <2>2. front \o << >> = front
    BY <1>6
  <2>3. f[ls + 0] = front \o g[0]
    BY <1>3, <1>5, <2>1, <2>2
  <2> QED BY <2>1, <2>3
<1>11. ASSUME NEW k \in 0..(lt - 1), k \in D PROVE k + 1 \in D
  <2> DEFINE j == k + 1
  <2>1. j \in 1..lt /\ j - 1 = k /\ j \in 0..lt /\ k \in 0..lt
    BY <1>1
  <2> HIDE DEF j
  <2>2. ls + j \in 1..(ls + lt) /\ ls + j - 1 = ls + k
    BY <1>1, <2>1
  <2>3. f[ls + k] = front \o g[k]
    BY <1>11
  <2>4. f[ls + j] = IF j \in R THEN Append(f[ls + k], t[j]) ELSE f[ls + k]
    <3> DEFINE m == ls + j
    <3>1. m \in 1..(ls + lt) /\ m - 1 = ls + k
      BY <1>1, <2>1, <2>2
    <3>2. (m \in P <=> j \in R) /\ st[m] = t[j]
      BY <1>1, <1>7, <2>1
    <3> HIDE DEF m
    <3>3. f[m] = IF m \in P THEN Append(f[m - 1], st[m]) ELSE f[m - 1]
      BY <1>4, <3>1
    <3>4. f[m] = IF j \in R THEN Append(f[ls + k], t[j]) ELSE f[ls + k]
      BY <3>1, <3>2, <3>3
    <3> QED BY <3>4 DEF m
  <2>5. g[j] = IF j \in R THEN Append(g[k], t[j]) ELSE g[k]
    BY <1>5, <2>1
  <2>6. g[k] \in Seq(Int) /\ t[j] \in Int
    BY <1>5, <1>8, <2>1
  <2>7. Append(front \o g[k], t[j]) = front \o Append(g[k], t[j])
    <3> DEFINE q == g[k]
               v == t[j]
    <3>1. q \in Seq(Int) /\ v \in Int
      BY <2>6
    <3> HIDE DEF q, v
    <3>2. Append(front \o q, v) = front \o Append(q, v)
      BY <1>6, <3>1, PushBehind
    <3> QED BY <3>2 DEF q, v
  <2>8. f[ls + j] = front \o g[j]
    BY <2>3, <2>4, <2>5, <2>7
  <2> QED BY <2>1, <2>8 DEF j
<1> HIDE DEF D
<1>12. \A k \in 0..lt : k \in D
  BY <1>1, <1>10, <1>11, Climb
<1>13. lt \in D
  BY <1>1, <1>12
<1>14. f[ls + lt] = front \o g[lt]
  BY <1>13 DEF D
<1> QED BY <1>9, <1>14 DEF st, front

(* The rows pushed from a stretch of s come behind those pushed before it. *)
Stretch(s, t, P, R, a) ==
  /\ a + Len(t) <= Len(s)
  /\ \A i \in 1..Len(t) : s[a + i] = t[i] /\ (a + i \in P <=> i \in R)

LEMMA PicksStretch ==
  ASSUME NEW s \in Seq(Int), NEW t \in Seq(Int), NEW P, NEW R, NEW a \in Nat,
         Stretch(s, t, P, R, a)
  PROVE  Picks(s, P)[a + Len(t)] = Picks(s, P)[a] \o Selected(t, R)
<1> DEFINE ls == Len(s)
           lt == Len(t)
           f == Picks(s, P)
           g == Picks(t, R)
           front == f[a]
           D == {k \in 0..lt : f[a + k] = front \o g[k]}
<1>1. /\ ls \in Nat /\ lt \in Nat /\ a + lt <= ls
      /\ \A i \in 1..lt : s[a + i] = t[i] /\ (a + i \in P <=> i \in R)
  BY DEF Stretch
<1>2. /\ f \in [0..ls -> Seq(Int)]
      /\ \A k \in 1..ls : f[k] = IF k \in P THEN Append(f[k - 1], s[k]) ELSE f[k - 1]
  BY PicksSteps
<1>3. /\ g[0] = << >> /\ g \in [0..lt -> Seq(Int)]
      /\ \A k \in 1..lt : g[k] = IF k \in R THEN Append(g[k - 1], t[k]) ELSE g[k - 1]
  BY PicksSteps
<1>4. \A i \in 1..lt : t[i] \in Int
  OBVIOUS
<1>5. g[lt] = Selected(t, R)
  BY SelectedPicks
<1> HIDE DEF f, g, ls, lt
<1>6. a \in 0..ls
  BY <1>1
<1>7. front \in Seq(Int)
  BY <1>2, <1>6
<1> HIDE DEF front
<1>8. 0 \in D
  <2>1. a + 0 = a /\ 0 \in 0..lt
    BY <1>1
  <2>2. front \o << >> = front
    BY <1>7
  <2>3. f[a + 0] = front \o g[0]
    BY <1>3, <2>1, <2>2 DEF front
  <2> QED BY <2>1, <2>3
<1>9. ASSUME NEW k \in 0..(lt - 1), k \in D PROVE k + 1 \in D
  <2> DEFINE j == k + 1
             m == a + j
  <2>1. j \in 1..lt /\ j - 1 = k /\ j \in 0..lt /\ k \in 0..lt
    BY <1>1
  <2> HIDE DEF j
  <2>2. m \in 1..ls /\ m - 1 = a + k
    BY <1>1, <2>1
  <2>3. f[a + k] = front \o g[k]
    BY <1>9
  <2>4. (m \in P <=> j \in R) /\ s[m] = t[j]
    BY <1>1, <2>1
  <2> HIDE DEF m
  <2>5. f[m] = IF m \in P THEN Append(f[m - 1], s[m]) ELSE f[m - 1]
    BY <1>2, <2>2
  <2>6. f[m] = IF j \in R THEN Append(f[a + k], t[j]) ELSE f[a + k]
    BY <2>2, <2>4, <2>5
  <2>7. g[j] = IF j \in R THEN Append(g[k], t[j]) ELSE g[k]
    BY <1>3, <2>1
  <2>8. g[k] \in Seq(Int) /\ t[j] \in Int
    BY <1>3, <1>4, <2>1
  <2>9. Append(front \o g[k], t[j]) = front \o Append(g[k], t[j])
    <3> DEFINE q == g[k]
               v == t[j]
    <3>1. q \in Seq(Int) /\ v \in Int
      BY <2>8
    <3> HIDE DEF q, v
    <3>2. Append(front \o q, v) = front \o Append(q, v)
      BY <1>7, <3>1, PushBehind
    <3> QED BY <3>2 DEF q, v
  <2>10. f[m] = front \o g[j]
    BY <2>3, <2>6, <2>7, <2>9
  <2> QED BY <2>1, <2>10 DEF j, m
<1> HIDE DEF D
<1>10. \A k \in 0..lt : k \in D
  BY <1>1, <1>8, <1>9, Climb
<1>11. lt \in D
  BY <1>1, <1>10
<1>12. f[a + lt] = front \o g[lt]
  BY <1>11 DEF D
<1> QED BY <1>5, <1>12 DEF f, front, lt

LEMMA SelectedEmpty ==
  ASSUME NEW P PROVE Selected(<< >>, P) = << >>
<1> DEFINE s == << >>
<1>1. s \in Seq(Int) /\ Len(s) = 0 /\ s = << >>
  OBVIOUS
<1> HIDE DEF s
<1>2. Picks(s, P)[0] = << >>
  BY <1>1, PicksSteps
<1> QED BY <1>1, <1>2, SelectedPicks

LEMMA SelectedNone ==
  ASSUME NEW s \in Seq(Int) PROVE Selected(s, {}) = << >>
<1> DEFINE n == Len(s)
           f == Picks(s, {})
           D == {k \in 0..n : f[k] = << >>}
<1>1. n \in Nat /\ f[0] = << >> /\ \A k \in 1..n : f[k] = f[k - 1]
  BY PicksSteps
<1>2. f[n] = Selected(s, {})
  BY SelectedPicks
<1> HIDE DEF f, n
<1>3. 0 \in D
  BY <1>1
<1>4. ASSUME NEW k \in 0..(n - 1), k \in D PROVE k + 1 \in D
  <2> DEFINE j == k + 1
  <2>1. j \in 1..n /\ j - 1 = k /\ j \in 0..n
    BY <1>1
  <2> HIDE DEF j
  <2>2. f[j] = << >>
    BY <1>1, <1>4, <2>1
  <2> QED BY <2>1, <2>2 DEF j
<1> HIDE DEF D
<1>5. \A k \in 0..n : k \in D
  BY <1>1, <1>3, <1>4, Climb
<1>6. n \in D
  BY <1>1, <1>5
<1> QED BY <1>2, <1>6 DEF D

(* As many rows are pushed as there are positions.                         *)
LEMMA SelectedLen ==
  ASSUME NEW s \in Seq(Int), NEW P
  PROVE  Len(Selected(s, P)) = Cardinality({i \in 1..Len(s) : i \in P})
<1> DEFINE n == Len(s)
           f == Picks(s, P)
           C(k) == {i \in 1..k : i \in P}
           D == {k \in 0..n : IsFiniteSet(C(k)) /\ Len(f[k]) = Cardinality(C(k))}
<1>1. n \in Nat /\ \A i \in 1..n : s[i] \in Int
  OBVIOUS
<1>2. /\ f[0] = << >> /\ f \in [0..n -> Seq(Int)]
      /\ \A k \in 1..n : f[k] = IF k \in P THEN Append(f[k - 1], s[k]) ELSE f[k - 1]
  BY PicksSteps
<1>3. f[n] = Selected(s, P)
  BY SelectedPicks
<1> HIDE DEF f, n
<1>4. 0 \in D
  <2>1. C(0) = {} /\ 0 \in 0..n
    BY <1>1
  <2>2. IsFiniteSet({}) /\ Cardinality({}) = 0
    BY FS_EmptySet
  <2>3. Len(f[0]) = 0
    BY <1>2
  <2> HIDE DEF C
  <2> QED BY <1>1, <2>1, <2>2, <2>3
<1>5. ASSUME NEW k \in 0..(n - 1), k \in D PROVE k + 1 \in D
  <2> DEFINE j == k + 1
  <2>1. j \in 1..n /\ j - 1 = k /\ j \in 0..n /\ k \in 0..n
    BY <1>1
  <2>2. IsFiniteSet(C(k)) /\ Len(f[k]) = Cardinality(C(k)) /\ f[k] \in Seq(Int)
    BY <1>2, <1>5, <2>1
  <2>3. j \notin C(k)
    BY <2>1
  <2>4. C(j) = IF j \in P THEN C(k) \cup {j} ELSE C(k)
    BY <2>1
  <2>5. f[j] = IF j \in P THEN Append(f[k], s[j]) ELSE f[k]
    <3> HIDE DEF j
    <3> QED BY <1>2, <2>1
  <2> HIDE DEF j, C
  <2>6. IsFiniteSet(C(k) \cup {j}) /\ Cardinality(C(k) \cup {j}) = Cardinality(C(k)) + 1
    BY <2>2, <2>3, FS_AddElement
  <2>7. Len(Append(f[k], s[j])) = Len(f[k]) + 1
    BY <1>1, <2>1, <2>2
  <2>8. IsFiniteSet(C(j)) /\ Len(f[j]) = Cardinality(C(j))
    BY <2>2, <2>4, <2>5, <2>6, <2>7
  <2> QED BY <2>1, <2>8 DEF j
<1> HIDE DEF D
<1>6. \A k \in 0..n : k \in D
  BY <1>1, <1>4, <1>5, Climb
<1>7. n \in D
  BY <1>1, <1>6
<1> QED BY <1>3, <1>7 DEF D, n

-----------------------------------------------------------------------------
(* Counts of rows: a running sum of naturals has a value, and only grows.  *)
LEMMA SumSteps ==
  ASSUME NEW s \in Seq(Nat)
  PROVE  /\ RunningSum(s) \in [0..Len(s) -> Nat]
         /\ RunningSum(s)[0] = 0
         /\ \A k \in 1..Len(s) : RunningSum(s)[k] = RunningSum(s)[k - 1] + s[k]
<1> DEFINE n == Len(s)
           g == [k \in 1..n |-> [q \in Nat |-> q + s[k]]]
           body(f) == [k \in 0..n |-> IF k = 0 THEN 0 ELSE f[k - 1] + s[k]]
<1>1. n \in Nat /\ \A k \in 1..n : s[k] \in Nat
  OBVIOUS
<1> HIDE DEF n
<1>2. g \in [1..n -> [Nat -> Nat]]
  BY <1>1
<1>3. PICK f \in [0..n -> Nat] : f[0] = 0 /\ \A k \in 1..n : f[k] = g[k][f[k - 1]]
  <2> DEFINE S == Nat
             a == 0
  <2>1. n \in Nat /\ a \in S /\ g \in [1..n -> [S -> S]]
    BY <1>1, <1>2
  <2> HIDE DEF g, S, a
  <2>2. \E f \in [0..n -> S] : ReadsBelow(f, n, a, g)
    BY <2>1, Recursion
  <2> QED BY <2>2 DEF S, a, ReadsBelow
<1>4. f = body(f)
  <2>1. ASSUME NEW k \in 1..n PROVE f[k] = f[k - 1] + s[k]
    <3>1. k \in 1..n /\ f[k - 1] \in Nat
      BY <1>1
    <3> QED BY <1>3, <3>1
  <2>2. ASSUME NEW k \in 0..n PROVE f[k] = body(f)[k]
    <3>1. CASE k = 0
      BY <1>3, <3>1
    <3>2. CASE k # 0
      <4>1. k \in 1..n
        BY <1>1, <3>2
      <4> QED BY <2>1, <3>2, <4>1
    <3> QED BY <3>1, <3>2
  <2> HIDE DEF g
  <2>3. DOMAIN body(f) = 0..n /\ body(f) = [k \in 0..n |-> body(f)[k]]
    OBVIOUS
  <2> HIDE DEF body
  <2> QED BY <1>3, <2>2, <2>3
<1>5. RunningSum(s) = body(RunningSum(s))
  <2>1. RunningSum(s) = CHOOSE h : h = body(h)
    BY DEF RunningSum, n
  <2> HIDE DEF body
  <2> QED BY <1>4, <2>1
<1> DEFINE h == RunningSum(s)
<1> HIDE DEF h
<1>6. /\ h[0] = 0
      /\ \A k \in 1..n : h[k] = h[k - 1] + s[k]
      /\ h = [k \in 0..n |-> h[k]]
  <2>1. h = [k \in 0..n |-> IF k = 0 THEN 0 ELSE h[k - 1] + s[k]]
    BY <1>5 DEF h
  <2>2. 0 \in 0..n /\ \A k \in 1..n : k \in 0..n /\ k # 0
    BY <1>1
  <2> QED BY <2>1, <2>2
<1>7. \A k \in 0..n : h[k] \in Nat
  <2> DEFINE D == {k \in 0..n : h[k] \in Nat}
  <2>1. 0 \in D
    BY <1>1, <1>6
  <2>2. ASSUME NEW k \in 0..(n - 1), k \in D PROVE k + 1 \in D
    <3> DEFINE j == k + 1
    <3>1. j \in 1..n /\ j - 1 = k /\ j \in 0..n
      BY <1>1
    <3> HIDE DEF j
    <3>2. h[j] = h[k] + s[j] /\ h[k] \in Nat /\ s[j] \in Nat
      BY <1>1, <1>6, <2>2, <3>1
    <3>3. h[j] \in Nat
      BY <3>2
    <3> QED BY <3>1, <3>3 DEF j
  <2> HIDE DEF D
  <2>3. \A k \in 0..n : k \in D
    BY <1>1, <2>1, <2>2, Climb
  <2> QED BY <2>3 DEF D
<1> QED BY <1>1, <1>6, <1>7 DEF h, n

LEMMA SumGrows ==
  ASSUME NEW s \in Seq(Nat), NEW j \in 0..Len(s), NEW k \in j..Len(s)
  PROVE  RunningSum(s)[j] <= RunningSum(s)[k]
<1> DEFINE n == Len(s)
           h == RunningSum(s)
           m == k - j
           D == {i \in 0..m : h[j] <= h[j + i]}
<1>1. n \in Nat /\ \A i \in 1..n : s[i] \in Nat
  OBVIOUS
<1>2. h \in [0..n -> Nat] /\ \A i \in 1..n : h[i] = h[i - 1] + s[i]
  BY SumSteps
<1>3. j \in 0..n /\ m \in Nat /\ j + m = k /\ k \in 0..n
  OBVIOUS
<1> HIDE DEF n, h, m
<1>4. 0 \in D
  BY <1>2, <1>3
<1>5. ASSUME NEW i \in 0..(m - 1), i \in D PROVE i + 1 \in D
  <2> DEFINE l == j + (i + 1)
  <2>1. l \in 1..n /\ l - 1 = j + i /\ i + 1 \in 0..m /\ j + i \in 0..n
    BY <1>1, <1>3
  <2> HIDE DEF l
  <2>2. h[l] = h[j + i] + s[l] /\ h[j + i] \in Nat /\ s[l] \in Nat /\ h[j] \in Nat
    BY <1>1, <1>2, <1>3, <2>1
  <2>3. h[j] <= h[l]
    BY <1>5, <2>2
  <2> QED BY <2>1, <2>3 DEF l
<1> HIDE DEF D
<1>6. \A i \in 0..m : i \in D
  BY <1>3, <1>4, <1>5, Climb
<1>7. m \in D
  BY <1>3, <1>6
<1>8. h[j] <= h[j + m]
  BY <1>7 DEF D
<1> QED BY <1>3, <1>8 DEF h

(* A sum goes on as its numbers do.                                        *)
LEMMA SumAgrees ==
  ASSUME NEW s \in Seq(Nat), NEW t \in Seq(Nat), NEW n \in Nat, n <= Len(s), n <= Len(t),
         \A i \in 1..n : s[i] = t[i]
  PROVE  \A k \in 0..n : RunningSum(s)[k] = RunningSum(t)[k]
<1> DEFINE ls == Len(s)
           lt == Len(t)
           f == RunningSum(s)
           g == RunningSum(t)
           D == {k \in 0..n : f[k] = g[k]}
<1>1. ls \in Nat /\ lt \in Nat /\ n <= ls /\ n <= lt
  OBVIOUS
<1>2. f[0] = 0 /\ g[0] = 0
  BY SumSteps
<1>3. \A k \in 1..ls : f[k] = f[k - 1] + s[k]
  BY SumSteps
<1>4. \A k \in 1..lt : g[k] = g[k - 1] + t[k]
  BY SumSteps
<1> HIDE DEF f, g, ls, lt
<1>5. 0 \in D
  BY <1>2
<1>6. ASSUME NEW k \in 0..(n - 1), k \in D PROVE k + 1 \in D
  <2> DEFINE j == k + 1
  <2>1. j \in 1..n /\ j \in 1..ls /\ j \in 1..lt /\ j - 1 = k /\ j \in 0..n
    BY <1>1
  <2> HIDE DEF j
  <2>2. f[k] = g[k]
    BY <1>6
  <2>3. f[j] = g[j]
    BY <1>3, <1>4, <2>1, <2>2
  <2> QED BY <2>1, <2>3 DEF j
<1> HIDE DEF D
<1>7. \A k \in 0..n : k \in D
  BY <1>5, <1>6, Climb
<1> QED BY <1>7 DEF D, f, g
=============================================================================
