---------------------------- MODULE Sidecar_proofs ----------------------------
(***************************************************************************)
(* Whoever consults a sidecar loses no row.  First the index of one file:  *)
(* what it answers is what a full scan of the present source answers, for  *)
(* any contents, page and group sizes, kinds, tokens, filter bits and      *)
(* number of rewrites and builds.  Then the dataset layer that picks files *)
(* by the summaries of their sidecars: pruning and pairing lose no file    *)
(* that holds a row the query asks for.                                    *)
(*                                                                         *)
(* The argument for the index: sorting the entries of a content and        *)
(* cutting them into row groups loses none and leaves them in key order    *)
(* (Sorting, Cutting); the lookups on a sequence in key order find exactly *)
(* the entries of the key (EqHitsAre, RangeHitsAre, CompositeHitsAre,      *)
(* LazyHitsAre); the rowsets of those entries read back as the rows filed  *)
(* under the key (FiledRows); and those are the rows a full scan finds     *)
(* (KeysSatisfy, BloomAnswers).  The invariant IndexInv says which version *)
(* of the source every body on disk or in memory is the body of.           *)
(***************************************************************************)
EXTENDS SidecarIndex, FilePruning, ChunkPages_proofs

-----------------------------------------------------------------------------
(* Sequences put one behind the other.                                     *)

Lengths(ss) == [p \in DOMAIN ss |-> Len(ss[p])]

(* The positions before each of the sequences, and behind the last one.    *)
Offsets(ss) == RunningSum(Lengths(ss))

LEMMA LengthsType ==
  ASSUME NEW S, NEW ss \in Seq(Seq(S))
  PROVE  /\ Len(ss) \in Nat /\ Lengths(ss) \in Seq(Nat) /\ Len(Lengths(ss)) = Len(ss)
         /\ \A k \in 1..Len(ss) : ss[k] \in Seq(S) /\ Lengths(ss)[k] = Len(ss[k])
<1> DEFINE n == Len(ss)
<1>1. n \in Nat /\ DOMAIN ss = 1..n /\ \A k \in 1..n : ss[k] \in Seq(S)
  OBVIOUS
<1> HIDE DEF n
<1>2. \A k \in 1..n : Len(ss[k]) \in Nat
  BY <1>1
<1>3. Lengths(ss) = [k \in 1..n |-> Len(ss[k])]
  BY <1>1 DEF Lengths
<1> DEFINE l == Lengths(ss)
<1>4. l \in [1..n -> Nat]
  BY <1>2, <1>3
<1> HIDE DEF l
<1>5. l \in Seq(Nat) /\ Len(l) = n
  BY <1>1, <1>4
<1> QED BY <1>1, <1>3, <1>5 DEF n, l

LEMMA OffsetsSteps ==
  ASSUME NEW S, NEW ss \in Seq(Seq(S))
  PROVE  /\ Offsets(ss) \in [0..Len(ss) -> Nat] /\ Offsets(ss)[0] = 0
         /\ \A k \in 1..Len(ss) : Offsets(ss)[k] = Offsets(ss)[k - 1] + Len(ss[k])
<1> DEFINE l == Lengths(ss)
           n == Len(ss)
<1>1. l \in Seq(Nat) /\ Len(l) = n /\ \A k \in 1..n : l[k] = Len(ss[k])
  BY LengthsType
<1> HIDE DEF l
<1>2. /\ RunningSum(l) \in [0..Len(l) -> Nat] /\ RunningSum(l)[0] = 0
      /\ \A k \in 1..Len(l) : RunningSum(l)[k] = RunningSum(l)[k - 1] + l[k]
  BY <1>1, SumSteps
<1>3. Offsets(ss) = RunningSum(l)
  BY DEF Offsets, l
<1> QED BY <1>1, <1>2, <1>3

(* Every position is in one of the sequences.                              *)
LEMMA Located ==
  ASSUME NEW S, NEW ss \in Seq(Seq(S))
  PROVE  \A r \in Nat : r < Offsets(ss)[Len(ss)] =>
           \E k \in 1..Len(ss) : Offsets(ss)[k - 1] <= r /\ r < Offsets(ss)[k]
<1> DEFINE n == Len(ss)
           o == Offsets(ss)
           Found(r, m) == \E k \in 1..m : o[k - 1] <= r /\ r < o[k]
           D == {m \in 0..n : \A r \in Nat : r < o[m] => Found(r, m)}
<1>1. n \in Nat /\ o \in [0..n -> Nat] /\ o[0] = 0
  BY OffsetsSteps, LengthsType
<1> HIDE DEF n, o
<1>2. 0 \in D
  <2>1. \A r \in Nat : ~(r < o[0])
    BY <1>1
  <2> QED BY <1>1, <2>1
<1>3. ASSUME NEW m \in 0..(n - 1), m \in D PROVE m + 1 \in D
  <2>1. m + 1 \in 0..n /\ m + 1 \in 1..(m + 1) /\ m + 1 - 1 = m /\ 1..m \subseteq 1..(m + 1)
    BY <1>1
  <2>2. SUFFICES ASSUME NEW r \in Nat, r < o[m + 1] PROVE Found(r, m + 1)
    BY <2>1
  <2>3. CASE r < o[m]
    <3>1. Found(r, m)
      BY <1>3, <2>3
    <3> QED BY <2>1, <3>1
  <2>4. CASE ~(r < o[m])
    <3>1. o[m] <= r
      BY <1>1, <2>4
    <3> DEFINE j == m + 1
    <3>2. j \in 1..(m + 1) /\ o[j - 1] <= r /\ r < o[j]
      BY <2>1, <2>2, <3>1
    <3> HIDE DEF j
    <3> QED BY <3>2
  <2> QED BY <2>3, <2>4
<1> HIDE DEF D
<1>4. \A m \in 0..n : m \in D
  BY <1>1, <1>2, <1>3, Climb
<1>5. n \in D
  BY <1>1, <1>4
<1> QED BY <1>5 DEF D, n, o

(* Appending the k-th of the sequences to those before it.                 *)
Appending(ss, q, k) == IF k = 1 THEN ss[1] ELSE q \o ss[k]

LEMMA FlattenSteps ==
  ASSUME NEW S, NEW ss \in Seq(Seq(S)), Len(ss) # 0
  PROVE  \E f \in [0..Len(ss) -> Seq(S)] :
           /\ \A k \in 1..Len(ss) : f[k] = Appending(ss, f[k - 1], k)
           /\ f[0] = << >>
           /\ FlattenSeq(ss) = f[Len(ss)]
<1> DEFINE n == Len(ss)
           Q == Seq(S)
           g == [k \in 1..n |-> [q \in Q |-> Appending(ss, q, k)]]
           a == << >>
           body(f) == [i \in 1..n |-> IF i = 1 THEN ss[i] ELSE f[i - 1] \o ss[i]]
<1>1. n \in Nat /\ n # 0 /\ \A k \in 1..n : ss[k] \in Q
  BY LengthsType
<1> HIDE DEF n
<1>2. \A k \in 1..n : \A q \in Q : Appending(ss, q, k) \in Q
  <2> TAKE k \in 1..n
  <2> TAKE q \in Q
  <2>1. q \o ss[k] \in Seq(S)
    BY <1>1, ConcatProperties
  <2>2. 1 \in 1..n
    BY <1>1
  <2> QED BY <1>1, <2>1, <2>2 DEF Appending
<1>3. g \in [1..n -> [Q -> Q]] /\ a \in Q
  BY <1>2
<1>4. PICK f \in [0..n -> Q] : f[0] = a /\ \A k \in 1..n : f[k] = g[k][f[k - 1]]
  <2> HIDE DEF g, Q, a
  <2>1. \E f \in [0..n -> Q] : ReadsBelow(f, n, a, g)
    BY <1>1, <1>3, Recursion
  <2> QED BY <2>1 DEF ReadsBelow
<1>5. \A k \in 1..n : f[k] = Appending(ss, f[k - 1], k)
  <2> TAKE k \in 1..n
  <2>1. k - 1 \in 0..n
    BY <1>1
  <2>2. f[k - 1] \in Q
    BY <2>1, <1>4
  <2> QED BY <1>4, <2>2
<1> DEFINE h == [i \in 1..n |-> f[i]]
<1>6. h = body(h)
  <2>1. ASSUME NEW i \in 1..n PROVE f[i] = IF i = 1 THEN ss[i] ELSE h[i - 1] \o ss[i]
    <3>1. CASE i = 1
      BY <3>1, <1>5 DEF Appending
    <3>2. CASE i # 1
      <4>1. i - 1 \in 1..n
        BY <1>1, <3>2
      <4> QED BY <4>1, <3>2, <1>5 DEF Appending
    <3> QED BY <3>1, <3>2
  <2> QED BY <2>1
<1> DEFINE F == CHOOSE w : w = body(w)
<1>7. F = body(F)
  <2> HIDE DEF body, h
  <2> QED BY <1>6
<1>8. FlattenSeq(ss) = F[n]
  BY <1>1 DEF FlattenSeq, n
<1> HIDE DEF F
<1>9. \A i \in 1..n : F[i] = IF i = 1 THEN ss[i] ELSE F[i - 1] \o ss[i]
  <2>1. F = [i \in 1..n |-> IF i = 1 THEN ss[i] ELSE F[i - 1] \o ss[i]]
    BY <1>7
  <2> QED BY <2>1
<1> DEFINE D == {m \in 0..n : m # 0 => F[m] = f[m]}
<1>10. 0 \in D
  BY <1>1
<1>11. ASSUME NEW m \in 0..(n - 1), m \in D PROVE m + 1 \in D
  <2> DEFINE j == m + 1
  <2>1. j \in 1..n /\ j - 1 = m /\ j \in 0..n /\ (j = 1 <=> m = 0)
    BY <1>1
  <2> HIDE DEF j
  <2>2. f[j] = Appending(ss, f[m], j) /\ F[j] = IF j = 1 THEN ss[j] ELSE F[m] \o ss[j]
    BY <2>1, <1>5, <1>9
  <2>3. F[j] = f[j]
    BY <2>1, <2>2, <1>11 DEF Appending
  <2> QED BY <2>1, <2>3 DEF j
<1> HIDE DEF D
<1>12. \A m \in 0..n : m \in D
  BY <1>1, <1>10, <1>11, Climb
<1>13. F[n] = f[n]
  <2>1. n \in D
    BY <1>1, <1>12
  <2> QED BY <1>1, <2>1 DEF D
<1>14. f \in [0..n -> Q] /\ f[0] = << >> /\ FlattenSeq(ss) = f[n]
  BY <1>4, <1>8, <1>13
<1> QED BY <1>5, <1>14 DEF n

(* f holds the first k sequences of ss, one behind the other.              *)
Holds(f, ss, k) ==
  /\ Len(f) = Offsets(ss)[k]
  /\ \A j \in 1..k : \A i \in 1..Len(ss[j]) : f[Offsets(ss)[j - 1] + i] = ss[j][i]

LEMMA Flattened ==
  ASSUME NEW S, NEW ss \in Seq(Seq(S))
  PROVE  FlattenSeq(ss) \in Seq(S) /\ Holds(FlattenSeq(ss), ss, Len(ss))
<1> DEFINE n == Len(ss)
           o == Offsets(ss)
<1>1. n \in Nat /\ o \in [0..n -> Nat] /\ o[0] = 0 /\ (\A k \in 1..n : ss[k] \in Seq(S))
      /\ \A k \in 1..n : o[k] = o[k - 1] + Len(ss[k])
  BY OffsetsSteps, LengthsType
<1>2. CASE n = 0
  <2>1. FlattenSeq(ss) = ss /\ ss = << >>
    BY <1>2 DEF FlattenSeq
  <2> QED BY <1>1, <1>2, <2>1 DEF Holds
<1>3. CASE n # 0
  <2>1. PICK f \in [0..n -> Seq(S)] :
           /\ \A k \in 1..n : f[k] = Appending(ss, f[k - 1], k)
           /\ f[0] = << >>
           /\ FlattenSeq(ss) = f[n]
    BY <1>3, FlattenSteps
  <2> HIDE DEF n, o
  <2> DEFINE D == {m \in 0..n : Holds(f[m], ss, m)}
  <2>2. 0 \in D
    BY <1>1, <2>1 DEF Holds, o
  <2>3. ASSUME NEW m \in 0..(n - 1), m \in D PROVE m + 1 \in D
    <3> DEFINE k == m + 1
               u == f[m]
               v == ss[k]
               w == f[k]
    <3>1. /\ k \in 1..n /\ k - 1 = m /\ k \in 0..n /\ m \in 0..n /\ k \in Nat /\ m \in Nat
          /\ \A j \in 1..k : j = k \/ j \in 1..m
      BY <1>1
    <3> HIDE DEF k
    <3>2. u \in Seq(S) /\ v \in Seq(S) /\ w = IF k = 1 THEN v ELSE u \o v
      BY <1>1, <2>1, <3>1 DEF Appending
    <3>3. Len(u) = o[m] /\ \A j \in 1..m : \A i \in 1..Len(ss[j]) : u[o[j - 1] + i] = ss[j][i]
      BY <2>3 DEF Holds, o
    <3>4. o[k] = o[m] + Len(v) /\ o[m] \in Nat
      BY <1>1, <3>1
    <3>5. u = << >> => w = v
      <4>1. u = << >> => u \o v = v
        BY <3>2, ConcatEmptySeq
      <4> QED BY <3>2, <4>1
    <3>6. w = u \o v
      <4>1. CASE k = 1
        <5>1. u = << >>
          BY <4>1, <3>1, <2>1
        <5> QED BY <5>1, <3>2, <3>5, ConcatEmptySeq
      <4> QED BY <4>1, <3>2
    <3> HIDE DEF u, v, w
    <3>7. /\ Len(w) = Len(u) + Len(v)
          /\ \A i \in 1..Len(u) + Len(v) : w[i] = IF i <= Len(u) THEN u[i] ELSE v[i - Len(u)]
      BY <3>2, <3>6, ConcatProperties
    <3>8. Len(u) \in Nat /\ Len(v) \in Nat
      BY <3>2
    <3>9. \A i \in 1..Len(v) : w[o[m] + i] = v[i]
      <4> TAKE i \in 1..Len(v)
      <4> DEFINE x == o[m] + i
      <4>1. x \in 1..Len(u) + Len(v) /\ ~(x <= Len(u)) /\ x - Len(u) = i
        BY <3>3, <3>4, <3>8
      <4> HIDE DEF x
      <4>2. w[x] = v[i]
        BY <3>7, <4>1
      <4> QED BY <4>2 DEF x
    <3>10. \A j \in 1..m : \A i \in 1..Len(ss[j]) : w[o[j - 1] + i] = ss[j][i]
      <4> TAKE j \in 1..m
      <4> TAKE i \in 1..Len(ss[j])
      <4>1. j \in 1..n /\ j - 1 \in 0..n /\ j \in 0..n
        BY <1>1
      <4>2. o[j - 1] \in Nat /\ o[j] = o[j - 1] + Len(ss[j]) /\ Len(ss[j]) \in Nat
        BY <4>1, <1>1
      <4>3. o[j] <= o[m]
        <5> DEFINE l == Lengths(ss)
        <5>1. l \in Seq(Nat) /\ Len(l) = n /\ o = RunningSum(l)
          BY LengthsType DEF Offsets, o, n
        <5> HIDE DEF l
        <5>2. j \in 0..Len(l) /\ m \in j..Len(l)
          BY <1>1, <4>1, <5>1
        <5> QED BY <5>1, <5>2, SumGrows
      <4>4. o[j - 1] + i \in 1..Len(u)
        BY <4>2, <4>3, <3>3, <3>4
      <4>5. w[o[j - 1] + i] = u[o[j - 1] + i]
        BY <4>4, <3>7, <3>8
      <4> QED BY <4>5, <3>3
    <3>11. Len(w) = o[k] /\ \A j \in 1..k : \A i \in 1..Len(ss[j]) : w[o[j - 1] + i] = ss[j][i]
      <4>1. ASSUME NEW j \in 1..k, NEW i \in 1..Len(ss[j]) PROVE w[o[j - 1] + i] = ss[j][i]
        <5>1. CASE j \in 1..m
          BY <5>1, <3>10
        <5>2. CASE j = k
          BY <5>2, <3>9, <3>1 DEF v
        <5> QED BY <3>1, <5>1, <5>2
      <4> QED BY <4>1, <3>3, <3>4, <3>7
    <3>12. Holds(w, ss, k)
      BY <3>11 DEF Holds, o
    <3> QED BY <3>1, <3>12 DEF w, k
  <2> HIDE DEF D
  <2>4. \A m \in 0..n : m \in D
    BY <1>1, <2>2, <2>3, Climb
  <2>5. n \in D /\ n \in 0..n
    BY <1>1, <2>4
  <2> QED BY <2>1, <2>5 DEF D, n
<1> QED BY <1>2, <1>3

-----------------------------------------------------------------------------
(* The order entries are sorted by.                                        *)

LEMMA NeverBeforeItself ==
  ASSUME NEW n \in Nat, NEW s \in [1..n -> Int] PROVE ~Before(s, s)
<1>1. \A i \in DOMAIN s : ~(s[i] < s[i])
  OBVIOUS
<1> QED BY <1>1 DEF Before

LEMMA BeforeTransitive ==
  ASSUME NEW n \in Nat, NEW s \in [1..n -> Int], NEW t \in [1..n -> Int], NEW u \in [1..n -> Int],
         Before(s, t), Before(t, u)
  PROVE  Before(s, u)
<1>1. PICK i \in 1..n : s[i] < t[i] /\ \A j \in 1..(i - 1) : s[j] = t[j]
  BY DEF Before
<1>2. PICK k \in 1..n : t[k] < u[k] /\ \A j \in 1..(k - 1) : t[j] = u[j]
  BY DEF Before
<1>3. CASE i < k
  <2>1. i \in 1..(k - 1) /\ \A j \in 1..(i - 1) : j \in 1..(k - 1)
    BY <1>3
  <2>2. s[i] < u[i] /\ \A j \in 1..(i - 1) : s[j] = u[j]
    BY <1>1, <1>2, <2>1
  <2> QED BY <2>2 DEF Before
<1>4. CASE k <= i
  <2>1. \A j \in 1..(k - 1) : j \in 1..(i - 1)
    BY <1>4
  <2>2. s[k] < u[k]
    <3>1. CASE k = i
      BY <1>1, <1>2, <3>1
    <3>2. CASE k # i
      <4>1. k \in 1..(i - 1)
        BY <1>4, <3>2
      <4> QED BY <1>1, <1>2, <4>1
    <3> QED BY <3>1, <3>2
  <2>3. \A j \in 1..(k - 1) : s[j] = u[j]
    BY <1>1, <1>2, <2>1
  <2> QED BY <2>2, <2>3 DEF Before
<1> QED BY <1>3, <1>4

LEMMA BeforeTotal ==
  ASSUME NEW n \in Nat, NEW s \in [1..n -> Int], NEW t \in [1..n -> Int], s # t
  PROVE  Before(s, t) \/ Before(t, s)
<1> DEFINE T == {i \in 1..n : s[i] # t[i]}
<1>1. T \in SUBSET Nat /\ T # {}
  OBVIOUS
<1> HIDE DEF T
<1>2. PICK x \in T : \A y \in T : x <= y
  BY <1>1, LeastNat
<1>3. x \in 1..n /\ s[x] # t[x]
  BY <1>2 DEF T
<1>4. \A j \in 1..(x - 1) : s[j] = t[j]
  <2> TAKE j \in 1..(x - 1)
  <2>1. j \in 1..n /\ ~(x <= j)
    BY <1>3
  <2>2. j \notin T
    BY <1>2, <2>1
  <2> QED BY <2>1, <2>2 DEF T
<1>5. s[x] < t[x] \/ t[x] < s[x]
  BY <1>3
<1> QED BY <1>3, <1>4, <1>5 DEF Before

(* Sorting a finite set of entries with keys of one length, none twice.    *)
Keyed(kind, E) ==
  /\ \E n \in Nat : \A e \in E : SortKey(kind, e) \in [1..n -> Int]
  /\ \A e, f \in E : SortKey(kind, e) = SortKey(kind, f) => e = f

Earlier(kind, E, e) == {x \in E : Before(SortKey(kind, x), SortKey(kind, e))}

(* The sequence s is in the order of its keys.                             *)
InOrder(kind, s) ==
  \A i, j \in DOMAIN s : i < j => Before(SortKey(kind, s[i]), SortKey(kind, s[j]))

LEMMA RankGrows ==
  ASSUME NEW kind, NEW E, IsFiniteSet(E), Keyed(kind, E), NEW e \in E, NEW f \in E,
         Before(SortKey(kind, e), SortKey(kind, f))
  PROVE  Cardinality(Earlier(kind, E, e)) < Cardinality(Earlier(kind, E, f))
<1> DEFINE A == Earlier(kind, E, e)
           B == Earlier(kind, E, f)
<1>1. PICK n \in Nat : \A x \in E : SortKey(kind, x) \in [1..n -> Int]
  BY DEF Keyed
<1>2. A \in SUBSET E /\ B \in SUBSET E
  BY DEF Earlier
<1>3. A \in SUBSET B
  <2>1. ASSUME NEW x \in A PROVE x \in B
    <3>1. x \in E /\ Before(SortKey(kind, x), SortKey(kind, e))
      BY <2>1 DEF Earlier
    <3>2. Before(SortKey(kind, x), SortKey(kind, f))
      BY <1>1, <3>1, BeforeTransitive
    <3> QED BY <3>1, <3>2 DEF Earlier
  <2> QED BY <2>1
<1>4. e \in B
  BY DEF Earlier
<1>5. e \notin A
  BY <1>1, NeverBeforeItself DEF Earlier
<1> HIDE DEF A, B
<1>6. IsFiniteSet(A) /\ IsFiniteSet(B)
  BY <1>2, FS_Subset
<1>7. Cardinality(A) <= Cardinality(B) /\ (Cardinality(B) = Cardinality(A) => A = B)
  BY <1>3, <1>6, FS_Subset
<1>8. Cardinality(A) \in Nat /\ Cardinality(B) \in Nat
  BY <1>6, FS_CardinalityType
<1> QED BY <1>4, <1>5, <1>7, <1>8 DEF A, B

LEMMA Sorting ==
  ASSUME NEW kind, NEW E, IsFiniteSet(E), Keyed(kind, E)
  PROVE  LET s == SortEntries(kind, E)
         IN  s \in Seq(E) /\ Range(s) = E /\ InOrder(kind, s)
<1> DEFINE n == Cardinality(E)
           R(e) == Cardinality(Earlier(kind, E, e))
           s == SortEntries(kind, E)
           r == [e \in E |-> R(e)]
<1>1. n \in Nat
  BY FS_CardinalityType
<1>2. PICK m \in Nat : \A x \in E : SortKey(kind, x) \in [1..m -> Int]
  BY DEF Keyed
<1>3. \A e, f \in E : R(e) = R(f) => e = f
  <2>1. SUFFICES ASSUME NEW e \in E, NEW f \in E, e # f PROVE R(e) # R(f)
    OBVIOUS
  <2>2. SortKey(kind, e) # SortKey(kind, f)
    BY <2>1 DEF Keyed
  <2>3. Before(SortKey(kind, e), SortKey(kind, f)) \/ Before(SortKey(kind, f), SortKey(kind, e))
    BY <1>2, <2>2, BeforeTotal
  <2>4. R(e) < R(f) \/ R(f) < R(e)
    BY <2>3, RankGrows
  <2>5. R(e) \in Nat /\ R(f) \in Nat
    <3>1. \A x : Earlier(kind, E, x) \in SUBSET E
      BY DEF Earlier
    <3> QED BY <3>1, FS_Subset, FS_CardinalityType
  <2> QED BY <2>4, <2>5
<1>4. \A e \in E : R(e) \in 0..(n - 1)
  <2> TAKE e \in E
  <2> DEFINE A == Earlier(kind, E, e)
  <2>1. A \in SUBSET E /\ e \notin A
    BY <1>2, NeverBeforeItself DEF Earlier
  <2> HIDE DEF A
  <2>2. IsFiniteSet(A) /\ Cardinality(A) <= n /\ (n = Cardinality(A) => E = A)
    BY <2>1, FS_Subset
  <2>3. Cardinality(A) \in Nat /\ Cardinality(A) # n
    BY <2>1, <2>2, FS_CardinalityType
  <2> QED BY <1>1, <2>2, <2>3 DEF A
<1>5. \A k \in 0..(n - 1) : \E e \in E : R(e) = k
  <2> DEFINE T == 0..(n - 1)
  <2>1. IsFiniteSet(T) /\ Cardinality(T) = n
    BY <1>1, FS_Interval
  <2>2. r \in [E -> T]
    BY <1>4
  <2>3. \A e, f \in E : r[e] = r[f] => e = f
    BY <1>3
  <2> HIDE DEF r
  <2>4. r \in Injection(E, T)
    BY <2>2, <2>3 DEF Injection, IsInjective
  <2> HIDE DEF T
  <2>5. r \in Surjection(E, T)
    BY <2>1, <2>4, FS_Injection
  <2>6. \A k \in T : \E e \in E : r[e] = k
    BY <2>5 DEF Surjection
  <2> QED BY <2>6 DEF T, r
<1>6. s = [i \in 1..n |-> CHOOSE e \in E : R(e) = i - 1]
  BY DEF SortEntries, Earlier
<1> HIDE DEF s, r
<1>7. ASSUME NEW i \in 1..n PROVE s[i] \in E /\ R(s[i]) = i - 1
  <2> HIDE DEF R
  <2>1. i - 1 \in 0..(n - 1)
    BY <1>1
  <2>2. \E e \in E : R(e) = i - 1
    BY <1>5, <2>1
  <2>3. s[i] = CHOOSE e \in E : R(e) = i - 1
    BY <1>6
  <2> QED BY <2>2, <2>3
<1>8. s \in [1..n -> E] /\ DOMAIN s = 1..n
  BY <1>6, <1>7
<1>9. s \in Seq(E)
  BY <1>1, <1>8
<1>10. Range(s) = E
  <2>1. \A e \in Range(s) : e \in E
    BY <1>8 DEF Range
  <2>2. ASSUME NEW e \in E PROVE e \in Range(s)
    <3> HIDE DEF R
    <3> DEFINE i == R(e) + 1
    <3>1. i \in 1..n /\ R(e) = i - 1
      BY <1>1, <1>4
    <3> HIDE DEF i
    <3>2. s[i] \in E /\ R(s[i]) = R(e)
      BY <1>7, <3>1
    <3>3. s[i] = e
      BY <1>3, <3>2
    <3> QED BY <1>8, <3>1, <3>3 DEF Range
  <2> QED BY <2>1, <2>2
<1>11. InOrder(kind, s)
  <2> SUFFICES ASSUME NEW i \in 1..n, NEW j \in 1..n, i < j
               PROVE  Before(SortKey(kind, s[i]), SortKey(kind, s[j]))
    BY <1>8 DEF InOrder
  <2>1. s[i] \in E /\ s[j] \in E /\ R(s[i]) = i - 1 /\ R(s[j]) = j - 1
    BY <1>7
  <2>2. R(s[i]) < R(s[j]) /\ R(s[i]) # R(s[j])
    BY <2>1
  <2>3. SortKey(kind, s[i]) # SortKey(kind, s[j])
    <3>1. s[i] # s[j]
      BY <2>2
    <3> QED BY <2>1, <3>1 DEF Keyed
  <2>4. \/ Before(SortKey(kind, s[i]), SortKey(kind, s[j]))
        \/ Before(SortKey(kind, s[j]), SortKey(kind, s[i]))
    BY <1>2, <2>1, <2>3, BeforeTotal
  <2>5. ~Before(SortKey(kind, s[j]), SortKey(kind, s[i]))
    <3> SUFFICES ASSUME Before(SortKey(kind, s[j]), SortKey(kind, s[i])) PROVE FALSE
      OBVIOUS
    <3>1. R(s[j]) < R(s[i])
      BY <2>1, RankGrows
    <3> HIDE DEF R
    <3> QED BY <2>1, <2>2, <3>1
  <2> QED BY <2>4, <2>5
<1> QED BY <1>9, <1>10, <1>11 DEF s

-----------------------------------------------------------------------------
(* The row groups of a sidecar.                                            *)

Cuts(s, m, cut) ==
  /\ m \in Nat \ {0} /\ cut \in [0..m -> 0..Len(s)] /\ cut[0] = 0 /\ cut[m] = Len(s)
  /\ \A k \in 1..m : cut[k - 1] <= cut[k]

CutAt(s, m, cut) == [k \in 1..m |-> SubSeq(s, cut[k - 1] + 1, cut[k])]

(* A group is a stretch of the body.                                       *)
IsStretch(t, s) == \E a \in Nat : \A i \in 1..Len(t) : a + i \in 1..Len(s) /\ t[i] = s[a + i]

LEMMA CutPieces ==
  ASSUME NEW S, NEW s \in Seq(S), NEW m, NEW cut, Cuts(s, m, cut)
  PROVE  LET c == CutAt(s, m, cut)
         IN  /\ c \in Seq(Seq(S)) /\ Len(c) = m
             /\ \A k \in 1..m :
                  /\ Len(c[k]) = cut[k] - cut[k - 1]
                  /\ \A i \in 1..Len(c[k]) : c[k][i] = s[cut[k - 1] + i]
                                             /\ cut[k - 1] + i \in 1..Len(s)
<1> DEFINE c == CutAt(s, m, cut)
           n == Len(s)
<1>1. n \in Nat /\ m \in Nat /\ m # 0 /\ (\A i \in 1..n : s[i] \in S) /\ \A k \in 0..m : cut[k] \in 0..n
  BY DEF Cuts
<1>2. ASSUME NEW k \in 1..m
      PROVE  /\ c[k] \in Seq(S) /\ Len(c[k]) = cut[k] - cut[k - 1]
             /\ \A i \in 1..Len(c[k]) : c[k][i] = s[cut[k - 1] + i] /\ cut[k - 1] + i \in 1..n
  <2> DEFINE a == cut[k - 1]
             b == cut[k]
             l == a + 1
             t == SubSeq(s, l, b)
  <2>1. a \in 0..n /\ b \in 0..n /\ a <= b
    <3>1. k - 1 \in 0..m /\ k \in 0..m
      BY <1>1
    <3> QED BY <1>1, <3>1 DEF Cuts
  <2>2. c[k] = t
    BY DEF CutAt
  <2> HIDE DEF a, b, c, n
  <2>3. l \in Int /\ b \in Int /\ \A i \in l..b : s[i] \in S
    BY <1>1, <2>1
  <2>4. b - l + 1 = b - a /\ (IF l <= b THEN b - l + 1 ELSE 0) = b - a
    BY <1>1, <2>1
  <2>5. l \in Int
    BY <2>3
  <2> HIDE DEF t
  <2>6. /\ t \in Seq(S) /\ Len(t) = b - a
        /\ \A i \in 1..(b - a) : t[i] = s[l + i - 1]
    <3> HIDE DEF l
    <3>1. /\ SubSeq(s, l, b) \in Seq(S)
          /\ Len(SubSeq(s, l, b)) = IF l <= b THEN b - l + 1 ELSE 0
          /\ \A i \in 1..(b - l + 1) : SubSeq(s, l, b)[i] = s[l + i - 1]
      BY <2>3, SubSeqProperties
    <3> QED BY <2>4, <3>1 DEF t
  <2>7. \A i \in 1..(b - a) : l + i - 1 = a + i /\ a + i \in 1..n
    BY <1>1, <2>1
  <2>8. \A i \in 1..(b - a) : t[i] = s[a + i] /\ a + i \in 1..n
    <3> HIDE DEF l
    <3> QED BY <2>6, <2>7
  <2> QED BY <2>2, <2>6, <2>8 DEF a, b
<1>3. c \in Seq(Seq(S)) /\ Len(c) = m
  <2>1. c = [k \in 1..m |-> c[k]]
    BY DEF CutAt
  <2> HIDE DEF c
  <2>2. c \in [1..m -> Seq(S)]
    BY <2>1, <1>2
  <2> QED BY <1>1, <2>2
<1> QED BY <1>2, <1>3

LEMMA CutsJoin ==
  ASSUME NEW S, NEW s \in Seq(S), NEW m, NEW cut, Cuts(s, m, cut)
  PROVE  FlattenSeq(CutAt(s, m, cut)) = s
<1> DEFINE c == CutAt(s, m, cut)
           n == Len(s)
           o == Offsets(c)
           f == FlattenSeq(c)
<1>1. n \in Nat /\ m \in Nat /\ m # 0 /\ (\A k \in 0..m : cut[k] \in 0..n) /\ cut[0] = 0 /\ cut[m] = n
  BY DEF Cuts
<1>2. /\ c \in Seq(Seq(S)) /\ Len(c) = m
      /\ \A k \in 1..m :
           /\ Len(c[k]) = cut[k] - cut[k - 1]
           /\ \A i \in 1..Len(c[k]) : c[k][i] = s[cut[k - 1] + i]
  BY CutPieces
<1> HIDE DEF c
<1>3. o \in [0..m -> Nat] /\ o[0] = 0 /\ \A k \in 1..m : o[k] = o[k - 1] + Len(c[k])
  BY <1>2, OffsetsSteps
<1>4. f \in Seq(S) /\ Holds(f, c, m)
  BY <1>2, Flattened
<1>5. \A r \in Nat : r < o[m] => \E k \in 1..m : o[k - 1] <= r /\ r < o[k]
  BY <1>2, Located
<1> DEFINE D == {k \in 0..m : o[k] = cut[k]}
<1>6. 0 \in D
  BY <1>1, <1>3
<1>7. ASSUME NEW k \in 0..(m - 1), k \in D PROVE k + 1 \in D
  <2> DEFINE j == k + 1
  <2>1. j \in 1..m /\ j - 1 = k /\ j \in 0..m /\ k \in 0..m
    BY <1>1
  <2> HIDE DEF j
  <2>2. o[j] = o[k] + Len(c[j]) /\ Len(c[j]) = cut[j] - cut[k] /\ o[k] = cut[k]
    BY <1>2, <1>3, <1>7, <2>1
  <2>3. cut[j] \in Int /\ cut[k] \in Int
    BY <1>1, <2>1
  <2>4. o[j] = cut[j]
    BY <2>2, <2>3
  <2> QED BY <2>1, <2>4 DEF j
<1> HIDE DEF D
<1>8. \A k \in 0..m : k \in D
  BY <1>1, <1>6, <1>7, Climb
<1>9. \A k \in 0..m : o[k] = cut[k]
  BY <1>8 DEF D
<1>10. Len(f) = n /\ \A k \in 1..m : \A i \in 1..Len(c[k]) : f[cut[k - 1] + i] = c[k][i]
  <2>1. Len(f) = o[m] /\ \A k \in 1..m : \A i \in 1..Len(c[k]) : f[o[k - 1] + i] = c[k][i]
    BY <1>4 DEF Holds
  <2>2. m \in 0..m /\ \A k \in 1..m : k - 1 \in 0..m
    BY <1>1
  <2> QED BY <1>1, <1>9, <2>1, <2>2
<1>11. ASSUME NEW x \in 1..n PROVE f[x] = s[x]
  <2>1. x - 1 \in Nat /\ x - 1 < o[m]
    <3>1. o[m] = n
      BY <1>1, <1>9
    <3> QED BY <1>1, <3>1
  <2>2. PICK k \in 1..m : o[k - 1] <= x - 1 /\ x - 1 < o[k]
    BY <1>5, <2>1
  <2>3. k - 1 \in 0..m /\ k \in 0..m
    BY <1>1
  <2> DEFINE a == cut[k - 1]
             b == cut[k]
             i == x - a
  <2>4. a \in Nat /\ b \in Nat /\ a <= x - 1 /\ x - 1 < b /\ Len(c[k]) = b - a
    BY <1>1, <1>2, <1>9, <2>2, <2>3
  <2> HIDE DEF a, b
  <2>5. i \in 1..Len(c[k]) /\ a + i = x
    BY <2>4
  <2> HIDE DEF i
  <2>6. f[a + i] = c[k][i] /\ c[k][i] = s[a + i]
    BY <1>2, <1>10, <2>5 DEF a
  <2> QED BY <2>5, <2>6
<1>12. Len(f) = Len(s) /\ \A x \in 1..Len(f) : f[x] = s[x]
  BY <1>10, <1>11
<1> HIDE DEF f, n
<1> QED BY <1>4, <1>12, SeqEqual DEF f, c

LEMMA MinMaxOfTwo ==
  ASSUME NEW a \in Int, NEW b \in Int
  PROVE  /\ Max({a, b}) = IF a >= b THEN a ELSE b
         /\ Min({a, b}) = IF a <= b THEN a ELSE b
<1>1. ASSUME NEW x \in {a, b}, \A y \in {a, b} : x >= y PROVE x = IF a >= b THEN a ELSE b
  BY <1>1
<1>2. ASSUME NEW x \in {a, b}, \A y \in {a, b} : x <= y PROVE x = IF a <= b THEN a ELSE b
  BY <1>2
<1>3. \E x \in {a, b} : \A y \in {a, b} : x >= y
  OBVIOUS
<1>4. \E x \in {a, b} : \A y \in {a, b} : x <= y
  OBVIOUS
<1>5. Max({a, b}) \in {a, b} /\ \A y \in {a, b} : Max({a, b}) >= y
  BY <1>3 DEF Max
<1>6. Min({a, b}) \in {a, b} /\ \A y \in {a, b} : Min({a, b}) <= y
  BY <1>4 DEF Min
<1> QED BY <1>1, <1>2, <1>5, <1>6

(* The number of groups: enough for n rows, the last one not empty, and    *)
(* one when there are no rows.                                             *)
LEMMA GroupCount ==
  ASSUME NEW n \in Nat, NEW z \in Nat \ {0}
  PROVE  LET m == Max({CeilDiv(n, z), 1})
         IN  m \in Nat \ {0} /\ n <= m * z /\ (m - 1) * z <= n
<1> DEFINE q == CeilDiv(n, z)
           r == (n + z - 1) % z
           m == Max({q, 1})
<1>1. q \in Nat /\ r \in 0..(z - 1) /\ n + z - 1 = z * q + r
  BY DEF CeilDiv
<1>2. q = 0 => n = 0
  <2>1. q = 0 => z * q = 0
    OBVIOUS
  <2> HIDE DEF q, r
  <2> QED BY <1>1, <2>1
<1> HIDE DEF q, r
<1>3. m = IF q >= 1 THEN q ELSE 1
  BY <1>1, MinMaxOfTwo
<1> HIDE DEF m
<1>4. CASE q >= 1
  <2>1. m = q
    BY <1>3, <1>4
  <2>2. z * q = q * z /\ (q - 1) * z = z * q - z /\ z * q \in Nat
    BY <1>1
  <2> DEFINE p == z * q
  <2> HIDE DEF p
  <2>3. p \in Nat /\ n + z - 1 = p + r
    BY <1>1, <2>2 DEF p
  <2>4. n <= p /\ p - z <= n
    BY <1>1, <2>3
  <2>5. m * z = p /\ (m - 1) * z = p - z
    BY <2>1, <2>2 DEF p
  <2>6. m \in Nat \ {0}
    BY <1>1, <1>4, <2>1
  <2>7. n <= m * z /\ (m - 1) * z <= n
    BY <2>4, <2>5
  <2> QED BY <2>6, <2>7 DEF m, q
<1>5. CASE ~(q >= 1)
  <2>1. m = 1 /\ n = 0
    BY <1>1, <1>2, <1>3, <1>5
  <2>2. 1 * z = z /\ (1 - 1) * z = 0
    OBVIOUS
  <2>3. m \in Nat \ {0} /\ n <= m * z /\ (m - 1) * z <= n
    BY <2>1, <2>2
  <2> QED BY <2>3 DEF m, q
<1> QED BY <1>1, <1>4, <1>5

LEMMA Cutting ==
  ASSUME NEW kind, NEW S, NEW s \in Seq(S)
  PROVE  LET c == CutBody(kind, s)
         IN  /\ c \in Seq(Seq(S)) /\ c # << >> /\ FlattenSeq(c) = s
             /\ \A k \in 1..Len(c) : IsStretch(c[k], s)
<1> DEFINE n == Len(s)
           z == IF kind = "i64" THEN SidecarRgRows ELSE Max({n, 1})
           m == Max({CeilDiv(n, z), 1})
           cut == [k \in 0..m |-> IF k < m THEN k * z ELSE n]
           c == CutBody(kind, s)
<1>1. n \in Nat
  OBVIOUS
<1>2. z \in Nat \ {0}
  <2>1. Max({n, 1}) = IF n >= 1 THEN n ELSE 1
    <3> HIDE DEF n
    <3> QED BY <1>1, MinMaxOfTwo
  <2> QED BY <1>1, <2>1, SizesAssumption
<1>3. c = [k \in 1..m |-> SubSeq(s, (k - 1) * z + 1, Min({k * z, n}))]
  BY DEF CutBody
<1> HIDE DEF n, z
<1>4. m \in Nat \ {0} /\ n <= m * z /\ (m - 1) * z <= n
  BY <1>1, <1>2, GroupCount
<1> HIDE DEF m
<1>5. \A k \in 0..(m - 1) : k * z \in Nat /\ k * z <= (m - 1) * z
  <2> TAKE k \in 0..(m - 1)
  <2> DEFINE j == m - 1 - k
  <2>1. j \in Nat /\ k \in Nat /\ m - 1 = k + j
    BY <1>4
  <2> HIDE DEF j
  <2>2. (k + j) * z = k * z + j * z /\ k * z \in Nat /\ j * z \in Nat
    BY <1>2, <2>1
  <2> QED BY <2>1, <2>2
<1>6. \A k \in 1..m : k < m => k * z = (k - 1) * z + z
  BY <1>2, <1>4
<1>7. cut \in [0..m -> 0..n]
  <2>1. ASSUME NEW k \in 0..m PROVE (IF k < m THEN k * z ELSE n) \in 0..n
    <3>1. CASE k < m
      <4>1. k \in 0..(m - 1) /\ (m - 1) * z \in Nat
        BY <1>4, <1>5, <3>1
      <4>2. k * z \in Nat /\ k * z <= (m - 1) * z
        BY <4>1, <1>5
      <4> QED BY <1>1, <1>4, <3>1, <4>1, <4>2
    <3>2. CASE ~(k < m)
      BY <1>1, <3>2
    <3> QED BY <3>1, <3>2
  <2> QED BY <2>1
<1>8. cut[0] = 0 /\ cut[m] = n
  BY <1>2, <1>4
<1>9. ASSUME NEW k \in 1..m PROVE cut[k - 1] <= cut[k] /\ cut[k - 1] = (k - 1) * z
  <2>1. k - 1 \in 0..(m - 1) /\ k - 1 \in 0..m /\ k \in 0..m /\ k - 1 < m
    BY <1>4
  <2>2. cut[k - 1] = (k - 1) * z
    BY <2>1
  <2>3. (k - 1) * z \in Nat /\ (k - 1) * z <= (m - 1) * z /\ (m - 1) * z \in Nat
    BY <1>4, <1>5, <2>1
  <2>4. CASE k < m
    <3>1. cut[k] = (k - 1) * z + z
      BY <1>6, <2>1, <2>4
    <3> QED BY <1>2, <2>2, <2>3, <3>1
  <2>5. CASE ~(k < m)
    <3>1. cut[k] = n
      BY <2>1, <2>5
    <3> QED BY <1>1, <1>4, <2>2, <2>3, <3>1
  <2> QED BY <2>2, <2>4, <2>5
<1>10. ASSUME NEW k \in 1..m PROVE Min({k * z, n}) = cut[k]
  <2>1. k * z \in Int /\ k \in 0..m
    BY <1>2, <1>4
  <2>2. Min({k * z, n}) = IF k * z <= n THEN k * z ELSE n
    <3> DEFINE p == k * z
    <3> HIDE DEF p
    <3>1. p \in Int /\ n \in Int
      BY <1>1, <2>1 DEF p
    <3>2. Min({p, n}) = IF p <= n THEN p ELSE n
      BY <3>1, MinMaxOfTwo, Zenon
    <3> QED BY <3>2 DEF p
  <2>3. CASE k < m
    <3>1. k \in 0..(m - 1) /\ cut[k] = k * z
      BY <1>4, <2>1, <2>3
    <3>2. k * z <= (m - 1) * z /\ (m - 1) * z \in Int /\ (m - 1) * z <= n
      BY <1>2, <1>4, <1>5, <3>1
    <3>3. k * z <= n
      BY <1>1, <2>1, <3>2
    <3> QED BY <2>2, <3>1, <3>3
  <2>4. CASE ~(k < m)
    <3>1. k = m /\ cut[k] = n
      BY <1>4, <2>1, <2>4
    <3>2. n <= k * z
      BY <1>4, <3>1
    <3> QED BY <1>1, <2>1, <2>2, <3>1, <3>2
  <2> QED BY <2>3, <2>4
<1>11. Cuts(s, m, cut)
  <2> HIDE DEF cut
  <2> QED BY <1>4, <1>7, <1>8, <1>9 DEF Cuts, n
<1>12. c = CutAt(s, m, cut)
  <2> HIDE DEF cut, c
  <2>1. \A k \in 1..m : SubSeq(s, (k - 1) * z + 1, Min({k * z, n})) = SubSeq(s, cut[k - 1] + 1, cut[k])
    BY <1>9, <1>10
  <2> QED BY <1>3, <2>1 DEF CutAt
<1> HIDE DEF c, cut
<1>13. c \in Seq(Seq(S)) /\ Len(c) = m /\ FlattenSeq(c) = s
  BY <1>11, <1>12, CutPieces, CutsJoin
<1>14. ASSUME NEW k \in 1..m PROVE IsStretch(c[k], s)
  <2>1. \A i \in 1..Len(c[k]) : c[k][i] = s[cut[k - 1] + i] /\ cut[k - 1] + i \in 1..Len(s)
    BY <1>11, <1>12, CutPieces
  <2>2. cut[k - 1] \in Nat
    <3>1. k - 1 \in 0..m
      BY <1>4
    <3> QED BY <1>1, <1>7, <3>1
  <2> DEFINE a == cut[k - 1]
  <2> HIDE DEF a
  <2>3. a \in Nat /\ \A i \in 1..Len(c[k]) : a + i \in 1..Len(s) /\ c[k][i] = s[a + i]
    BY <2>1, <2>2 DEF a
  <2> QED BY <2>3 DEF IsStretch
<1>15. c # << >>
  BY <1>4, <1>13
<1> QED BY <1>13, <1>14, <1>15 DEF c

-----------------------------------------------------------------------------
(* The rows of a row group, page by page.                                  *)

LegalGroup(g) ==
  /\ g \in [pages : Seq(Seq(Int)), b : Seq(Int)]
  /\ Len(g.b) = NumRows(g)
  /\ Range(ColumnA(g)) \subseteq DOMAIN Tokenize

LEMMA PagesSpellColumn ==
  ASSUME NEW g, LegalGroup(g)
  PROVE  /\ ColumnA(g) \in Seq(Int) /\ NumRows(g) \in Nat /\ NumRows(g) = Len(ColumnA(g))
         /\ DOMAIN g.pages = 1..Len(g.pages) /\ Len(g.pages) \in Nat
         /\ \A p \in DOMAIN g.pages :
              /\ g.pages[p] \in Seq(Int) /\ Len(g.pages[p]) \in Nat
              /\ FirstRow(g, p) \in Nat
              /\ FirstRow(g, p + 1) = FirstRow(g, p) + Len(g.pages[p])
              /\ \A r \in 0..(Len(g.pages[p]) - 1) :
                   /\ FirstRow(g, p) + r \in 0..(NumRows(g) - 1)
                   /\ ColumnA(g)[FirstRow(g, p) + r + 1] = g.pages[p][r + 1]
         /\ \A row \in 0..(NumRows(g) - 1) :
              \E p \in DOMAIN g.pages : \E r \in 0..(Len(g.pages[p]) - 1) :
                row = FirstRow(g, p) + r
<1> DEFINE ss == g.pages
           n == Len(ss)
           o == Offsets(ss)
           f == FlattenSeq(ss)
<1>1. ss \in Seq(Seq(Int))
  BY DEF LegalGroup
<1>2. n \in Nat /\ DOMAIN ss = 1..n
  BY <1>1
<1>3. ColumnA(g) = f /\ NumRows(g) = Len(f)
  BY DEF ColumnA, NumRows
<1>4. \A p : FirstRow(g, p) = o[p - 1]
  BY DEF FirstRow, Offsets, Lengths
<1> HIDE DEF ss
<1>5. \A k \in 1..n : ss[k] \in Seq(Int) /\ Len(ss[k]) \in Nat
  BY <1>1, LengthsType
<1>6. o \in [0..n -> Nat] /\ o[0] = 0 /\ \A k \in 1..n : o[k] = o[k - 1] + Len(ss[k])
  BY <1>1, OffsetsSteps
<1>7. f \in Seq(Int) /\ Holds(f, ss, n)
  BY <1>1, Flattened
<1>8. \A r \in Nat : r < o[n] => \E k \in 1..n : o[k - 1] <= r /\ r < o[k]
  BY <1>1, Located
<1> HIDE DEF n, o, f
<1>9. Len(f) = o[n] /\ \A k \in 1..n : \A i \in 1..Len(ss[k]) : f[o[k - 1] + i] = ss[k][i]
  BY <1>7 DEF Holds, o
<1>10. \A k \in 1..n : k - 1 \in 0..n /\ k \in 0..n /\ k + 1 - 1 = k
  BY <1>2
<1>11. ASSUME NEW p \in 1..n
       PROVE  /\ FirstRow(g, p) \in Nat
              /\ FirstRow(g, p + 1) = FirstRow(g, p) + Len(ss[p])
              /\ \A r \in 0..(Len(ss[p]) - 1) :
                   /\ FirstRow(g, p) + r \in 0..(Len(f) - 1)
                   /\ f[FirstRow(g, p) + r + 1] = ss[p][r + 1]
  <2>1. FirstRow(g, p) = o[p - 1] /\ FirstRow(g, p + 1) = o[p] /\ o[p - 1] \in Nat
        /\ o[p] = o[p - 1] + Len(ss[p]) /\ Len(ss[p]) \in Nat
    <3>1. p - 1 \in 0..n /\ p + 1 - 1 = p
      BY <1>10
    <3>2. FirstRow(g, p) = o[p - 1] /\ FirstRow(g, p + 1) = o[p + 1 - 1]
      BY <1>4
    <3>3. FirstRow(g, p + 1) = o[p]
      BY <3>1, <3>2
    <3> QED BY <1>5, <1>6, <3>1, <3>2, <3>3
  <2>2. o[p] <= o[n]
    <3> DEFINE l == Lengths(ss)
    <3>1. l \in Seq(Nat) /\ Len(l) = n /\ o = RunningSum(l)
      BY <1>1, LengthsType DEF Offsets, o, n
    <3> HIDE DEF l
    <3>2. p \in 0..Len(l) /\ n \in p..Len(l)
      BY <1>2, <3>1
    <3> QED BY <3>1, <3>2, SumGrows
  <2>3. \A r \in 0..(Len(ss[p]) - 1) :
          /\ o[p - 1] + r \in 0..(Len(f) - 1)
          /\ f[o[p - 1] + r + 1] = ss[p][r + 1]
    <3> TAKE r \in 0..(Len(ss[p]) - 1)
    <3> DEFINE i == r + 1
    <3>1. i \in 1..Len(ss[p]) /\ o[p - 1] + r + 1 = o[p - 1] + i
      BY <2>1
    <3>2. o[p - 1] + r \in 0..(Len(f) - 1)
      <4>1. o[n] = Len(f) /\ o[n] \in Nat
        BY <1>2, <1>6, <1>9
      <4> QED BY <2>1, <2>2, <4>1
    <3> HIDE DEF i
    <3>3. f[o[p - 1] + i] = ss[p][i]
      BY <1>9, <3>1
    <3> QED BY <3>1, <3>2, <3>3 DEF i
  <2> QED BY <2>1, <2>3
<1>12. ASSUME NEW row \in 0..(Len(f) - 1)
       PROVE  \E p \in 1..n : \E r \in 0..(Len(ss[p]) - 1) : row = FirstRow(g, p) + r
  <2>1. Len(f) \in Nat
    BY <1>7
  <2>2. row \in Nat /\ row < o[n]
    BY <1>9, <2>1
  <2>3. PICK p \in 1..n : o[p - 1] <= row /\ row < o[p]
    BY <1>8, <2>2
  <2>4. o[p - 1] \in Nat /\ o[p] = o[p - 1] + Len(ss[p]) /\ Len(ss[p]) \in Nat
        /\ FirstRow(g, p) = o[p - 1]
    BY <1>4, <1>5, <1>6, <1>10
  <2> DEFINE r == row - o[p - 1]
  <2>5. r \in 0..(Len(ss[p]) - 1) /\ row = o[p - 1] + r
    BY <2>2, <2>3, <2>4
  <2> HIDE DEF r
  <2> QED BY <2>4, <2>5
<1>13. Len(f) \in Nat
  BY <1>7
<1>14. DOMAIN ss = 1..Len(ss) /\ Len(ss) \in Nat
  BY <1>2 DEF n
<1>15. ASSUME NEW p \in DOMAIN ss
       PROVE  /\ ss[p] \in Seq(Int) /\ Len(ss[p]) \in Nat
              /\ FirstRow(g, p) \in Nat
              /\ FirstRow(g, p + 1) = FirstRow(g, p) + Len(ss[p])
              /\ \A r \in 0..(Len(ss[p]) - 1) :
                   /\ FirstRow(g, p) + r \in 0..(NumRows(g) - 1)
                   /\ ColumnA(g)[FirstRow(g, p) + r + 1] = ss[p][r + 1]
  BY <1>2, <1>3, <1>5, <1>11
<1>16. ASSUME NEW row \in 0..(NumRows(g) - 1)
       PROVE  \E p \in DOMAIN ss : \E r \in 0..(Len(ss[p]) - 1) : row = FirstRow(g, p) + r
  BY <1>2, <1>3, <1>12
<1>17. ColumnA(g) \in Seq(Int) /\ NumRows(g) \in Nat /\ NumRows(g) = Len(ColumnA(g))
  BY <1>3, <1>7, <1>13
<1> QED BY <1>14, <1>15, <1>16, <1>17 DEF ss

-----------------------------------------------------------------------------
(* The entries of a content.                                               *)

LEMMA FiniteImage ==
  ASSUME NEW f, IsFiniteSet(DOMAIN f) PROVE IsFiniteSet({f[x] : x \in DOMAIN f})
<1> DEFINE T == {f[x] : x \in DOMAIN f}
           h == [x \in DOMAIN f |-> f[x]]
<1>1. h \in Surjection(DOMAIN f, T)
  BY DEF Surjection
<1> HIDE DEF T, h
<1>2. IsFiniteSet(T)
  BY <1>1, FS_Surjection
<1> QED BY <1>2 DEF T

KeyLen(kind) == IF kind = "composite" THEN 2 ELSE 1

(* The keys a row is filed under.                                          *)
RowKeys(kind, g, row) == KeysOf(kind, ColumnA(g)[row + 1], g.b[row + 1])

(* The rows of a page filed under k, and the keys of all its rows.         *)
RowsAt(kind, g, p, k) ==
  {r \in 0..(Len(g.pages[p]) - 1) : k \in RowKeys(kind, g, FirstRow(g, p) + r)}

PageKeys(kind, g, p) ==
  UNION {RowKeys(kind, g, FirstRow(g, p) + r) : r \in 0..(Len(g.pages[p]) - 1)}

EntryOf(kind, g, rg, p, k) ==
  [key |-> k, rg |-> rg, page |-> p,
   rowset |-> EncodeTagged(RowsAt(kind, g, p, k), Len(g.pages[p]))]

LEMMA KeysTyped ==
  ASSUME NEW kind, NEW g, LegalGroup(g), NEW row \in 0..(NumRows(g) - 1)
  PROVE  /\ RowKeys(kind, g, row) \subseteq [1..KeyLen(kind) -> Int]
         /\ IsFiniteSet(RowKeys(kind, g, row))
<1> DEFINE a == ColumnA(g)[row + 1]
           b == g.b[row + 1]
<1>1. /\ ColumnA(g) \in Seq(Int) /\ NumRows(g) \in Nat /\ NumRows(g) = Len(ColumnA(g))
      /\ g.b \in Seq(Int) /\ Len(g.b) = NumRows(g)
  BY PagesSpellColumn DEF LegalGroup
<1>2. row + 1 \in 1..Len(ColumnA(g)) /\ row + 1 \in 1..Len(g.b)
  BY <1>1
<1>3. a \in Int /\ b \in Int
  BY <1>1, <1>2
<1>4. a \in DOMAIN Tokenize
  <2> DEFINE f == ColumnA(g)
  <2>1. a \in {f[i] : i \in DOMAIN f}
    BY <1>1, <1>2
  <2> HIDE DEF a
  <2>2. a \in Range(ColumnA(g))
    BY <2>1 DEF Range
  <2> QED BY <2>2 DEF LegalGroup
<1>5. RowKeys(kind, g, row) = KeysOf(kind, a, b)
  BY DEF RowKeys
<1> HIDE DEF a, b
<1>6. CASE kind = "composite"
  <2>1. KeysOf(kind, a, b) = {<<a, b>>} /\ KeyLen(kind) = 2
    BY <1>6 DEF KeysOf, KeyLen
  <2>2. <<a, b>> \in [1..2 -> Int]
    BY <1>3
  <2> QED BY <1>5, <2>1, <2>2, FS_Singleton
<1>7. CASE kind = "inverted"
  <2> DEFINE T == Tokenize[a]
             f == [i \in 1..Len(T) |-> <<T[i]>>]
  <2>1. T \in Seq(Int) /\ Len(T) \in Nat
    BY <1>4, TextAssumption
  <2> HIDE DEF T
  <2>2. {<<t>> : t \in Range(T)} = {f[i] : i \in DOMAIN f}
    BY <2>1 DEF Range
  <2>3. IsFiniteSet(DOMAIN f)
    BY <2>1, FS_Interval
  <2>4. \A i \in 1..Len(T) : <<T[i]>> \in [1..1 -> Int]
    BY <2>1
  <2>5. KeysOf(kind, a, b) = {<<t>> : t \in Range(T)} /\ KeyLen(kind) = 1
    BY <1>7 DEF KeysOf, KeyLen, T
  <2>6. KeysOf(kind, a, b) \subseteq [1..1 -> Int]
    BY <2>2, <2>4, <2>5
  <2> HIDE DEF f
  <2>7. IsFiniteSet({f[i] : i \in DOMAIN f})
    BY <2>3, FiniteImage
  <2> QED BY <1>5, <2>2, <2>5, <2>6, <2>7
<1>8. CASE kind # "composite" /\ kind # "inverted"
  <2>1. KeysOf(kind, a, b) = {<<a>>} /\ KeyLen(kind) = 1
    BY <1>8 DEF KeysOf, KeyLen
  <2>2. <<a>> \in [1..1 -> Int]
    BY <1>3
  <2> QED BY <1>5, <2>1, <2>2, FS_Singleton
<1> QED BY <1>6, <1>7, <1>8

LEMMA FiniteUnion ==
  ASSUME NEW f, IsFiniteSet(DOMAIN f), \A x \in DOMAIN f : IsFiniteSet(f[x])
  PROVE  IsFiniteSet(UNION {f[x] : x \in DOMAIN f})
<1> DEFINE T == {f[x] : x \in DOMAIN f}
<1>1. IsFiniteSet(T)
  BY FiniteImage
<1>2. \A t \in T : IsFiniteSet(t)
  OBVIOUS
<1> HIDE DEF T
<1>3. IsFiniteSet(UNION T)
  BY <1>1, <1>2, FS_UNION
<1> QED BY <1>3 DEF T

LEMMA PageKeysTyped ==
  ASSUME NEW kind, NEW g, LegalGroup(g), NEW p \in DOMAIN g.pages
  PROVE  PageKeys(kind, g, p) \subseteq [1..KeyLen(kind) -> Int] /\ IsFiniteSet(PageKeys(kind, g, p))
<1> DEFINE N == 0..(Len(g.pages[p]) - 1)
           f == [r \in N |-> RowKeys(kind, g, FirstRow(g, p) + r)]
<1>1. Len(g.pages[p]) \in Nat /\ \A r \in N : FirstRow(g, p) + r \in 0..(NumRows(g) - 1)
  BY PagesSpellColumn
<1>2. \A r \in N : /\ RowKeys(kind, g, FirstRow(g, p) + r) \subseteq [1..KeyLen(kind) -> Int]
                   /\ IsFiniteSet(RowKeys(kind, g, FirstRow(g, p) + r))
  BY <1>1, KeysTyped
<1>3. IsFiniteSet(N)
  BY <1>1, FS_Interval
<1>4. PageKeys(kind, g, p) = UNION {f[r] : r \in N}
  BY DEF PageKeys
<1> HIDE DEF N
<1>5. DOMAIN f = N /\ \A r \in DOMAIN f : IsFiniteSet(f[r])
  BY <1>2
<1>6. PageKeys(kind, g, p) \subseteq [1..KeyLen(kind) -> Int]
  BY <1>2, <1>4
<1> HIDE DEF f
<1>7. IsFiniteSet(UNION {f[r] : r \in DOMAIN f})
  BY <1>3, <1>5, FiniteUnion
<1> QED BY <1>4, <1>5, <1>6, <1>7

LegalContent(c) ==
  /\ c \in Seq([pages : Seq(Seq(Int)), b : Seq(Int)])
  /\ \A rg \in DOMAIN c : LegalGroup(c[rg])

LEMMA ContentsLegal == \A c \in Contents : LegalContent(c)
<1> TAKE c \in Contents
<1>1. /\ c \in Seq([pages : Seq(Seq(Int)), b : Seq(Int)])
      /\ \A rg \in DOMAIN c : /\ Len(c[rg].b) = NumRows(c[rg])
                             /\ Range(ColumnA(c[rg])) \subseteq DOMAIN Tokenize
  BY ContentsAssumption
<1>2. \A rg \in DOMAIN c : c[rg] \in [pages : Seq(Seq(Int)), b : Seq(Int)]
  <2> DEFINE R == [pages : Seq(Seq(Int)), b : Seq(Int)]
  <2>1. c \in Seq(R)
    BY <1>1
  <2> HIDE DEF R
  <2>2. \A rg \in DOMAIN c : c[rg] \in R
    BY <2>1
  <2> QED BY <2>2 DEF R
<1> QED BY <1>1, <1>2 DEF LegalContent, LegalGroup

(* One entry for each key of each page.                                    *)
LEMMA BucketsAre ==
  ASSUME NEW kind, NEW g, LegalGroup(g), NEW rg
  PROVE  Buckets(kind, g, rg)
           = UNION {{EntryOf(kind, g, rg, p, k) : k \in PageKeys(kind, g, p)} : p \in DOMAIN g.pages}
<1> DEFINE KeysAt(p, r) == KeysOf(kind, g.pages[p][r + 1], g.b[FirstRow(g, p) + r + 1])
           rows(p) == 0 .. Len(g.pages[p]) - 1
           M(p) == {[key |-> k, rg |-> rg, page |-> p,
                     rowset |-> EncodeTagged({r \in rows(p) : k \in KeysAt(p, r)}, Len(g.pages[p]))]
                      : k \in UNION {KeysAt(p, r) : r \in rows(p)}}
           N(p) == {EntryOf(kind, g, rg, p, k) : k \in PageKeys(kind, g, p)}
<1>1. Buckets(kind, g, rg) = UNION {M(p) : p \in DOMAIN g.pages}
  BY DEF Buckets
<1>2. ASSUME NEW p \in DOMAIN g.pages PROVE M(p) = N(p)
  <2>1. \A r \in rows(p) : KeysAt(p, r) = RowKeys(kind, g, FirstRow(g, p) + r)
    <3> TAKE r \in rows(p)
    <3>1. ColumnA(g)[FirstRow(g, p) + r + 1] = g.pages[p][r + 1]
      BY PagesSpellColumn
    <3> QED BY <3>1 DEF RowKeys
  <2> HIDE DEF KeysAt
  <2>2. \A k : {r \in rows(p) : k \in KeysAt(p, r)} = RowsAt(kind, g, p, k)
    BY <2>1 DEF RowsAt
  <2>3. UNION {KeysAt(p, r) : r \in rows(p)} = PageKeys(kind, g, p)
    BY <2>1 DEF PageKeys
  <2> QED BY <2>2, <2>3 DEF EntryOf
<1> HIDE DEF M, N
<1>3. UNION {M(p) : p \in DOMAIN g.pages} = UNION {N(p) : p \in DOMAIN g.pages}
  BY <1>2
<1> QED BY <1>1, <1>3 DEF N

LEMMA BucketEntries ==
  ASSUME NEW kind, NEW g, LegalGroup(g), NEW rg
  PROVE  \A e : e \in Buckets(kind, g, rg)
                  <=> \E p \in DOMAIN g.pages : \E k \in PageKeys(kind, g, p) : e = EntryOf(kind, g, rg, p, k)
BY BucketsAre

LEMMA PagesFinite ==
  ASSUME NEW g, LegalGroup(g) PROVE IsFiniteSet(DOMAIN g.pages)
<1> DEFINE n == Len(g.pages)
<1>1. DOMAIN g.pages = 1..n /\ n \in Nat
  BY PagesSpellColumn
<1> HIDE DEF n
<1>2. 1 \in Int /\ n \in Int
  BY <1>1
<1> QED BY <1>1, <1>2, FS_Interval

LEMMA BucketsFinite ==
  ASSUME NEW kind, NEW g, LegalGroup(g), NEW rg
  PROVE  IsFiniteSet(Buckets(kind, g, rg))
<1> DEFINE f == [p \in DOMAIN g.pages |-> {EntryOf(kind, g, rg, p, k) : k \in PageKeys(kind, g, p)}]
<1>1. IsFiniteSet(DOMAIN g.pages)
  BY PagesFinite
<1>2. ASSUME NEW p \in DOMAIN g.pages PROVE IsFiniteSet(f[p])
  <2> DEFINE h == [k \in PageKeys(kind, g, p) |-> EntryOf(kind, g, rg, p, k)]
  <2>1. IsFiniteSet(DOMAIN h)
    BY PageKeysTyped
  <2>2. f[p] = {h[k] : k \in DOMAIN h}
    OBVIOUS
  <2> HIDE DEF h, f
  <2> QED BY <2>1, <2>2, FiniteImage
<1>3. Buckets(kind, g, rg) = UNION {f[p] : p \in DOMAIN f} /\ DOMAIN f = DOMAIN g.pages
  <2> DEFINE N(p) == {EntryOf(kind, g, rg, p, k) : k \in PageKeys(kind, g, p)}
  <2>1. Buckets(kind, g, rg) = UNION {N(p) : p \in DOMAIN g.pages}
    BY BucketsAre
  <2>2. f = [p \in DOMAIN g.pages |-> N(p)]
    OBVIOUS
  <2> HIDE DEF N, f
  <2> QED BY <2>1, <2>2
<1> HIDE DEF f
<1>4. IsFiniteSet(UNION {f[p] : p \in DOMAIN f})
  BY <1>1, <1>2, <1>3, FiniteUnion
<1> QED BY <1>3, <1>4

LEMMA BloomsFinite ==
  ASSUME NEW g, LegalGroup(g), NEW rg
  PROVE  IsFiniteSet(PageBlooms(g, rg))
<1> DEFINE f == [p \in DOMAIN g.pages |->
                   [rg |-> rg, page |-> p, bits |-> UNION {Bits[v] : v \in Range(g.pages[p])}]]
<1>1. IsFiniteSet(DOMAIN f)
  <2>1. DOMAIN f = DOMAIN g.pages
    OBVIOUS
  <2> QED BY <2>1, PagesFinite
<1>2. PageBlooms(g, rg) = {f[p] : p \in DOMAIN f}
  BY DEF PageBlooms
<1> HIDE DEF f
<1> QED BY <1>1, <1>2, FiniteImage

(* The entries of a whole content.                                         *)
AllEntries(kind, content) == UNION {EntriesOf(kind, content[rg], rg) : rg \in DOMAIN content}

LEMMA AllFinite ==
  ASSUME NEW kind, NEW content, LegalContent(content)
  PROVE  IsFiniteSet(AllEntries(kind, content))
<1> DEFINE f == [rg \in DOMAIN content |-> EntriesOf(kind, content[rg], rg)]
<1>1. IsFiniteSet(DOMAIN f)
  <2>1. DOMAIN content = 1..Len(content) /\ Len(content) \in Nat
    BY DEF LegalContent
  <2> QED BY <2>1, FS_Interval
<1>2. \A rg \in DOMAIN f : IsFiniteSet(f[rg])
  BY BucketsFinite, BloomsFinite DEF EntriesOf, LegalContent
<1>3. AllEntries(kind, content) = UNION {f[rg] : rg \in DOMAIN f}
  BY DEF AllEntries
<1> HIDE DEF f
<1> QED BY <1>1, <1>2, <1>3, FiniteUnion

(* Two functions that agree on their domain.                               *)
LEMMA SameFunction ==
  ASSUME NEW D, NEW R, NEW f \in [D -> R], NEW g \in [D -> R], \A i \in D : f[i] = g[i]
  PROVE  f = g
OBVIOUS

(* A key, and behind it the row group and the page.                        *)
Behind(s, a, b) == s \o <<a, b>>

LEMMA KeyBehind ==
  ASSUME NEW n \in Nat, NEW s \in [1..n -> Int], NEW a \in Int, NEW b \in Int
  PROVE  /\ Behind(s, a, b) \in [1..(n + 2) -> Int]
         /\ \A i \in 1..n : Behind(s, a, b)[i] = s[i]
         /\ Behind(s, a, b)[n + 1] = a /\ Behind(s, a, b)[n + 2] = b
<1>1. s \in Seq(Int) /\ Len(s) = n
  OBVIOUS
<1> DEFINE x == <<a, b>>
           u == s \o x
<1>2. x \in Seq(Int) /\ Len(x) = 2 /\ x[1] = a /\ x[2] = b
  OBVIOUS
<1> HIDE DEF x
<1>3. /\ u \in Seq(Int) /\ Len(u) = n + 2
      /\ \A i \in 1..(n + 2) : u[i] = IF i <= n THEN s[i] ELSE x[i - n]
  <2>1. /\ u \in Seq(Int) /\ Len(u) = Len(s) + Len(x)
        /\ \A i \in 1..Len(s) + Len(x) : u[i] = IF i <= Len(s) THEN s[i] ELSE x[i - Len(s)]
    BY <1>1, <1>2, ConcatProperties, Zenon
  <2> HIDE DEF u
  <2> QED BY <1>1, <1>2, <2>1
<1> HIDE DEF u
<1>4. u \in [1..(n + 2) -> Int]
  BY <1>3
<1>5. \A i \in 1..n : u[i] = s[i]
  <2> TAKE i \in 1..n
  <2>1. i \in 1..(n + 2) /\ i <= n
    OBVIOUS
  <2> QED BY <1>3, <2>1
<1> DEFINE j == n + 1
           k == n + 2
<1>6. j \in 1..(n + 2) /\ ~(j <= n) /\ j - n = 1 /\ k \in 1..(n + 2) /\ ~(k <= n) /\ k - n = 2
  OBVIOUS
<1> HIDE DEF j, k
<1>7. u[j] = x[1] /\ u[k] = x[2]
  BY <1>3, <1>6
<1> QED BY <1>2, <1>4, <1>5, <1>7 DEF u, x, j, k, Behind

(* What an entry of a sorted index holds, and what one of the page Bloom.  *)
IsEntry(kind, content, e) ==
  \E rg \in DOMAIN content : \E p \in DOMAIN content[rg].pages :
    \E k \in PageKeys(kind, content[rg], p) : e = EntryOf(kind, content[rg], rg, p, k)

IsFilter(content, e) ==
  \E rg \in DOMAIN content : \E p \in DOMAIN content[rg].pages :
    e = [rg |-> rg, page |-> p, bits |-> UNION {Bits[v] : v \in Range(content[rg].pages[p])}]

LEMMA AllAre ==
  ASSUME NEW kind, NEW content, LegalContent(content)
  PROVE  \A e : e \in AllEntries(kind, content)
                  <=> IF kind = "bloom" THEN IsFilter(content, e) ELSE IsEntry(kind, content, e)
<1>1. CASE kind = "bloom"
  BY <1>1 DEF AllEntries, EntriesOf, PageBlooms, IsFilter
<1>2. CASE kind # "bloom"
  <2>1. \A rg \in DOMAIN content : LegalGroup(content[rg])
    BY DEF LegalContent
  <2>2. \A rg \in DOMAIN content : \A e : e \in Buckets(kind, content[rg], rg) <=>
           \E p \in DOMAIN content[rg].pages :
             \E k \in PageKeys(kind, content[rg], p) : e = EntryOf(kind, content[rg], rg, p, k)
    BY <2>1, BucketEntries
  <2>3. AllEntries(kind, content) = UNION {Buckets(kind, content[rg], rg) : rg \in DOMAIN content}
    BY <1>2 DEF AllEntries, EntriesOf
  <2> QED BY <1>2, <2>2, <2>3 DEF IsEntry
<1> QED BY <1>1, <1>2

LEMMA AllKeyed ==
  ASSUME NEW kind, NEW content, LegalContent(content)
  PROVE  Keyed(kind, AllEntries(kind, content))
<1> DEFINE E == AllEntries(kind, content)
<1>1. /\ DOMAIN content \subseteq Int
      /\ \A rg \in DOMAIN content : LegalGroup(content[rg]) /\ DOMAIN content[rg].pages \subseteq Int
  BY PagesSpellColumn DEF LegalContent
<1>2. CASE kind = "bloom"
  <2>1. \A e \in E : IsFilter(content, e)
    BY <1>2, AllAre
  <2> HIDE DEF E
  <2>2. \A e \in E : SortKey(kind, e) = <<e.rg, e.page>>
    BY <1>2 DEF SortKey
  <2>3. \A e \in E : e.rg \in Int /\ e.page \in Int
    BY <1>1, <2>1 DEF IsFilter
  <2>4. \A e \in E : SortKey(kind, e) \in [1..2 -> Int]
    BY <2>2, <2>3
  <2>5. \A e \in E : e = [rg |-> e.rg, page |-> e.page,
                          bits |-> UNION {Bits[v] : v \in Range(content[e.rg].pages[e.page])}]
    BY <2>1 DEF IsFilter
  <2>6. ASSUME NEW e \in E, NEW f \in E, SortKey(kind, e) = SortKey(kind, f) PROVE e = f
    <3>1. e.rg = f.rg /\ e.page = f.page
      BY <2>2, <2>6
    <3> QED BY <2>5, <3>1
  <2> QED BY <2>4, <2>6 DEF Keyed, E
<1>3. CASE kind # "bloom"
  <2>1. \A e \in E : IsEntry(kind, content, e)
    BY <1>3, AllAre
  <2> HIDE DEF E
  <2>2. \A e \in E : SortKey(kind, e) = e.key \o <<e.rg, e.page>>
    BY <1>3 DEF SortKey
  <2> DEFINE n == KeyLen(kind)
  <2>3. n \in Nat
    BY DEF KeyLen
  <2> HIDE DEF n
  <2>4. ASSUME NEW e \in E
        PROVE  /\ e.rg \in Int /\ e.page \in Int /\ e.key \in [1..n -> Int]
               /\ e = EntryOf(kind, content[e.rg], e.rg, e.page, e.key)
    <3>a. PICK rg \in DOMAIN content : \E p \in DOMAIN content[rg].pages :
            \E k \in PageKeys(kind, content[rg], p) : e = EntryOf(kind, content[rg], rg, p, k)
      BY <2>1 DEF IsEntry
    <3>1. PICK p \in DOMAIN content[rg].pages :
            \E k \in PageKeys(kind, content[rg], p) : e = EntryOf(kind, content[rg], rg, p, k)
      BY <3>a
    <3>2. PICK k \in PageKeys(kind, content[rg], p) : e = EntryOf(kind, content[rg], rg, p, k)
      BY <3>1
    <3>3. e.rg = rg /\ e.page = p /\ e.key = k
      BY <3>2 DEF EntryOf
    <3>4. k \in [1..n -> Int]
      BY <1>1, PageKeysTyped DEF n
    <3> QED BY <1>1, <3>2, <3>3, <3>4
  <2>5. ASSUME NEW e \in E PROVE SortKey(kind, e) \in [1..(n + 2) -> Int]
    <3> DEFINE s == e.key
               a == e.rg
               b == e.page
    <3>1. SortKey(kind, e) = Behind(s, a, b) /\ s \in [1..n -> Int] /\ a \in Int /\ b \in Int
      BY <2>2, <2>4 DEF Behind
    <3> HIDE DEF s, a, b
    <3> QED BY <2>3, <3>1, KeyBehind
  <2>6. ASSUME NEW e \in E, NEW f \in E, SortKey(kind, e) = SortKey(kind, f) PROVE e = f
    <3> DEFINE s == e.key
               a == e.rg
               b == e.page
               t == f.key
               c == f.rg
               d == f.page
    <3>a. SortKey(kind, e) = Behind(s, a, b) /\ s \in [1..n -> Int] /\ a \in Int /\ b \in Int
      BY <2>2, <2>4 DEF Behind
    <3>b. SortKey(kind, f) = Behind(t, c, d) /\ t \in [1..n -> Int] /\ c \in Int /\ d \in Int
      BY <2>2, <2>4 DEF Behind
    <3> HIDE DEF s, a, b, t, c, d
    <3>c. Behind(s, a, b) = Behind(t, c, d)
      BY <2>6, <3>a, <3>b
    <3>d. s = t /\ a = c /\ b = d
      <4> DEFINE u == Behind(s, a, b)
                 v == Behind(t, c, d)
      <4>1. (\A i \in 1..n : u[i] = s[i]) /\ u[n + 1] = a /\ u[n + 2] = b
        BY <2>3, <3>a, KeyBehind
      <4>2. (\A i \in 1..n : v[i] = t[i]) /\ v[n + 1] = c /\ v[n + 2] = d
        BY <2>3, <3>b, KeyBehind
      <4>3. u = v
        BY <3>c
      <4> HIDE DEF u, v
      <4>4. \A i \in 1..n : s[i] = t[i]
        BY <4>1, <4>2, <4>3
      <4>5. s \in [1..n -> Int] /\ t \in [1..n -> Int]
        BY <3>a, <3>b
      <4>6. s = t
        <5> DEFINE K == 1..n
        <5>1. s \in [K -> Int] /\ t \in [K -> Int] /\ \A i \in K : s[i] = t[i]
          BY <4>4, <4>5
        <5> HIDE DEF K
        <5> QED BY <5>1, SameFunction
      <4>7. a = c /\ b = d
        BY <4>1, <4>2, <4>3
      <4> QED BY <4>6, <4>7
    <3>1. e.key = f.key /\ e.rg = f.rg /\ e.page = f.page
      BY <3>d DEF s, a, b, t, c, d
    <3> QED BY <2>4, <3>1
  <2>7. n + 2 \in Nat
    BY <2>3
  <2> QED BY <2>5, <2>6, <2>7 DEF Keyed, E
<1> QED BY <1>2, <1>3

-----------------------------------------------------------------------------
(* Rowsets read back.                                                      *)

LEMMA SmallerFactor ==
  ASSUME NEW B \in Nat \ {0}, NEW q \in Nat, NEW c \in Nat, q * B < c * B PROVE q < c
<1> SUFFICES ASSUME ~(q < c) PROVE FALSE
  OBVIOUS
<1> DEFINE j == q - c
<1>1. j \in Nat /\ q = c + j
  OBVIOUS
<1> HIDE DEF j
<1>2. (c + j) * B = c * B + j * B /\ c * B \in Nat /\ j * B \in Nat
  BY <1>1
<1>3. q * B = c * B + j * B
  BY <1>1, <1>2
<1> QED BY <1>2, <1>3

LEMMA ByteInRange ==
  ASSUME NEW n \in Nat, NEW x \in 0..(n - 1)
  PROVE  /\ x \div Byte \in 0..(CeilDiv(n, Byte) - 1) /\ x % Byte \in 0..(Byte - 1)
         /\ x = (x \div Byte) * Byte + (x % Byte)
<1> DEFINE q == x \div Byte
           b == x % Byte
           c == CeilDiv(n, Byte)
           r == (n + Byte - 1) % Byte
<1>1. Byte \in Nat \ {0}
  BY SizesAssumption
<1>2. q \in Nat /\ b \in 0..(Byte - 1) /\ x = Byte * q + b
  BY <1>1
<1>3. c \in Nat /\ r \in 0..(Byte - 1) /\ n + Byte - 1 = Byte * c + r
  BY <1>1 DEF CeilDiv
<1> HIDE DEF q, b, c, r
<1>4. Byte * q = q * Byte /\ Byte * c = c * Byte /\ q * Byte \in Nat /\ c * Byte \in Nat
  BY <1>1, <1>2, <1>3
<1>5. q * Byte < c * Byte
  <2> DEFINE u == q * Byte
             v == c * Byte
  <2>1. u \in Nat /\ v \in Nat /\ x = u + b /\ n + Byte - 1 = v + r
    BY <1>2, <1>3, <1>4
  <2> HIDE DEF u, v
  <2>2. u < v
    BY <1>1, <1>2, <1>3, <2>1
  <2> QED BY <2>2 DEF u, v
<1>6. q < c
  BY <1>1, <1>2, <1>3, <1>5, SmallerFactor
<1>7. q \in 0..(c - 1) /\ x = q * Byte + b
  BY <1>2, <1>3, <1>4, <1>6
<1> QED BY <1>2, <1>7 DEF q, b, c

(* A packed bitmap gives back the rows it was made of.                     *)
Reads(bitmap, rows) ==
  /\ \A byte \in DOMAIN bitmap : byte \in Nat /\ bitmap[byte] \subseteq Nat
  /\ \A x : x \in rows <=> \E byte \in DOMAIN bitmap : \E bit \in bitmap[byte] : x = byte * Byte + bit

LEMMA BitmapReads ==
  ASSUME NEW n \in Nat, NEW rows \in SUBSET (0..(n - 1))
  PROVE  Reads(BitmapOf(rows, n), rows)
<1> DEFINE bm == BitmapOf(rows, n)
           B == 0..(CeilDiv(n, Byte) - 1)
<1>1. bm = [byte \in B |-> {bit \in 0..(Byte - 1) : byte * Byte + bit \in rows}]
  BY DEF BitmapOf
<1>2. DOMAIN bm = B
  BY <1>1
<1>3. \A byte \in B : bm[byte] = {bit \in 0..(Byte - 1) : byte * Byte + bit \in rows}
  BY <1>1
<1> HIDE DEF bm
<1>4. ASSUME NEW x \in rows PROVE \E byte \in B : \E bit \in bm[byte] : x = byte * Byte + bit
  <2> DEFINE q == x \div Byte
             b == x % Byte
  <2>1. q \in B /\ b \in 0..(Byte - 1) /\ x = q * Byte + b
    BY ByteInRange
  <2> HIDE DEF q, b, B
  <2>2. b \in bm[q]
    BY <1>3, <2>1
  <2> QED BY <2>1, <2>2
<1>5. ASSUME NEW byte \in B, NEW bit \in bm[byte] PROVE byte * Byte + bit \in rows
  <2> HIDE DEF B
  <2>1. bit \in {d \in 0..(Byte - 1) : byte * Byte + d \in rows}
    BY <1>3, <1>5
  <2> QED BY <2>1
<1>6. \A byte \in DOMAIN bm : byte \in Nat /\ bm[byte] \subseteq Nat
  BY <1>2, <1>3, SizesAssumption
<1> HIDE DEF B
<1> QED BY <1>2, <1>4, <1>5, <1>6 DEF Reads, bm

LEMMA RowsetReads ==
  ASSUME NEW n \in Nat, NEW rows \in SUBSET (0..(n - 1))
  PROVE  Reads(ToBitmap(EncodeTagged(rows, n)), rows)
<1>1. ToBitmap(EncodeTagged(rows, n)) = BitmapOf(rows, n)
  <2> DEFINE bm == BitmapOf(rows, n)
  <2> HIDE DEF bm
  <2>1. EncodeTagged(rows, n) \in {[tag |-> "sparse", n |-> n, rows |-> rows, bytes |-> << >>],
                                   [tag |-> "bitmap", n |-> 0, rows |-> {}, bytes |-> bm]}
    BY DEF EncodeTagged, bm
  <2>2. CASE EncodeTagged(rows, n) = [tag |-> "sparse", n |-> n, rows |-> rows, bytes |-> << >>]
    BY <2>2 DEF ToBitmap
  <2>3. CASE EncodeTagged(rows, n) = [tag |-> "bitmap", n |-> 0, rows |-> {}, bytes |-> bm]
    BY <2>3 DEF ToBitmap, bm
  <2> QED BY <2>1, <2>2, <2>3
<1> QED BY <1>1, BitmapReads

-----------------------------------------------------------------------------
(* The rows of hits.                                                       *)

Filed(kind, content, P) == {x \in AllEntries(kind, content) : x.key \in P}

HitsOf(F) == {Hit(e) : e \in F}

RowsUnder(kind, g, P) == {row \in 0..(NumRows(g) - 1) : \E k \in P : k \in RowKeys(kind, g, row)}

(* The hit of one entry holds its page's rows filed under its key.         *)
LEMMA HitOfEntry ==
  ASSUME NEW kind, NEW g, LegalGroup(g), NEW rg, NEW p \in DOMAIN g.pages, NEW k
  PROVE  LET h == Hit(EntryOf(kind, g, rg, p, k))
         IN  h.rg = rg /\ h.page = p /\ Reads(h.bitmap, RowsAt(kind, g, p, k))
<1> DEFINE e == EntryOf(kind, g, rg, p, k)
           rows == RowsAt(kind, g, p, k)
           n == Len(g.pages[p])
<1>1. n \in Nat /\ rows \in SUBSET (0..(n - 1))
  BY PagesSpellColumn DEF RowsAt
<1>2. e.rg = rg /\ e.page = p /\ e.rowset = EncodeTagged(rows, n)
  BY DEF EntryOf
<1> HIDE DEF e, rows, n
<1>3. Reads(ToBitmap(EncodeTagged(rows, n)), rows)
  BY <1>1, RowsetReads
<1> QED BY <1>2, <1>3 DEF Hit, e, rows

LEMMA FiledRows ==
  ASSUME NEW kind, kind # "bloom", NEW content, LegalContent(content), NEW P, NEW rg \in DOMAIN content
  PROVE  RowsHit(content, HitsOf(Filed(kind, content, P)), rg) = RowsUnder(kind, content[rg], P)
<1> DEFINE g == content[rg]
           F == Filed(kind, content, P)
           Found(row) == \E h \in HitsOf(F) : /\ h.rg = rg
                            /\ \E byte \in DOMAIN h.bitmap : \E bit \in h.bitmap[byte] :
                                   row = FirstRow(g, h.page) + byte * Byte + bit
<1>1. LegalGroup(g)
  BY DEF LegalContent
<1>2. RowsHit(content, HitsOf(F), rg) = {row \in 0..(NumRows(g) - 1) : Found(row)}
  BY DEF RowsHit
<1>3. \A e : e \in F <=> e.key \in P /\ IsEntry(kind, content, e)
  BY AllAre DEF Filed
<1> HIDE DEF F
<1>4. ASSUME NEW row \in 0..(NumRows(g) - 1), Found(row) PROVE \E k \in P : k \in RowKeys(kind, g, row)
  <2>1. PICK h \in HitsOf(F) : /\ h.rg = rg
                            /\ \E byte \in DOMAIN h.bitmap : \E bit \in h.bitmap[byte] :
                                   row = FirstRow(g, h.page) + byte * Byte + bit
    BY <1>4
  <2>2. PICK e \in F : h = Hit(e)
    BY DEF HitsOf
  <2>3. e.key \in P /\ IsEntry(kind, content, e)
    BY <1>3
  <2>4. PICK z \in DOMAIN content : \E p \in DOMAIN content[z].pages :
          \E k \in PageKeys(kind, content[z], p) : e = EntryOf(kind, content[z], z, p, k)
    BY <2>3 DEF IsEntry
  <2>5. PICK p \in DOMAIN content[z].pages :
          \E k \in PageKeys(kind, content[z], p) : e = EntryOf(kind, content[z], z, p, k)
    BY <2>4
  <2>6. PICK k \in PageKeys(kind, content[z], p) : e = EntryOf(kind, content[z], z, p, k)
    BY <2>5
  <2>7. e.key = k
    BY <2>6 DEF EntryOf
  <2>8. h.rg = z /\ h.page = p /\ Reads(h.bitmap, RowsAt(kind, content[z], p, k))
    BY <2>2, <2>6, HitOfEntry DEF LegalContent
  <2>9. z = rg
    BY <2>1, <2>8
  <2>10. p \in DOMAIN g.pages /\ Reads(h.bitmap, RowsAt(kind, g, p, k))
    BY <2>5, <2>8, <2>9
  <2>11. PICK byte \in DOMAIN h.bitmap : \E bit \in h.bitmap[byte] : row = FirstRow(g, p) + byte * Byte + bit
    BY <2>1, <2>8
  <2>12. PICK bit \in h.bitmap[byte] : row = FirstRow(g, p) + byte * Byte + bit
    BY <2>11
  <2> DEFINE r == byte * Byte + bit
  <2>13. r \in RowsAt(kind, g, p, k)
    BY <2>10 DEF Reads
  <2>14. r \in 0..(Len(g.pages[p]) - 1) /\ k \in RowKeys(kind, g, FirstRow(g, p) + r)
    BY <2>13 DEF RowsAt
  <2>15. row = FirstRow(g, p) + r
    <3>1. byte \in Nat /\ bit \in Nat /\ byte * Byte \in Nat
      BY <2>10, SizesAssumption DEF Reads
    <3>2. FirstRow(g, p) \in Nat
      BY <1>1, <2>10, PagesSpellColumn
    <3> QED BY <2>12, <3>1, <3>2
  <2> QED BY <2>3, <2>7, <2>14, <2>15
<1>5. ASSUME NEW row \in 0..(NumRows(g) - 1), NEW k \in P, k \in RowKeys(kind, g, row) PROVE Found(row)
  <2>1. PICK p \in DOMAIN g.pages : \E r \in 0..(Len(g.pages[p]) - 1) : row = FirstRow(g, p) + r
    BY <1>1, PagesSpellColumn
  <2>2. PICK r \in 0..(Len(g.pages[p]) - 1) : row = FirstRow(g, p) + r
    BY <2>1
  <2>3. r \in RowsAt(kind, g, p, k) /\ k \in PageKeys(kind, g, p)
    BY <1>5, <2>2 DEF RowsAt, PageKeys
  <2> DEFINE e == EntryOf(kind, g, rg, p, k)
             h == Hit(e)
  <2>4. e \in F
    <3>1. e.key = k
      BY DEF EntryOf
    <3>2. IsEntry(kind, content, e)
      BY <2>3 DEF IsEntry
    <3> QED BY <1>3, <3>1, <3>2
  <2>5. h \in HitsOf(F)
    BY <2>4 DEF HitsOf
  <2>6. h.rg = rg /\ h.page = p /\ Reads(h.bitmap, RowsAt(kind, g, p, k))
    BY <1>1, HitOfEntry
  <2> HIDE DEF h
  <2>7. PICK byte \in DOMAIN h.bitmap : \E bit \in h.bitmap[byte] : r = byte * Byte + bit
    BY <2>3, <2>6 DEF Reads
  <2>8. PICK bit \in h.bitmap[byte] : r = byte * Byte + bit
    BY <2>7
  <2>9. row = FirstRow(g, h.page) + byte * Byte + bit
    <3>1. byte \in Nat /\ bit \in Nat /\ byte * Byte \in Nat
      BY <2>6, SizesAssumption DEF Reads
    <3>2. FirstRow(g, p) \in Nat
      BY <1>1, PagesSpellColumn
    <3>3. row = FirstRow(g, p) + byte * Byte + bit
      BY <2>2, <2>8, <3>1, <3>2
    <3> QED BY <2>6, <3>3
  <2> QED BY <2>5, <2>6, <2>7, <2>8, <2>9
<1> HIDE DEF Found
<1>6. {row \in 0..(NumRows(g) - 1) : Found(row)} = RowsUnder(kind, g, P)
  BY <1>4, <1>5 DEF RowsUnder
<1> QED BY <1>2, <1>6 DEF F

-----------------------------------------------------------------------------
(* Lookups in a sorted sequence of entries.                                *)

(* Keys of length n, in order, equal ones side by side.                    *)
KeySorted(n, s) ==
  /\ \A i \in DOMAIN s : s[i].key \in [1..n -> Int]
  /\ \A i, j \in DOMAIN s : i < j => s[i].key = s[j].key \/ Before(s[i].key, s[j].key)

LEMMA KeysInOrder ==
  ASSUME NEW n \in Nat, NEW s \in [1..n -> Int], NEW t \in [1..n -> Int],
         NEW a \in Int, NEW b \in Int, NEW c \in Int, NEW d \in Int,
         Before(Behind(s, a, b), Behind(t, c, d))
  PROVE  s = t \/ Before(s, t)
<1> DEFINE u == Behind(s, a, b)
           v == Behind(t, c, d)
<1>1. u \in [1..(n + 2) -> Int] /\ \A i \in 1..n : u[i] = s[i]
  BY KeyBehind
<1>2. v \in [1..(n + 2) -> Int] /\ \A i \in 1..n : v[i] = t[i]
  <2>1. n \in Nat /\ t \in [1..n -> Int] /\ c \in Int /\ d \in Int
    OBVIOUS
  <2> QED BY ONLY <2>1, KeyBehind
<1>3. Before(u, v)
  OBVIOUS
<1> HIDE DEF u, v
<1>4. PICK x \in 1..(n + 2) : u[x] < v[x] /\ \A j \in 1..(x - 1) : u[j] = v[j]
  BY <1>1, <1>3 DEF Before
<1>5. CASE x <= n
  <2>1. x \in 1..n /\ \A j \in 1..(x - 1) : j \in 1..n
    BY <1>5
  <2>2. s[x] < t[x] /\ \A j \in 1..(x - 1) : s[j] = t[j]
    BY <1>1, <1>2, <1>4, <2>1
  <2> QED BY <2>1, <2>2 DEF Before
<1>6. CASE ~(x <= n)
  <2>1. \A j \in 1..n : j \in 1..(x - 1)
    BY <1>6
  <2>2. \A j \in 1..n : s[j] = t[j]
    BY <1>1, <1>2, <1>4, <2>1
  <2> DEFINE K == 1..n
  <2>3. s \in [K -> Int] /\ t \in [K -> Int] /\ \A j \in K : s[j] = t[j]
    BY <2>2
  <2> HIDE DEF K
  <2> QED BY <2>3, SameFunction
<1> QED BY <1>5, <1>6

LEMMA EntryTyped ==
  ASSUME NEW kind, kind # "bloom", NEW content, LegalContent(content),
         NEW e \in AllEntries(kind, content)
  PROVE  /\ e.rg \in Int /\ e.page \in Int /\ e.key \in [1..KeyLen(kind) -> Int]
         /\ SortKey(kind, e) = Behind(e.key, e.rg, e.page)
<1>1. IsEntry(kind, content, e)
  BY AllAre
<1>2. PICK rg \in DOMAIN content : \E p \in DOMAIN content[rg].pages :
        \E k \in PageKeys(kind, content[rg], p) : e = EntryOf(kind, content[rg], rg, p, k)
  BY <1>1 DEF IsEntry
<1>3. PICK p \in DOMAIN content[rg].pages :
        \E k \in PageKeys(kind, content[rg], p) : e = EntryOf(kind, content[rg], rg, p, k)
  BY <1>2
<1>4. PICK k \in PageKeys(kind, content[rg], p) : e = EntryOf(kind, content[rg], rg, p, k)
  BY <1>3
<1>5. e.rg = rg /\ e.page = p /\ e.key = k
  BY <1>4 DEF EntryOf
<1>6. LegalGroup(content[rg])
  BY DEF LegalContent
<1>7. k \in [1..KeyLen(kind) -> Int]
  BY <1>6, PageKeysTyped
<1>8. rg \in Int /\ p \in Int
  BY <1>6, PagesSpellColumn DEF LegalContent
<1>9. SortKey(kind, e) = Behind(e.key, e.rg, e.page)
  BY DEF SortKey, Behind
<1> QED BY <1>5, <1>7, <1>8, <1>9

LEMMA EntriesKeySorted ==
  ASSUME NEW kind, kind # "bloom", NEW content, LegalContent(content),
         NEW s \in Seq(AllEntries(kind, content)), InOrder(kind, s)
  PROVE  KeySorted(KeyLen(kind), s)
<1> DEFINE n == KeyLen(kind)
           E == AllEntries(kind, content)
<1>1. n \in Nat
  BY DEF KeyLen
<1>2. \A e \in E : /\ e.rg \in Int /\ e.page \in Int /\ e.key \in [1..n -> Int]
                   /\ SortKey(kind, e) = Behind(e.key, e.rg, e.page)
  BY EntryTyped
<1> HIDE DEF n, E
<1>3. \A i \in DOMAIN s : s[i] \in E
  BY DEF E
<1>4. ASSUME NEW i \in DOMAIN s, NEW j \in DOMAIN s, i < j
      PROVE  s[i].key = s[j].key \/ Before(s[i].key, s[j].key)
  <2> DEFINE u == s[i].key
             a == s[i].rg
             b == s[i].page
             v == s[j].key
             c == s[j].rg
             d == s[j].page
  <2>1. Before(SortKey(kind, s[i]), SortKey(kind, s[j]))
    BY <1>4 DEF InOrder
  <2>2. /\ u \in [1..n -> Int] /\ a \in Int /\ b \in Int /\ v \in [1..n -> Int] /\ c \in Int /\ d \in Int
        /\ SortKey(kind, s[i]) = Behind(u, a, b) /\ SortKey(kind, s[j]) = Behind(v, c, d)
    BY <1>2, <1>3
  <2> HIDE DEF u, a, b, v, c, d
  <2>3. Before(Behind(u, a, b), Behind(v, c, d))
    BY <2>1, <2>2
  <2>4. u = v \/ Before(u, v)
    BY <1>1, <2>2, <2>3, KeysInOrder
  <2> QED BY <2>4 DEF u, v
<1> QED BY <1>2, <1>3, <1>4 DEF KeySorted, n

Under(s, key) == {e \in Range(s) : e.key = key}

(* Equal keys are found whichever of them the binary search meets first.   *)
LEMMA EqHitsAre ==
  ASSUME NEW n \in Nat, NEW S, NEW s \in Seq(S), KeySorted(n, s), NEW key
  PROVE  EqHits(s, key) = HitsOf(Under(s, key))
<1> DEFINE M == {i \in DOMAIN s : s[i].key = key}
<1>1. HitsOf(Under(s, key)) = {Hit(s[i]) : i \in M}
  BY DEF HitsOf, Under, Range
<1>2. CASE M = {}
  <2>1. EqHits(s, key) = {}
    BY <1>2 DEF EqHits
  <2> QED BY <1>1, <1>2, <2>1
<1>3. CASE M # {}
  <2> DEFINE pos == CHOOSE i \in M : TRUE
             Run(i) == \A j \in Min({i, pos}) .. Max({i, pos}) : s[j].key = key
             R == {j \in DOMAIN s : Run(j)}
  <2>1. EqHits(s, key) = {Hit(s[i]) : i \in R}
    BY <1>3 DEF EqHits
  <2>2. pos \in M
    BY <1>3
  <2> HIDE DEF pos
  <2>3. pos \in DOMAIN s /\ s[pos].key = key
    BY <2>2
  <2>4. key \in [1..n -> Int]
    BY <2>3 DEF KeySorted
  <2>5. DOMAIN s = 1..Len(s) /\ Len(s) \in Nat
    OBVIOUS
  <2> DEFINE lo(i) == IF i <= pos THEN i ELSE pos
             hi(i) == IF i >= pos THEN i ELSE pos
  <2>6. \A i \in DOMAIN s : Min({i, pos}) = lo(i) /\ Max({i, pos}) = hi(i)
    <3> TAKE i \in DOMAIN s
    <3>1. i \in Int /\ pos \in Int
      BY <2>3, <2>5
    <3>2. Min({i, pos}) = IF i <= pos THEN i ELSE pos
      BY <3>1, MinMaxOfTwo, Zenon
    <3>3. Max({i, pos}) = IF i >= pos THEN i ELSE pos
      BY <3>1, MinMaxOfTwo, Zenon
    <3> QED BY <3>2, <3>3
  <2>7. ASSUME NEW i \in R PROVE i \in M
    <3>1. i \in DOMAIN s /\ \A j \in lo(i)..hi(i) : s[j].key = key
      BY <2>6
    <3>2. i \in lo(i)..hi(i)
      BY <2>3, <2>5, <3>1
    <3> QED BY <3>1, <3>2
  <2>8. ASSUME NEW i \in M PROVE i \in R
    <3>1. i \in DOMAIN s /\ s[i].key = key
      OBVIOUS
    <3>2. ASSUME NEW j \in lo(i)..hi(i) PROVE s[j].key = key
      <4>1. lo(i) \in DOMAIN s /\ hi(i) \in DOMAIN s /\ s[lo(i)].key = key /\ s[hi(i)].key = key
        BY <2>3, <3>1
      <4> DEFINE l == lo(i)
                 h == hi(i)
      <4> HIDE DEF l, h
      <4>2. l \in 1..Len(s) /\ h \in 1..Len(s) /\ s[l].key = key /\ s[h].key = key /\ j \in l..h
        BY <2>5, <3>2, <4>1 DEF l, h
      <4>3. j \in 1..Len(s) /\ (l = j \/ l < j) /\ (j = h \/ j < h)
        BY <2>5, <4>2
      <4>4. SUFFICES ASSUME s[j].key # key PROVE FALSE
        OBVIOUS
      <4>5. l < j /\ j < h
        BY <4>2, <4>3, <4>4
      <4>6. Before(key, s[j].key) /\ Before(s[j].key, key)
        BY <2>5, <4>2, <4>3, <4>4, <4>5 DEF KeySorted
      <4>7. s[j].key \in [1..n -> Int]
        BY <2>5, <4>3 DEF KeySorted
      <4>8. Before(key, key)
        BY <2>4, <4>6, <4>7, BeforeTransitive
      <4> QED BY <2>4, <4>8, NeverBeforeItself
    <3> QED BY <2>6, <3>1, <3>2
  <2>9. R = M
    BY <2>7, <2>8
  <2> HIDE DEF R, M
  <2> QED BY <1>1, <2>1, <2>9
<1> QED BY <1>2, <1>3

(* A set of positions with all those below its own is the first ones.      *)
LEMMA FirstOnes ==
  ASSUME NEW m \in Nat, NEW T \in SUBSET (1..m), \A i \in T : \A j \in 1..i : j \in T
  PROVE  Cardinality(T) \in 0..m /\ T = 1..Cardinality(T)
<1> DEFINE C == {k \in 1..(m + 1) : k \notin T}
<1>1. C \in SUBSET Nat /\ C # {}
  <2>1. m + 1 \in C
    OBVIOUS
  <2> QED BY <2>1
<1> HIDE DEF C
<1>2. PICK x \in C : \A y \in C : x <= y
  BY <1>1, LeastNat
<1>3. x \in 1..(m + 1) /\ x \notin T
  BY <1>2 DEF C
<1>4. \A y \in 1..(m + 1) : y < x => y \in T
  <2> TAKE y \in 1..(m + 1)
  <2> HAVE y < x
  <2>1. ~(x <= y)
    BY <1>3
  <2>2. y \notin C
    BY <1>2, <2>1
  <2> QED BY <2>2 DEF C
<1>5. T = 1..(x - 1)
  <2>1. ASSUME NEW y \in T PROVE y \in 1..(x - 1)
    <3>1. y \in 1..m /\ (x <= y => x \in 1..y)
      BY <1>3
    <3>2. ~(x <= y)
      BY <1>3, <3>1
    <3> QED BY <1>3, <3>1, <3>2
  <2>2. ASSUME NEW y \in 1..(x - 1) PROVE y \in T
    <3>1. y \in 1..(m + 1) /\ y < x
      BY <1>3
    <3> QED BY <1>4, <3>1
  <2> QED BY <2>1, <2>2
<1>6. Cardinality(1..(x - 1)) = x - 1
  <2> DEFINE y == x - 1
  <2>1. y \in Nat /\ y \in Int /\ 1 \in Int
    BY <1>3
  <2> HIDE DEF y
  <2>2. Cardinality(1..y) = IF 1 > y THEN 0 ELSE y - 1 + 1
    BY <2>1, FS_Interval
  <2>3. Cardinality(1..y) = y
    BY <2>1, <2>2
  <2> QED BY <2>3 DEF y
<1>7. Cardinality(T) = x - 1
  BY <1>5, <1>6
<1> QED BY <1>3, <1>5, <1>7

(* Partition points of a part of the key that never falls.                 *)
NeverFalls(s, n) ==
  /\ \A i \in DOMAIN s : s[i].key[n] \in Int
  /\ \A i, j \in DOMAIN s : i < j => s[i].key[n] <= s[j].key[n]

Less(s, n, x) == {i \in DOMAIN s : s[i].key[n] < x}
AtMost(s, n, x) == {i \in DOMAIN s : s[i].key[n] <= x}

LEMMA Partition ==
  ASSUME NEW S, NEW s \in Seq(S), NEW n, NeverFalls(s, n), NEW x \in Int
  PROVE  /\ Cardinality(Less(s, n, x)) \in 0..Len(s) /\ Less(s, n, x) = 1..Cardinality(Less(s, n, x))
         /\ Cardinality(AtMost(s, n, x)) \in 0..Len(s) /\ AtMost(s, n, x) = 1..Cardinality(AtMost(s, n, x))
<1> DEFINE A == {i \in DOMAIN s : s[i].key[n] < x}
           B == {i \in DOMAIN s : s[i].key[n] <= x}
           m == Len(s)
<1>1. m \in Nat /\ DOMAIN s = 1..m
  OBVIOUS
<1> HIDE DEF m
<1>2. A \in SUBSET (1..m) /\ B \in SUBSET (1..m)
  BY <1>1
<1>3. ASSUME NEW i \in 1..m, NEW j \in 1..i
      PROVE  s[j].key[n] <= s[i].key[n] /\ s[j].key[n] \in Int /\ s[i].key[n] \in Int /\ j \in 1..m
  <2>1. j \in 1..m /\ (j = i \/ j < i)
    BY <1>1
  <2> QED BY <1>1, <2>1 DEF NeverFalls
<1>4. \A i \in A : \A j \in 1..i : j \in A
  BY <1>1, <1>2, <1>3
<1>5. \A i \in B : \A j \in 1..i : j \in B
  BY <1>1, <1>2, <1>3
<1> HIDE DEF A, B
<1>6. Cardinality(A) \in 0..m /\ A = 1..Cardinality(A)
  BY <1>1, <1>2, <1>4, FirstOnes
<1>7. Cardinality(B) \in 0..m /\ B = 1..Cardinality(B)
  BY <1>1, <1>2, <1>5, FirstOnes
<1> QED BY <1>6, <1>7 DEF A, B, m, Less, AtMost

Within(s, n, lo, hi) == {e \in Range(s) : lo <= e.key[n] /\ e.key[n] <= hi}

(* The positions between the two partition points.                         *)
Between(s, n, lo, hi) == Cardinality(Less(s, n, lo)) + 1 .. Cardinality(AtMost(s, n, hi))

LEMMA PartitionedRange ==
  ASSUME NEW S, NEW s \in Seq(S), NEW n, NeverFalls(s, n), NEW lo \in Int, NEW hi \in Int
  PROVE  Between(s, n, lo, hi) = {i \in DOMAIN s : lo <= s[i].key[n] /\ s[i].key[n] <= hi}
<1> DEFINE A == Less(s, n, lo)
           B == AtMost(s, n, hi)
           a == Cardinality(A)
           b == Cardinality(B)
<1>1. a \in 0..Len(s) /\ A = 1..a /\ b \in 0..Len(s) /\ B = 1..b
  BY Partition
<1>2. Len(s) \in Nat /\ DOMAIN s = 1..Len(s)
  OBVIOUS
<1>3. \A i \in DOMAIN s : lo <= s[i].key[n] /\ s[i].key[n] <= hi <=> i \notin A /\ i \in B
  BY DEF NeverFalls, Less, AtMost
<1>4. {i \in DOMAIN s : lo <= s[i].key[n] /\ s[i].key[n] <= hi} = {i \in DOMAIN s : i \notin A /\ i \in B}
  BY <1>3
<1>5. Between(s, n, lo, hi) = a + 1 .. b
  BY DEF Between
<1> HIDE DEF A, B, a, b
<1>6. {i \in DOMAIN s : i \notin A /\ i \in B} = a + 1 .. b
  BY <1>1, <1>2
<1> QED BY <1>4, <1>5, <1>6

LEMMA RangeHitsAre ==
  ASSUME NEW S, NEW s \in Seq(S), NEW n, NeverFalls(s, n), NEW lo \in Int, NEW hi \in Int
  PROVE  RangeHits(s, n, lo, hi) = HitsOf(Within(s, n, lo, hi))
<1> DEFINE T == {i \in DOMAIN s : lo <= s[i].key[n] /\ s[i].key[n] <= hi}
<1>1. Between(s, n, lo, hi) = T
  BY PartitionedRange
<1>2. RangeHits(s, n, lo, hi) = {Hit(s[i]) : i \in Between(s, n, lo, hi)}
  BY DEF RangeHits, Between, Less, AtMost
<1>3. {Hit(s[i]) : i \in T} = HitsOf(Within(s, n, lo, hi))
  BY DEF HitsOf, Within, Range
<1> HIDE DEF T
<1> QED BY <1>1, <1>2, <1>3

LEMMA FirstPartNeverFalls ==
  ASSUME NEW n \in Nat \ {0}, NEW S, NEW s \in Seq(S), KeySorted(n, s)
  PROVE  NeverFalls(s, 1)
<1>1. 1 \in 1..n
  OBVIOUS
<1>2. \A i \in DOMAIN s : s[i].key \in [1..n -> Int] /\ s[i].key[1] \in Int
  BY <1>1 DEF KeySorted
<1>3. ASSUME NEW k, NEW l, k \in [1..n -> Int], l \in [1..n -> Int], Before(k, l) PROVE k[1] <= l[1]
  <2>1. PICK x \in 1..n : k[x] < l[x] /\ \A j \in 1..(x - 1) : k[j] = l[j]
    BY <1>3 DEF Before
  <2>2. x = 1 \/ 1 \in 1..(x - 1)
    OBVIOUS
  <2>3. k[1] \in Int /\ l[1] \in Int /\ (k[1] = l[1] \/ k[1] < l[1])
    BY <1>1, <1>3, <2>1, <2>2
  <2> QED BY <2>3
<1>4. ASSUME NEW i \in DOMAIN s, NEW j \in DOMAIN s, i < j PROVE s[i].key[1] <= s[j].key[1]
  <2>1. s[i].key = s[j].key \/ Before(s[i].key, s[j].key)
    BY <1>4 DEF KeySorted
  <2>2. s[i].key[1] \in Int /\ s[j].key[1] \in Int
    BY <1>2
  <2>3. CASE s[i].key = s[j].key
    BY <2>2, <2>3
  <2>4. CASE Before(s[i].key, s[j].key)
    BY <1>2, <1>3, <2>4
  <2> QED BY <2>1, <2>3, <2>4
<1> QED BY <1>2, <1>4 DEF NeverFalls

(* The trailing part of a composite key, in the run of one leading part.   *)
LEMMA CompositeHitsAre ==
  ASSUME NEW S, NEW s \in Seq(S), KeySorted(2, s), NEW a \in Int, NEW b \in Int
  PROVE  CompositeHits(s, a, b) = HitsOf(Under(s, <<a, b>>))
<1> DEFINE start == Cardinality(Less(s, 1, a))
           end   == Cardinality(AtMost(s, 1, a))
           t == SubSeq(s, start + 1, end)
           T == {i \in DOMAIN s : a <= s[i].key[1] /\ s[i].key[1] <= a}
<1>1. NeverFalls(s, 1)
  BY FirstPartNeverFalls
<1>2. start \in 0..Len(s) /\ end \in 0..Len(s) /\ start + 1 .. end = T
  <2>1. start \in 0..Len(s)
    BY <1>1, Partition
  <2>2. end \in 0..Len(s)
    BY <1>1, Partition
  <2>3. Between(s, 1, a, a) = T
    BY <1>1, PartitionedRange
  <2>4. Between(s, 1, a, a) = start + 1 .. end
    BY DEF Between
  <2> QED BY <2>1, <2>2, <2>3, <2>4
<1>3. CompositeHits(s, a, b) = RangeHits(t, 2, b, b)
  BY DEF CompositeHits, Less, AtMost
<1>4. Len(s) \in Nat /\ DOMAIN s = 1..Len(s)
  OBVIOUS
<1> HIDE DEF start, end
<1>5. \A i \in T : s[i].key[1] = a
  BY <1>1 DEF NeverFalls
<1>6. \A i \in DOMAIN s : s[i].key \in [1..2 -> Int] /\ s[i].key[1] \in Int /\ s[i].key[2] \in Int
  BY DEF KeySorted
<1>7. \A i \in DOMAIN s : s[i].key[1] = a => i \in T
  BY <1>6
<1> HIDE DEF T
<1>8. /\ t \in Seq(S) /\ Len(t) \in Nat
      /\ \A i \in 1..Len(t) : start + i \in T /\ start + i \in 1..Len(s) /\ t[i] = s[start + i]
      /\ \A i \in T : i - start \in 1..Len(t) /\ start + (i - start) = i
  <2> DEFINE l == end - start
  <2>1. CASE start + 1 <= end
    <3>1. start + 1 \in 1..Len(s) /\ end \in 1..Len(s) /\ start \in Nat /\ l \in Nat
      BY <1>2, <1>4, <2>1
    <3>2. t \in Seq(S)
      BY <1>4, <3>1
    <3>3. Len(t) = l
      BY <1>4, <2>1, <3>1
    <3>4. \A i \in 1..l : t[i] = s[start + i]
      <4> TAKE i \in 1..l
      <4>1. t[i] = s[start + 1 + i - 1]
        BY <1>4, <2>1, <3>1
      <4>2. start + 1 + i - 1 = start + i
        BY <3>1
      <4> QED BY <4>1, <4>2
    <3> HIDE DEF t
    <3>5. \A i \in 1..l : start + i \in T /\ start + i \in 1..Len(s)
      BY <1>2, <1>4, <3>1
    <3>6. \A i \in T : i - start \in 1..l /\ start + (i - start) = i
      BY <1>2, <1>4, <3>1
    <3> QED BY <3>1, <3>2, <3>3, <3>4, <3>5, <3>6
  <2>2. CASE ~(start + 1 <= end)
    <3>1. T = {}
      BY <1>2, <1>4, <2>2
    <3>2. t = << >>
      BY <1>2, <1>4, <2>2
    <3> HIDE DEF t
    <3>3. Len(t) = 0 /\ t \in Seq(S)
      BY <3>2
    <3> QED BY <3>1, <3>3
  <2> QED BY <2>1, <2>2
<1> HIDE DEF t
<1>9. start \in Nat
  BY <1>2, <1>4
<1>10. \A i \in DOMAIN t : t[i].key[2] \in Int
  BY <1>4, <1>6, <1>8
<1>11. ASSUME NEW i \in DOMAIN t, NEW j \in DOMAIN t, i < j PROVE t[i].key[2] <= t[j].key[2]
  <2> DEFINE x == start + i
             y == start + j
  <2>1. /\ x \in T /\ y \in T /\ x \in DOMAIN s /\ y \in DOMAIN s /\ x < y
        /\ t[i] = s[x] /\ t[j] = s[y]
    <3>1. i \in 1..Len(t) /\ j \in 1..Len(t)
      BY <1>8
    <3>2. start + i < start + j
      BY <1>8, <1>9, <1>11, <3>1
    <3> QED BY <1>4, <1>8, <3>1, <3>2
  <2> HIDE DEF x, y
  <2> DEFINE k == s[x].key
             l == s[y].key
  <2>2. /\ k[1] = a /\ l[1] = a /\ k \in [1..2 -> Int] /\ l \in [1..2 -> Int]
        /\ (k = l \/ Before(k, l)) /\ t[i].key = k /\ t[j].key = l
    BY <1>5, <1>6, <2>1 DEF KeySorted
  <2> HIDE DEF k, l
  <2>3. k[2] \in Int /\ l[2] \in Int
    BY <2>2
  <2>4. CASE k = l
    BY <2>2, <2>3, <2>4
  <2>5. CASE Before(k, l)
    <3>1. PICK z \in 1..2 : k[z] < l[z]
      BY <2>2, <2>5 DEF Before
    <3>2. z # 1
      BY <2>2, <3>1
    <3>3. z = 2
      BY <3>2
    <3> QED BY <2>2, <2>3, <3>1, <3>3
  <2> QED BY <2>2, <2>4, <2>5
<1>12. NeverFalls(t, 2)
  BY <1>10, <1>11 DEF NeverFalls
<1>13. RangeHits(t, 2, b, b) = HitsOf(Within(t, 2, b, b))
  BY <1>8, <1>12, RangeHitsAre
<1>14. \A k \in [1..2 -> Int] : k = <<a, b>> <=> k[1] = a /\ k[2] = b
  OBVIOUS
<1>15. ASSUME NEW e \in Within(t, 2, b, b) PROVE e \in Under(s, <<a, b>>)
  <2>1. PICK i \in DOMAIN t : e = t[i] /\ b <= t[i].key[2] /\ t[i].key[2] <= b
    BY DEF Within, Range
  <2>2. t[i].key[2] = b
    BY <1>10, <2>1
  <2>3. start + i \in T /\ start + i \in DOMAIN s /\ t[i] = s[start + i]
    BY <1>4, <1>8
  <2> DEFINE x == start + i
  <2> HIDE DEF x
  <2>4. x \in T /\ x \in DOMAIN s /\ e = s[x] /\ s[x].key[2] = b
    BY <2>1, <2>2, <2>3 DEF x
  <2>5. s[x].key = <<a, b>>
    BY <1>5, <1>6, <1>14, <2>4
  <2> QED BY <2>4, <2>5 DEF Under, Range
<1>16. ASSUME NEW e \in Under(s, <<a, b>>) PROVE e \in Within(t, 2, b, b)
  <2>1. PICK i \in DOMAIN s : e = s[i] /\ s[i].key = <<a, b>>
    BY DEF Under, Range
  <2>2. s[i].key[1] = a /\ s[i].key[2] = b
    BY <2>1
  <2>3. i \in T
    BY <1>7, <2>2
  <2> DEFINE x == i - start
  <2>4. x \in 1..Len(t) /\ start + x = i
    BY <1>8, <2>3
  <2> HIDE DEF x
  <2>5. x \in DOMAIN t /\ t[x] = e
    BY <1>8, <2>1, <2>4
  <2>6. b <= e.key[2] /\ e.key[2] <= b
    BY <2>1, <2>2
  <2> QED BY <2>5, <2>6 DEF Within, Range
<1>17. Within(t, 2, b, b) = Under(s, <<a, b>>)
  BY <1>15, <1>16
<1> QED BY <1>3, <1>13, <1>17

LEMMA RangeOfFlat ==
  ASSUME NEW S, NEW ss \in Seq(Seq(S))
  PROVE  \A e : e \in Range(FlattenSeq(ss)) <=> \E k \in 1..Len(ss) : e \in Range(ss[k])
<1> DEFINE f == FlattenSeq(ss)
           o == Offsets(ss)
           n == Len(ss)
<1>1. n \in Nat /\ \A k \in 1..n : ss[k] \in Seq(S) /\ Len(ss[k]) \in Nat /\ DOMAIN ss[k] = 1..Len(ss[k])
  BY LengthsType
<1>2. o \in [0..n -> Nat] /\ \A k \in 1..n : o[k] = o[k - 1] + Len(ss[k])
  BY OffsetsSteps
<1>3. f \in Seq(S) /\ Holds(f, ss, n)
  BY Flattened
<1>4. \A r \in Nat : r < o[n] => \E k \in 1..n : o[k - 1] <= r /\ r < o[k]
  BY Located
<1>5. \A j \in 1..n : o[j] <= o[n]
  <2> TAKE j \in 1..n
  <2> DEFINE l == Lengths(ss)
  <2>1. l \in Seq(Nat) /\ Len(l) = n /\ o = RunningSum(l)
    BY LengthsType DEF Offsets
  <2> HIDE DEF l, o, n
  <2>2. j \in 0..Len(l) /\ n \in j..Len(l)
    BY <1>1, <2>1
  <2> QED BY <2>1, <2>2, SumGrows
<1> HIDE DEF f, o, n
<1>6. Len(f) = o[n] /\ \A k \in 1..n : \A i \in 1..Len(ss[k]) : f[o[k - 1] + i] = ss[k][i]
  BY <1>3 DEF Holds, o
<1>7. DOMAIN f = 1..Len(f) /\ Len(f) \in Nat
  BY <1>3
<1>8. \A k \in 1..n : k - 1 \in 0..n /\ o[k - 1] \in Nat /\ o[k] \in Nat
  BY <1>1, <1>2
<1>9. ASSUME NEW i \in 1..Len(f) PROVE \E k \in 1..n : f[i] \in Range(ss[k])
  <2>1. i - 1 \in Nat /\ i - 1 < o[n]
    BY <1>6, <1>7
  <2>2. PICK k \in 1..n : o[k - 1] <= i - 1 /\ i - 1 < o[k]
    BY <1>4, <2>1
  <2> DEFINE j == i - o[k - 1]
  <2>3. j \in 1..Len(ss[k]) /\ i = o[k - 1] + j
    <3> DEFINE u == o[k - 1]
               v == Len(ss[k])
    <3>1. u \in Nat /\ v \in Nat /\ o[k] = u + v
      BY <1>1, <1>2, <1>8
    <3>2. u <= i - 1 /\ i - 1 < u + v /\ i \in Nat /\ j = i - u
      BY <1>7, <2>2, <3>1
    <3> HIDE DEF u, v, j
    <3>3. j \in 1..v /\ i = u + j
      BY <3>1, <3>2
    <3> QED BY <3>3 DEF u, v
  <2> HIDE DEF j
  <2>4. f[i] = ss[k][j]
    BY <1>6, <2>3
  <2>5. j \in DOMAIN ss[k]
    BY <1>1, <2>3
  <2>6. f[i] \in Range(ss[k])
    BY <2>4, <2>5 DEF Range
  <2> QED BY <2>6
<1>10. ASSUME NEW k \in 1..n, NEW j \in 1..Len(ss[k]) PROVE ss[k][j] \in Range(f)
  <2> DEFINE i == o[k - 1] + j
  <2>1. i \in 1..Len(f)
    <3> DEFINE u == o[k - 1]
               v == Len(ss[k])
               w == o[n]
    <3>1. u \in Nat /\ v \in Nat /\ w \in Nat /\ u + v <= w /\ w = Len(f) /\ j \in 1..v
      BY <1>1, <1>2, <1>5, <1>6, <1>7, <1>8
    <3>2. i = u + j
      OBVIOUS
    <3> HIDE DEF u, v, w, i
    <3> QED BY <3>1, <3>2
  <2>2. f[i] = ss[k][j]
    BY <1>6
  <2> HIDE DEF i
  <2> QED BY <1>7, <2>1, <2>2 DEF Range
<1>11. ASSUME NEW e, e \in Range(f) PROVE \E k \in 1..n : e \in Range(ss[k])
  <2>1. PICK i \in 1..Len(f) : e = f[i]
    BY <1>7, <1>11 DEF Range
  <2> QED BY <1>9, <2>1
<1>12. ASSUME NEW e, NEW k \in 1..n, e \in Range(ss[k]) PROVE e \in Range(f)
  <2>1. PICK j \in 1..Len(ss[k]) : e = ss[k][j]
    BY <1>1, <1>12 DEF Range
  <2> QED BY <1>10, <2>1
<1> QED BY <1>11, <1>12 DEF f, n

LEMMA StretchSorted ==
  ASSUME NEW S, NEW s \in Seq(S), NEW t \in Seq(S), IsStretch(t, s), NEW n, KeySorted(n, s)
  PROVE  KeySorted(n, t)
<1>1. PICK a \in Nat : \A i \in 1..Len(t) : a + i \in 1..Len(s) /\ t[i] = s[a + i]
  BY DEF IsStretch
<1>2. DOMAIN t = 1..Len(t) /\ DOMAIN s = 1..Len(s)
  OBVIOUS
<1>3. \A i \in DOMAIN t : t[i].key \in [1..n -> Int]
  <2> TAKE i \in DOMAIN t
  <2> DEFINE x == a + i
  <2>1. x \in DOMAIN s /\ t[i] = s[x]
    BY <1>1, <1>2
  <2> HIDE DEF x
  <2> QED BY <2>1 DEF KeySorted
<1>4. ASSUME NEW i \in DOMAIN t, NEW j \in DOMAIN t, i < j
      PROVE  t[i].key = t[j].key \/ Before(t[i].key, t[j].key)
  <2> DEFINE x == a + i
             y == a + j
  <2>1. x \in DOMAIN s /\ t[i] = s[x] /\ y \in DOMAIN s /\ t[j] = s[y]
    BY <1>1, <1>2
  <2>2. x < y
    BY <1>2, <1>4
  <2> HIDE DEF x, y
  <2> QED BY <2>1, <2>2 DEF KeySorted
<1> QED BY <1>3, <1>4 DEF KeySorted

-----------------------------------------------------------------------------
(* The body an index build writes for a content.                           *)

BodyOf(kind, content) == CutBody(kind, SortEntries(kind, AllEntries(kind, content)))

SortedEntries(kind, content) == SortEntries(kind, AllEntries(kind, content))

LEMMA BodyHolds ==
  ASSUME NEW kind, NEW content, LegalContent(content)
  PROVE  /\ SortedEntries(kind, content) \in Seq(AllEntries(kind, content))
         /\ Range(SortedEntries(kind, content)) = AllEntries(kind, content)
         /\ InOrder(kind, SortedEntries(kind, content))
         /\ BodyOf(kind, content) \in Seq(Seq(AllEntries(kind, content)))
         /\ BodyOf(kind, content) # << >>
         /\ FlattenSeq(BodyOf(kind, content)) = SortedEntries(kind, content)
         /\ \A k \in 1..Len(BodyOf(kind, content)) :
              IsStretch(BodyOf(kind, content)[k], SortedEntries(kind, content))
<1> DEFINE E == AllEntries(kind, content)
           s == SortEntries(kind, E)
           c == CutBody(kind, s)
<1>1. IsFiniteSet(E) /\ Keyed(kind, E)
  BY AllFinite, AllKeyed
<1> HIDE DEF E
<1>2. s \in Seq(E) /\ Range(s) = E /\ InOrder(kind, s)
  BY <1>1, Sorting
<1> HIDE DEF s
<1>3. c \in Seq(Seq(E)) /\ c # << >> /\ FlattenSeq(c) = s /\ \A k \in 1..Len(c) : IsStretch(c[k], s)
  BY <1>2, Cutting
<1> HIDE DEF c
<1>4. SortedEntries(kind, content) = s /\ BodyOf(kind, content) = c
  BY DEF SortedEntries, BodyOf, s, c, E
<1> QED BY <1>2, <1>3, <1>4 DEF E

LEMMA BodySorted ==
  ASSUME NEW kind, kind # "bloom", NEW content, LegalContent(content)
  PROVE  KeySorted(KeyLen(kind), SortedEntries(kind, content)) /\ KeyLen(kind) \in Nat \ {0}
BY BodyHolds, EntriesKeySorted DEF KeyLen

LEMMA UnderIsFiled ==
  ASSUME NEW kind, NEW content, LegalContent(content), NEW key
  PROVE  Under(SortedEntries(kind, content), key) = Filed(kind, content, {key})
<1>1. Range(SortedEntries(kind, content)) = AllEntries(kind, content)
  BY BodyHolds
<1> QED BY <1>1 DEF Under, Filed

(* Reading only the groups whose bounds admit the key loses no hit.        *)
LEMMA LazyHitsAre ==
  ASSUME NEW kind, kind # "bloom", NEW content, LegalContent(content), NEW key
  PROVE  LazyHits(BodyOf(kind, content), key) = HitsOf(Filed(kind, content, {key}))
<1> DEFINE E == AllEntries(kind, content)
           s == SortedEntries(kind, content)
           c == BodyOf(kind, content)
           n == KeyLen(kind)
           L(g) == LET keys == {e.key : e \in Range(c[g])}
                   IN  IF \/ \A k \in keys : Before(k, key)
                          \/ \A k \in keys : Before(key, k)
                       THEN {} ELSE EqHits(c[g], key)
<1>1. /\ s \in Seq(E) /\ Range(s) = E /\ c \in Seq(Seq(E)) /\ FlattenSeq(c) = s
      /\ \A k \in 1..Len(c) : IsStretch(c[k], s)
  BY BodyHolds
<1>2. KeySorted(n, s) /\ n \in Nat
  BY BodySorted
<1>3. LazyHits(c, key) = UNION {L(g) : g \in DOMAIN c}
  BY DEF LazyHits
<1> HIDE DEF E, s, c, n
<1>4. DOMAIN c = 1..Len(c) /\ \A g \in 1..Len(c) : c[g] \in Seq(E)
  BY <1>1
<1>5. ASSUME NEW g \in 1..Len(c) PROVE L(g) = HitsOf(Under(c[g], key))
  <2> DEFINE t == c[g]
             keys == {e.key : e \in Range(t)}
  <2>1. t \in Seq(E) /\ IsStretch(t, s)
    BY <1>1, <1>4
  <2> HIDE DEF t
  <2>2. KeySorted(n, t)
    BY <1>1, <1>2, <2>1, StretchSorted
  <2>3. EqHits(t, key) = HitsOf(Under(t, key))
    BY <1>2, <2>1, <2>2, EqHitsAre
  <2>4. L(g) = IF (\A k \in keys : Before(k, key)) \/ (\A k \in keys : Before(key, k))
               THEN {} ELSE EqHits(t, key)
    BY DEF t
  <2>5. ASSUME (\A k \in keys : Before(k, key)) \/ (\A k \in keys : Before(key, k)) PROVE HitsOf(Under(t, key)) = {}
    <3>1. \A k \in keys : k \in [1..n -> Int]
      BY <2>2 DEF KeySorted, Range
    <3>2. key \notin keys
      BY <1>2, <2>5, <3>1, NeverBeforeItself
    <3>3. Under(t, key) = {}
      BY <3>2 DEF Under
    <3> QED BY <3>3 DEF HitsOf
  <2> HIDE DEF keys
  <2> QED BY <2>3, <2>4, <2>5 DEF t
<1>6. \A e : e \in Range(s) <=> \E g \in 1..Len(c) : e \in Range(c[g])
  BY <1>1, RangeOfFlat
<1> HIDE DEF L
<1>7. UNION {L(g) : g \in DOMAIN c} = HitsOf(Under(s, key))
  BY <1>4, <1>5, <1>6 DEF HitsOf, Under
<1>8. Under(s, key) = Filed(kind, content, {key})
  BY UnderIsFiled DEF s
<1> QED BY <1>3, <1>7, <1>8 DEF c

-----------------------------------------------------------------------------
(* Answers and the full scan.                                              *)

(* The rows of a row group a full scan finds.                              *)
Scanned(g, q) == {r \in 0..(NumRows(g) - 1) : Satisfies(q, ColumnA(g)[r + 1], g.b[r + 1])}

LEMMA FilesAnswer ==
  ASSUME NEW kind, kind # "bloom", NEW content, LegalContent(content), NEW P, NEW q,
         \A rg \in DOMAIN content : RowsUnder(kind, content[rg], P) = Scanned(content[rg], q)
  PROVE  Materialise(content, HitsOf(Filed(kind, content, P))) = FullScan(content, q)
<1> DEFINE H == HitsOf(Filed(kind, content, P))
           f == [rg \in DOMAIN content |-> RowsHit(content, H, rg)]
           g == [rg \in DOMAIN content |-> Scanned(content[rg], q)]
<1>1. \A rg \in DOMAIN content : RowsHit(content, H, rg) = Scanned(content[rg], q)
  BY FiledRows
<1>2. f = g
  BY <1>1
<1>3. Materialise(content, H) = RowSeq(content, f)
  BY DEF Materialise
<1>4. FullScan(content, q) = RowSeq(content, g)
  BY DEF FullScan, Scanned
<1> HIDE DEF f, g
<1> QED BY <1>2, <1>3, <1>4

(* A query an index kind accepts.                                          *)
Legal(q) == q.x \in Int /\ q.y \in Int /\ (q.op = "token" => q.x \in DOMAIN Tokenize)

LEMMA RowTyped ==
  ASSUME NEW g, LegalGroup(g), NEW r \in 0..(NumRows(g) - 1)
  PROVE  ColumnA(g)[r + 1] \in Int /\ g.b[r + 1] \in Int
<1>1. /\ ColumnA(g) \in Seq(Int) /\ NumRows(g) \in Nat /\ NumRows(g) = Len(ColumnA(g))
      /\ g.b \in Seq(Int) /\ Len(g.b) = NumRows(g)
  BY PagesSpellColumn DEF LegalGroup
<1>2. r + 1 \in 1..Len(ColumnA(g)) /\ r + 1 \in 1..Len(g.b)
  BY <1>1
<1> QED BY <1>1, <1>2

(* The keys of a query: what a row must be filed under to satisfy it.      *)
KeysFor(kind, q) ==
  {k \in [1..KeyLen(kind) -> Int] :
     CASE q.op = "eq"           -> k = <<q.x>>
       [] q.op = "token"        -> k = Tokenize[q.x]
       [] q.op = "range"        -> q.x <= k[1] /\ k[1] <= q.y
       [] q.op = "composite_eq" -> k = <<q.x, q.y>>
       [] q.op = "prefix"       -> k[1] = q.x}

LEMMA KeysSatisfy ==
  ASSUME NEW kind \in {"i64", "i32", "composite", "inverted"}, NEW q, Legal(q), Accepts(kind, q),
         NEW g, LegalGroup(g)
  PROVE  RowsUnder(kind, g, KeysFor(kind, q)) = Scanned(g, q)
<1> DEFINE P == KeysFor(kind, q)
           a(r) == ColumnA(g)[r + 1]
           b(r) == g.b[r + 1]
<1>1. SUFFICES ASSUME NEW r \in 0..(NumRows(g) - 1)
               PROVE  (\E k \in P : k \in RowKeys(kind, g, r)) <=> Satisfies(q, a(r), b(r))
  BY DEF RowsUnder, Scanned
<1>2. a(r) \in Int /\ b(r) \in Int
  BY RowTyped
<1>3. RowKeys(kind, g, r) = KeysOf(kind, a(r), b(r))
  BY DEF RowKeys
<1>4. q.x \in Int /\ q.y \in Int
  BY DEF Legal
<1>5. RowKeys(kind, g, r) \subseteq [1..KeyLen(kind) -> Int]
  BY KeysTyped
<1> DEFINE u == a(r)
           v == b(r)
<1> HIDE DEF u, v
<1>6. u \in Int /\ v \in Int /\ RowKeys(kind, g, r) = KeysOf(kind, u, v)
  BY <1>2, <1>3 DEF u, v
<1>7. (\E k \in P : k \in KeysOf(kind, u, v)) <=> Satisfies(q, u, v)
  <2>1. CASE kind \in {"i64", "i32"}
    <3>1. KeysOf(kind, u, v) = {<<u>>} /\ KeyLen(kind) = 1 /\ q.op \in {"eq", "range"}
      BY <2>1 DEF KeysOf, KeyLen, Accepts, Supports
    <3>2. <<u>> \in [1..1 -> Int] /\ <<u>>[1] = u
      BY <1>6
    <3>3. CASE q.op = "eq"
      <4>1. P = {k \in [1..1 -> Int] : k = <<q.x>>} /\ (Satisfies(q, u, v) <=> u = q.x)
        BY <3>1, <3>3 DEF KeysFor, Satisfies
      <4> QED BY <3>1, <3>2, <4>1
    <3>4. CASE q.op = "range"
      <4>1. P = {k \in [1..1 -> Int] : q.x <= k[1] /\ k[1] <= q.y}
            /\ (Satisfies(q, u, v) <=> u >= q.x /\ u <= q.y)
        BY <3>1, <3>4 DEF KeysFor, Satisfies
      <4> QED BY <1>4, <1>6, <3>1, <3>2, <4>1
    <3> QED BY <3>1, <3>3, <3>4
  <2>2. CASE kind = "composite"
    <3>1. KeysOf(kind, u, v) = {<<u, v>>} /\ KeyLen(kind) = 2 /\ q.op \in {"composite_eq", "prefix"}
      BY <2>2 DEF KeysOf, KeyLen, Accepts, Supports
    <3>2. <<u, v>> \in [1..2 -> Int] /\ <<u, v>>[1] = u
      BY <1>6
    <3>3. CASE q.op = "composite_eq"
      <4>1. P = {k \in [1..2 -> Int] : k = <<q.x, q.y>>} /\ (Satisfies(q, u, v) <=> u = q.x /\ v = q.y)
        BY <3>1, <3>3 DEF KeysFor, Satisfies
      <4> QED BY <3>1, <3>2, <4>1
    <3>4. CASE q.op = "prefix"
      <4>1. P = {k \in [1..2 -> Int] : k[1] = q.x} /\ (Satisfies(q, u, v) <=> u = q.x)
        BY <3>1, <3>4 DEF KeysFor, Satisfies
      <4> QED BY <3>1, <3>2, <4>1
    <3> QED BY <3>1, <3>3, <3>4
  <2>3. CASE kind = "inverted"
    <3> DEFINE T == Tokenize[q.x]
               W == Range(Tokenize[u])
    <3>1. KeysOf(kind, u, v) = {<<t>> : t \in W} /\ KeyLen(kind) = 1 /\ q.op = "token" /\ Len(T) = 1
      BY <2>3 DEF KeysOf, KeyLen, Accepts, Supports
    <3>2. T \in Seq(Int)
      BY <3>1, TextAssumption DEF Legal
    <3>3. P = {k \in [1..1 -> Int] : k = T} /\ (Satisfies(q, u, v) <=> T[1] \in W)
      BY <3>1 DEF KeysFor, Satisfies
    <3> HIDE DEF T, W
    <3>4. T \in [1..1 -> Int] /\ T = <<T[1]>>
      BY <3>1, <3>2
    <3>5. \A t \in W : <<t>> = T => t = T[1]
      BY <3>4
    <3>6. (\E k \in P : k \in KeysOf(kind, u, v)) <=> T \in {<<t>> : t \in W}
      BY <3>1, <3>3, <3>4
    <3>7. T \in {<<t>> : t \in W} <=> T[1] \in W
      BY <3>4, <3>5
    <3> QED BY <3>3, <3>6, <3>7
  <2> QED BY <2>1, <2>2, <2>3
<1> QED BY <1>6, <1>7 DEF u, v

(* The hits of an accepted query, by the lookup of its kind.               *)
EagerHits(s, q) ==
  CASE q.op = "eq"           -> EqHits(s, <<q.x>>)
    [] q.op = "token"        -> EqHits(s, Tokenize[q.x])
    [] q.op = "range"        -> IF q.x > q.y THEN {} ELSE RangeHits(s, 1, q.x, q.y)
    [] q.op = "composite_eq" -> CompositeHits(s, q.x, q.y)
    [] q.op = "prefix"       -> RangeHits(s, 1, q.x, q.x)

LEMMA EagerHitsAre ==
  ASSUME NEW kind \in {"i64", "i32", "composite", "inverted"}, NEW q, Legal(q), Accepts(kind, q),
         NEW content, LegalContent(content)
  PROVE  EagerHits(SortedEntries(kind, content), q) = HitsOf(Filed(kind, content, KeysFor(kind, q)))
<1> DEFINE s == SortedEntries(kind, content)
           E == AllEntries(kind, content)
           P == KeysFor(kind, q)
           F == Filed(kind, content, P)
           n == KeyLen(kind)
<1>1. s \in Seq(E) /\ Range(s) = E
  BY BodyHolds
<1>2. KeySorted(n, s) /\ n \in Nat \ {0}
  BY BodySorted
<1>3. \A e \in E : e.key \in [1..n -> Int]
  BY EntryTyped
<1>4. q.x \in Int /\ q.y \in Int
  BY DEF Legal
<1>5. F = {e \in Range(s) : e.key \in P}
  BY <1>1 DEF Filed
<1>6. NeverFalls(s, 1)
  <2> HIDE DEF s, n, E
  <2> QED BY <1>1, <1>2, FirstPartNeverFalls
<1> HIDE DEF s, E, F
<1>7. \A key : EqHits(s, key) = HitsOf(Under(s, key))
  <2> HIDE DEF n
  <2> QED BY <1>1, <1>2, EqHitsAre
<1>8. \A lo, hi \in Int : RangeHits(s, 1, lo, hi) = HitsOf(Within(s, 1, lo, hi))
  BY <1>1, <1>6, RangeHitsAre
<1>9. CASE q.op = "eq"
  <2>1. P = {k \in [1..n -> Int] : k = <<q.x>>} /\ n = 1
    BY <1>9 DEF KeysFor, KeyLen, Accepts, Supports
  <2>2. <<q.x>> \in [1..1 -> Int]
    BY <1>4
  <2>3. P = {<<q.x>>}
    BY <2>1, <2>2
  <2>4. F = Under(s, <<q.x>>)
    BY <1>5, <2>3 DEF Under
  <2>5. EagerHits(s, q) = EqHits(s, <<q.x>>)
    BY <1>9 DEF EagerHits
  <2> QED BY <1>7, <2>4, <2>5 DEF s, F
<1>10. CASE q.op = "token"
  <2> DEFINE T == Tokenize[q.x]
  <2>1. P = {k \in [1..n -> Int] : k = T} /\ n = 1 /\ Len(T) = 1
    BY <1>10 DEF KeysFor, KeyLen, Accepts, Supports
  <2>2. T \in Seq(Int)
    BY <1>10, TextAssumption DEF Legal
  <2>3. EagerHits(s, q) = EqHits(s, T)
    BY <1>10 DEF EagerHits
  <2> HIDE DEF T, P, n
  <2>4. T \in [1..1 -> Int]
    BY <2>1, <2>2
  <2>5. P = {T}
    BY <2>1, <2>4
  <2>6. F = Under(s, T)
    BY <1>5, <2>5 DEF Under
  <2> QED BY <1>7, <2>3, <2>6 DEF s, F, P
<1>11. CASE q.op = "range"
  <2>1. P = {k \in [1..n -> Int] : q.x <= k[1] /\ k[1] <= q.y} /\ n = 1
    BY <1>11 DEF KeysFor, KeyLen, Accepts, Supports
  <2>2. EagerHits(s, q) = IF q.x > q.y THEN {} ELSE RangeHits(s, 1, q.x, q.y)
    BY <1>11 DEF EagerHits
  <2> HIDE DEF P, n
  <2>3. F = Within(s, 1, q.x, q.y)
    BY <1>1, <1>3, <1>5, <2>1 DEF Within
  <2>4. CASE q.x > q.y
    <3>1. \A i \in Int : ~(q.x <= i /\ i <= q.y)
      BY <1>4, <2>4
    <3>2. P = {}
      BY <2>1, <3>1
    <3>3. F = {}
      BY <1>5, <3>2
    <3>4. HitsOf(F) = {}
      BY <3>3 DEF HitsOf
    <3> QED BY <2>2, <2>4, <3>4 DEF s, F, P
  <2>5. CASE ~(q.x > q.y)
    BY <1>4, <1>8, <2>2, <2>3, <2>5 DEF s, F, P
  <2> QED BY <2>4, <2>5
<1>12. CASE q.op = "composite_eq"
  <2>1. P = {k \in [1..n -> Int] : k = <<q.x, q.y>>} /\ n = 2
    BY <1>12 DEF KeysFor, KeyLen, Accepts, Supports
  <2>2. <<q.x, q.y>> \in [1..2 -> Int]
    BY <1>4
  <2>3. P = {<<q.x, q.y>>}
    BY <2>1, <2>2
  <2>4. F = Under(s, <<q.x, q.y>>)
    BY <1>5, <2>3 DEF Under
  <2>5. EagerHits(s, q) = CompositeHits(s, q.x, q.y)
    BY <1>12 DEF EagerHits
  <2>6. KeySorted(2, s)
    BY <1>2, <2>1
  <2>7. CompositeHits(s, q.x, q.y) = HitsOf(Under(s, <<q.x, q.y>>))
    BY <1>1, <1>4, <2>6, CompositeHitsAre
  <2> QED BY <2>4, <2>5, <2>7 DEF s, F
<1>13. CASE q.op = "prefix"
  <2>1. P = {k \in [1..n -> Int] : k[1] = q.x} /\ n = 2
    BY <1>13 DEF KeysFor, KeyLen, Accepts, Supports
  <2>2. EagerHits(s, q) = RangeHits(s, 1, q.x, q.x)
    BY <1>13 DEF EagerHits
  <2> HIDE DEF P, n
  <2>3. \A k \in [1..n -> Int] : k[1] = q.x <=> q.x <= k[1] /\ k[1] <= q.x
    <3>1. \A k \in [1..n -> Int] : k[1] \in Int
      BY <2>1
    <3>2. \A z \in Int : z = q.x <=> q.x <= z /\ z <= q.x
      BY <1>4
    <3> QED BY <3>1, <3>2
  <2>4. F = Within(s, 1, q.x, q.x)
    BY <1>1, <1>3, <1>5, <2>1, <2>3 DEF Within
  <2> QED BY <1>4, <1>8, <2>2, <2>4 DEF s, F, P
<1>14. q.op \in {"eq", "range", "composite_eq", "prefix", "token"}
  BY DEF Accepts, Supports
<1> QED BY <1>9, <1>10, <1>11, <1>12, <1>13, <1>14

(* A row group's rows a page Bloom lets through, and those that match.     *)
LEMMA FilterAdmits ==
  ASSUME NEW content, LegalContent(content), NEW rg \in DOMAIN content,
         NEW p \in DOMAIN content[rg].pages, NEW x \in Range(content[rg].pages[p])
  PROVE  <<rg, p>> \in BloomProbe(SortedEntries("bloom", content), x)
<1> DEFINE s == SortedEntries("bloom", content)
           V == Range(content[rg].pages[p])
           e == [rg |-> rg, page |-> p, bits |-> UNION {Bits[v] : v \in V}]
<1>1. IsFilter(content, e)
  BY DEF IsFilter
<1>2. e \in AllEntries("bloom", content)
  BY <1>1, AllAre
<1>3. e \in Range(s)
  BY <1>2, BodyHolds
<1>4. Bits[x] \subseteq e.bits /\ e.rg = rg /\ e.page = p
  OBVIOUS
<1> HIDE DEF e, s
<1>5. <<e.rg, e.page>> \in BloomProbe(s, x)
  BY <1>3, <1>4 DEF BloomProbe
<1> QED BY <1>4, <1>5 DEF s

LEMMA BloomAnswers ==
  ASSUME NEW content, LegalContent(content), NEW q, q.op = "bloom_eq", q.tgt = "a"
  PROVE  BloomEq(content, SortedEntries("bloom", content), q.x, q.tgt) = FullScan(content, q)
<1> DEFINE s == SortedEntries("bloom", content)
           cand == BloomProbe(s, q.x)
           Masked(rg) == {r \in 0 .. NumRows(content[rg]) - 1 :
                          \E c \in cand : /\ c[1] = rg
                                          /\ r >= FirstRow(content[rg], c[2])
                                          /\ r < FirstRow(content[rg], c[2] + 1)}
           M(rg) == {r \in Masked(rg) : ValueAt(content, <<rg, r>>, q.tgt) = q.x}
           f == [rg \in DOMAIN content |-> M(rg)]
           h == [rg \in DOMAIN content |-> Scanned(content[rg], q)]
<1>1. BloomEq(content, s, q.x, q.tgt) = RowSeq(content, f)
  BY DEF BloomEq
<1>2. FullScan(content, q) = RowSeq(content, h)
  BY DEF FullScan, Scanned
<1>3. ASSUME NEW rg \in DOMAIN content PROVE M(rg) = Scanned(content[rg], q)
  <2> DEFINE g == content[rg]
  <2>1. LegalGroup(g)
    BY DEF LegalContent
  <2>2. \A r : ValueAt(content, <<rg, r>>, q.tgt) = ColumnA(g)[r + 1]
    BY DEF ValueAt
  <2>3. Scanned(g, q) = {r \in 0..(NumRows(g) - 1) : ColumnA(g)[r + 1] = q.x}
    BY DEF Scanned, Satisfies
  <2>4. ASSUME NEW r \in 0..(NumRows(g) - 1), ColumnA(g)[r + 1] = q.x PROVE r \in Masked(rg)
    <3>1. PICK p \in DOMAIN g.pages : \E i \in 0..(Len(g.pages[p]) - 1) : r = FirstRow(g, p) + i
      BY <2>1, PagesSpellColumn
    <3>2. PICK i \in 0..(Len(g.pages[p]) - 1) : r = FirstRow(g, p) + i
      BY <3>1
    <3>3. /\ g.pages[p] \in Seq(Int) /\ Len(g.pages[p]) \in Nat
          /\ FirstRow(g, p) \in Nat /\ FirstRow(g, p + 1) = FirstRow(g, p) + Len(g.pages[p])
          /\ ColumnA(g)[FirstRow(g, p) + i + 1] = g.pages[p][i + 1]
      BY <2>1, PagesSpellColumn
    <3>4. r >= FirstRow(g, p) /\ r < FirstRow(g, p + 1)
      BY <3>2, <3>3
    <3>5. g.pages[p][i + 1] = q.x
      BY <2>4, <3>2, <3>3
    <3>6. q.x \in Range(g.pages[p])
      <4> DEFINE t == g.pages[p]
                 j == i + 1
      <4>1. j \in DOMAIN t /\ t[j] = q.x
        BY <3>3, <3>5
      <4> HIDE DEF t, j
      <4>2. q.x \in Range(t)
        BY <4>1 DEF Range
      <4> QED BY <4>2 DEF t
    <3>7. <<rg, p>> \in cand
      BY <3>6, FilterAdmits
    <3> HIDE DEF cand
    <3>8. \E c \in cand : /\ c[1] = rg
                          /\ r >= FirstRow(g, c[2])
                          /\ r < FirstRow(g, c[2] + 1)
      BY <3>4, <3>7
    <3> QED BY <3>8
  <2>5. Masked(rg) \subseteq 0..(NumRows(g) - 1)
    OBVIOUS
  <2> HIDE DEF Masked
  <2> QED BY <2>2, <2>3, <2>4, <2>5
<1> HIDE DEF M
<1>4. f = h
  BY <1>3
<1> HIDE DEF f, h
<1> QED BY <1>1, <1>2, <1>4

(* An index over the present content answers like a full scan of it.       *)
LEMMA EagerIsScan ==
  ASSUME NEW kind \in {"i64", "i32", "composite", "inverted", "bloom"}, NEW q, Legal(q),
         Accepts(kind, q), OwnColumn(q), NEW content, LegalContent(content)
  PROVE  EagerAnswer(content, BodyOf(kind, content), q) = FullScan(content, q)
<1> DEFINE s == SortedEntries(kind, content)
<1>1. FlattenSeq(BodyOf(kind, content)) = s
  BY BodyHolds
<1>2. CASE kind = "bloom"
  <2>1. q.op = "bloom_eq" /\ q.tgt = "a"
    BY <1>2 DEF Accepts, Supports, OwnColumn
  <2>2. EagerAnswer(content, BodyOf(kind, content), q) = BloomEq(content, s, q.x, q.tgt)
    BY <1>1, <2>1 DEF EagerAnswer
  <2> QED BY <1>2, <2>1, <2>2, BloomAnswers
<1>3. CASE kind # "bloom"
  <2>1. kind \in {"i64", "i32", "composite", "inverted"}
    BY <1>3
  <2>2. q.op \in {"eq", "range", "composite_eq", "prefix", "token"}
    BY <2>1 DEF Accepts, Supports
  <2> HIDE DEF s
  <2>3. EagerAnswer(content, BodyOf(kind, content), q) = Materialise(content, EagerHits(s, q))
    BY <1>1, <2>2 DEF EagerAnswer, EagerHits
  <2>4. EagerHits(s, q) = HitsOf(Filed(kind, content, KeysFor(kind, q)))
    BY <2>1, EagerHitsAre DEF s
  <2>5. \A rg \in DOMAIN content : RowsUnder(kind, content[rg], KeysFor(kind, q)) = Scanned(content[rg], q)
    BY <2>1, KeysSatisfy DEF LegalContent
  <2>6. Materialise(content, HitsOf(Filed(kind, content, KeysFor(kind, q)))) = FullScan(content, q)
    BY <1>3, <2>5, FilesAnswer
  <2> QED BY <2>3, <2>4, <2>6
<1> QED BY <1>2, <1>3

LEMMA LazyIsScan ==
  ASSUME NEW q, Legal(q), q.op = "eq", NEW content, LegalContent(content)
  PROVE  Materialise(content, LazyHits(BodyOf("i64", content), <<q.x>>)) = FullScan(content, q)
<1>1. LazyHits(BodyOf("i64", content), <<q.x>>) = HitsOf(Filed("i64", content, {<<q.x>>}))
  BY LazyHitsAre
<1>2. Accepts("i64", q)
  BY DEF Accepts, Supports
<1>3. KeysFor("i64", q) = {<<q.x>>}
  <2>1. KeysFor("i64", q) = {k \in [1..1 -> Int] : k = <<q.x>>}
    BY DEF KeysFor, KeyLen
  <2>2. <<q.x>> \in [1..1 -> Int]
    BY DEF Legal
  <2> QED BY <2>1, <2>2
<1>4. \A rg \in DOMAIN content : RowsUnder("i64", content[rg], KeysFor("i64", q)) = Scanned(content[rg], q)
  BY <1>2, KeysSatisfy DEF LegalContent
<1>5. Materialise(content, HitsOf(Filed("i64", content, KeysFor("i64", q)))) = FullScan(content, q)
  BY <1>4, FilesAnswer
<1> QED BY <1>1, <1>3, <1>5

-----------------------------------------------------------------------------
(* Which version of the source a body belongs to.                          *)

(* What a scan has collected, while the file it opened is still there.     *)
BuilderInv ==
  bld.pc # "idle" =>
    /\ bld.kind \in Kinds /\ bld.src \in DOMAIN hist
    /\ IsFiniteSet(bld.entries)
    /\ bld.pc = "scan" =>
         /\ bld.next \in 1 .. Len(hist[bld.src]) + 1
         /\ bld.src = Len(hist) =>
              bld.entries = UNION {EntriesOf(bld.kind, Disk[g], g) : g \in 1 .. bld.next - 1}
    /\ bld.pc # "scan" => bld.pc = "write" /\ side.state # "absent"

SideInv ==
  side.state # "absent" =>
    /\ side.kind \in Kinds /\ side.src \in DOMAIN hist /\ side.groups # << >>
    /\ side.src = Len(hist) => side.groups = BodyOf(side.kind, Disk)

(* The body the index was opened on was built from a source whose footer   *)
(* the reader's handle has.                                                *)
Founded ==
  \E v \in DOMAIN hist :
    /\ Footer(hist[v]) = Footer(hist[src])
    /\ v = Len(hist) => idx.groups = BodyOf(idx.kind, Disk)

ReaderInv ==
  /\ src \in 0 .. Len(hist)
  /\ idx.mode \in {"none", "loading", "lazy", "eager"}
  /\ idx.mode # "none" => src # 0 /\ idx.kind \in Kinds
  /\ idx.mode \in {"loading", "lazy"} \/ (idx.mode = "eager" /\ ~idx.swapped) => Founded

(* The fields of the three records.                                        *)
Shapes ==
  /\ bld = [pc |-> bld.pc, kind |-> bld.kind, src |-> bld.src, next |-> bld.next, entries |-> bld.entries]
  /\ side = [state |-> side.state, kind |-> side.kind, src |-> side.src, groups |-> side.groups]
  /\ idx = [mode |-> idx.mode, kind |-> idx.kind, groups |-> idx.groups, swapped |-> idx.swapped]

IndexInv ==
  /\ hist \in Seq(Contents) /\ hist # << >>
  /\ Shapes /\ BuilderInv /\ SideInv /\ ReaderInv

-----------------------------------------------------------------------------
LEMMA DiskLegal ==
  ASSUME hist \in Seq(Contents), hist # << >>
  PROVE  /\ Len(hist) \in Nat \ {0} /\ DOMAIN hist = 1..Len(hist) /\ Len(hist) \in DOMAIN hist
         /\ LegalContent(Disk) /\ \A i \in DOMAIN hist : LegalContent(hist[i])
<1>1. Len(hist) \in Nat \ {0} /\ DOMAIN hist = 1..Len(hist)
  OBVIOUS
<1>2. \A i \in DOMAIN hist : hist[i] \in Contents
  OBVIOUS
<1>3. Len(hist) \in DOMAIN hist
  BY <1>1
<1> QED BY <1>1, <1>2, <1>3, ContentsLegal DEF Disk

LEMMA GroupEntriesFinite ==
  ASSUME NEW kind, NEW c, LegalContent(c), NEW g \in DOMAIN c
  PROVE  IsFiniteSet(EntriesOf(kind, c[g], g))
BY BucketsFinite, BloomsFinite DEF EntriesOf, LegalContent

(* A body is never without a row group, whatever was collected.            *)
LEMMA CutNeverEmpty ==
  ASSUME NEW kind, NEW E, IsFiniteSet(E)
  PROVE  CutBody(kind, SortEntries(kind, E)) # << >>
<1> DEFINE s == SortEntries(kind, E)
           n == Cardinality(E)
           S == {s[i] : i \in 1..n}
<1>1. n \in Nat
  BY FS_CardinalityType
<1>2. s = [i \in 1..n |-> s[i]]
  <2> DEFINE Rank(e) == Cardinality({x \in E : Before(SortKey(kind, x), SortKey(kind, e))})
             F(i) == CHOOSE e \in E : Rank(e) = i - 1
  <2>1. s = [i \in 1..n |-> F(i)]
    BY DEF SortEntries
  <2> HIDE DEF F, s, n
  <2> QED BY <2>1
<1> HIDE DEF s, n
<1>3. s \in [1..n -> S]
  BY <1>2
<1> HIDE DEF S
<1>4. s \in Seq(S)
  BY <1>1, <1>3
<1>5. CutBody(kind, s) # << >>
  BY <1>4, Cutting
<1> QED BY <1>5 DEF s

LEMMA InitInv == IndexInit => IndexInv
<1> SUFFICES ASSUME IndexInit PROVE IndexInv
  OBVIOUS
<1>1. PICK c \in Contents : hist = <<c>>
  BY DEF IndexInit
<1>2. hist \in Seq(Contents) /\ hist # << >> /\ Len(hist) = 1
  BY <1>1
<1>3. bld = NoBuild /\ side = NoSide /\ src = 0 /\ idx = NoIndex
  BY DEF IndexInit
<1>4. Shapes
  BY <1>3 DEF Shapes, NoBuild, NoSide, NoIndex
<1>5. BuilderInv /\ SideInv
  BY <1>3 DEF BuilderInv, SideInv, NoBuild, NoSide
<1>6. ReaderInv
  BY <1>2, <1>3 DEF ReaderInv, NoIndex
<1> QED BY <1>2, <1>4, <1>5, <1>6 DEF IndexInv

LEMMA RewriteKeeps ==
  ASSUME IndexInv, NEW c \in Contents, Rewrite(c) PROVE IndexInv'
<1> DEFINE n == Len(hist)
           h == hist'
<1>1. hist \in Seq(Contents) /\ Shapes /\ BuilderInv /\ SideInv /\ ReaderInv
  BY DEF IndexInv
<1>2. h = Append(hist, c) /\ bld' = bld /\ side' = side /\ src' = src /\ idx' = idx
  BY DEF Rewrite
<1>3. /\ n \in Nat /\ DOMAIN hist = 1..n /\ h \in Seq(Contents) /\ Len(h) = n + 1
      /\ DOMAIN h = 1..(n + 1) /\ \A i \in 1..n : h[i] = hist[i]
  BY <1>1, <1>2
<1>4. DOMAIN hist \subseteq DOMAIN h /\ \A i \in DOMAIN hist : h[i] = hist[i] /\ i # Len(h)
  BY <1>3
<1>5. h # << >>
  BY <1>3
<1>6. Shapes'
  BY <1>1, <1>2 DEF Shapes
<1> HIDE DEF h
<1>7. BuilderInv'
  BY <1>1, <1>2, <1>4 DEF BuilderInv, h
<1>8. SideInv'
  BY <1>1, <1>2, <1>4 DEF SideInv, h
<1>9. ReaderInv'
  <2>1. src \in 0..n /\ src \in 0..Len(h)
    BY <1>1, <1>3 DEF ReaderInv
  <2>2. ASSUME Founded, src # 0 PROVE Founded'
    <3>1. PICK v \in DOMAIN hist : Footer(hist[v]) = Footer(hist[src])
      BY <2>2 DEF Founded
    <3>2. src \in DOMAIN hist
      BY <1>3, <2>1, <2>2
    <3>3. v \in DOMAIN h /\ Footer(h[v]) = Footer(h[src]) /\ v # Len(h)
      BY <1>4, <3>1, <3>2
    <3> QED BY <1>2, <3>3 DEF Founded, h
  <2> QED BY <1>1, <1>2, <2>1, <2>2 DEF ReaderInv, h
<1> QED BY <1>3, <1>5, <1>6, <1>7, <1>8, <1>9 DEF IndexInv, h

(* Steps of the builder leave the source and the reader alone.             *)
LEMMA ReaderUntouched ==
  ASSUME IndexInv, hist' = hist, src' = src, idx' = idx
  PROVE  hist' \in Seq(Contents) /\ hist' # << >> /\ ReaderInv' /\ Disk' = Disk
<1>1. Founded' = Founded
  BY DEF Founded, Disk
<1> QED BY <1>1 DEF IndexInv, ReaderInv, Disk

LEMMA BuildStartKeeps ==
  ASSUME IndexInv, NEW kind \in Kinds, BuildStart(kind) PROVE IndexInv'
<1>1. /\ hist' = hist /\ side' = side /\ src' = src /\ idx' = idx
      /\ bld' = [pc |-> "scan", kind |-> kind, src |-> Len(hist), next |-> 1, entries |-> {}]
  BY DEF BuildStart
<1>2. hist' \in Seq(Contents) /\ hist' # << >> /\ ReaderInv' /\ Disk' = Disk
  BY <1>1, ReaderUntouched
<1>3. Shapes'
  BY <1>1 DEF IndexInv, Shapes
<1>4. SideInv'
  BY <1>1, <1>2 DEF IndexInv, SideInv
<1>5. BuilderInv'
  <2>1. /\ bld'.pc = "scan" /\ bld'.kind = kind /\ bld'.src = Len(hist) /\ bld'.next = 1
        /\ bld'.entries = {}
    BY <1>1
  <2>2. Len(hist) \in DOMAIN hist /\ LegalContent(Disk)
    BY DiskLegal DEF IndexInv
  <2>3. 1 \in 1..(Len(hist[Len(hist)]) + 1)
    BY <2>2 DEF LegalContent, Disk
  <2>4. IsFiniteSet({})
    BY FS_EmptySet
  <2>5. {} = UNION {EntriesOf(kind, Disk[g], g) : g \in 1..(1 - 1)}
    OBVIOUS
  <2> QED BY <1>1, <1>2, <2>1, <2>2, <2>3, <2>4, <2>5 DEF BuilderInv
<1> QED BY <1>2, <1>3, <1>4, <1>5 DEF IndexInv

LEMMA AbandonKeeps ==
  ASSUME IndexInv, hist' = hist, side' = side, src' = src, idx' = idx, bld' = NoBuild PROVE IndexInv'
<1>2. hist' \in Seq(Contents) /\ hist' # << >> /\ ReaderInv' /\ Disk' = Disk
  BY ReaderUntouched
<1>3. Shapes'
  BY DEF IndexInv, Shapes, NoBuild
<1>4. SideInv'
  BY <1>2 DEF IndexInv, SideInv
<1>5. BuilderInv'
  BY DEF BuilderInv, NoBuild
<1> QED BY <1>2, <1>3, <1>4, <1>5 DEF IndexInv

LEMMA BuildGroupKeeps ==
  ASSUME IndexInv, BuildGroup PROVE IndexInv'
<1>1. /\ hist' = hist /\ side' = side /\ src' = src /\ idx' = idx
      /\ bld.pc = "scan" /\ bld.next <= Len(hist[bld.src])
  BY DEF BuildGroup
<1>2. CASE bld' = NoBuild
  BY <1>1, <1>2, AbandonKeeps
<1>3. CASE /\ bld.next <= Len(Disk)
           /\ bld' = [bld EXCEPT !.next = @ + 1,
                 !.entries = @ \cup EntriesOf(bld.kind, Disk[bld.next], bld.next)]
  <2> DEFINE k == bld.next
             N == EntriesOf(bld.kind, Disk[bld.next], bld.next)
  <2>1. /\ bld'.pc = "scan" /\ bld'.kind = bld.kind /\ bld'.src = bld.src /\ bld'.next = k + 1
        /\ bld'.entries = bld.entries \cup N
        /\ bld' = [pc |-> bld'.pc, kind |-> bld'.kind, src |-> bld'.src, next |-> bld'.next,
                   entries |-> bld'.entries]
    BY <1>1, <1>3 DEF IndexInv, Shapes
  <2>2. hist' \in Seq(Contents) /\ hist' # << >> /\ ReaderInv' /\ Disk' = Disk
    BY <1>1, ReaderUntouched
  <2>3. Shapes'
    BY <1>1, <2>1 DEF IndexInv, Shapes
  <2>4. SideInv'
    BY <1>1, <2>2 DEF IndexInv, SideInv
  <2>5. LegalContent(Disk) /\ \A i \in DOMAIN hist : LegalContent(hist[i])
    BY DiskLegal DEF IndexInv
  <2>6. /\ bld.kind \in Kinds /\ bld.src \in DOMAIN hist /\ IsFiniteSet(bld.entries)
        /\ k \in 1..Len(hist[bld.src]) + 1
        /\ bld.src = Len(hist) =>
              bld.entries = UNION {EntriesOf(bld.kind, Disk[g], g) : g \in 1..(k - 1)}
    BY <1>1 DEF IndexInv, BuilderInv
  <2>7. Len(hist[bld.src]) \in Nat /\ Len(Disk) \in Nat /\ DOMAIN Disk = 1..Len(Disk)
    BY <2>5, <2>6 DEF LegalContent
  <2>8. k \in Nat /\ k + 1 \in 1..Len(hist[bld.src]) + 1 /\ k \in DOMAIN Disk /\ k + 1 - 1 = k
    BY <1>1, <1>3, <2>6, <2>7
  <2>9. IsFiniteSet(bld.entries \cup N)
    <3>1. IsFiniteSet(N)
      BY <2>5, <2>8, GroupEntriesFinite
    <3> HIDE DEF N
    <3> QED BY <2>6, <3>1, FS_Union
  <2>10. ASSUME bld.src = Len(hist)
         PROVE  bld.entries \cup N = UNION {EntriesOf(bld.kind, Disk[g], g) : g \in 1..(k + 1 - 1)}
    <3> DEFINE f(g) == EntriesOf(bld.kind, Disk[g], g)
    <3>1. N = f(k) /\ bld.entries = UNION {f(g) : g \in 1..(k - 1)}
      BY <2>6, <2>10
    <3>2. 1..(k + 1 - 1) = 1..(k - 1) \cup {k}
      BY <2>8, <2>6
    <3> HIDE DEF f, N
    <3>3. bld.entries \cup N = UNION {f(g) : g \in 1..(k - 1) \cup {k}}
      BY <3>1
    <3>4. bld.entries \cup N = UNION {f(g) : g \in 1..(k + 1 - 1)}
      BY <3>2, <3>3
    <3> QED BY <3>4 DEF f
  <2>11. BuilderInv'
    <3> DEFINE e == bld.entries \cup N
               m == k + 1
    <3>1. /\ bld'.pc = "scan" /\ bld'.kind = bld.kind /\ bld'.src = bld.src /\ bld'.next = m
          /\ bld'.entries = e /\ hist' = hist /\ Disk' = Disk
      BY <1>1, <2>1, <2>2
    <3>2. /\ bld.kind \in Kinds /\ bld.src \in DOMAIN hist /\ IsFiniteSet(e)
          /\ m \in 1..Len(hist[bld.src]) + 1
          /\ bld.src = Len(hist) => e = UNION {EntriesOf(bld.kind, Disk[g], g) : g \in 1..(m - 1)}
      BY <2>6, <2>8, <2>9, <2>10
    <3> HIDE DEF e, m, k, N
    <3> QED BY <3>1, <3>2 DEF BuilderInv
  <2> QED BY <2>2, <2>3, <2>4, <2>11 DEF IndexInv
<1> QED BY <1>2, <1>3 DEF BuildGroup

LEMMA BuildCreateKeeps ==
  ASSUME IndexInv, BuildCreate PROVE IndexInv'
<1> DEFINE G == CutBody(bld.kind, SortEntries(bld.kind, bld.entries))
<1>1. /\ hist' = hist /\ src' = src /\ idx' = idx
      /\ bld.pc = "scan" /\ bld.next > Len(hist[bld.src]) /\ bld' = [bld EXCEPT !.pc = "write"]
      /\ side' = [state |-> "torn", kind |-> bld.kind, src |-> bld.src, groups |-> G]
  BY DEF BuildCreate
<1>2. hist' \in Seq(Contents) /\ hist' # << >> /\ ReaderInv' /\ Disk' = Disk
  BY <1>1, ReaderUntouched
<1>3. /\ bld'.pc = "write" /\ bld'.kind = bld.kind /\ bld'.src = bld.src /\ bld'.next = bld.next
      /\ bld'.entries = bld.entries
      /\ bld' = [pc |-> bld'.pc, kind |-> bld'.kind, src |-> bld'.src, next |-> bld'.next,
                 entries |-> bld'.entries]
  BY <1>1 DEF IndexInv, Shapes
<1> HIDE DEF G
<1>4. side'.state = "torn" /\ side'.kind = bld.kind /\ side'.src = bld.src /\ side'.groups = G
  BY <1>1
<1>5. Shapes'
  BY <1>1, <1>3, <1>4 DEF IndexInv, Shapes
<1>6. /\ bld.kind \in Kinds /\ bld.src \in DOMAIN hist /\ IsFiniteSet(bld.entries)
      /\ bld.next \in 1..Len(hist[bld.src]) + 1
      /\ bld.src = Len(hist) =>
            bld.entries = UNION {EntriesOf(bld.kind, Disk[g], g) : g \in 1..(bld.next - 1)}
  BY <1>1 DEF IndexInv, BuilderInv
<1>7. BuilderInv'
  BY <1>1, <1>3, <1>4, <1>6 DEF BuilderInv
<1>8. G # << >>
  BY <1>6, CutNeverEmpty DEF G
<1>9. ASSUME bld.src = Len(hist) PROVE G = BodyOf(bld.kind, Disk)
  <2>1. LegalContent(Disk)
    BY DiskLegal DEF IndexInv
  <2>2. Len(Disk) \in Nat /\ DOMAIN Disk = 1..Len(Disk) /\ hist[bld.src] = Disk
    BY <1>9, <2>1 DEF LegalContent, Disk
  <2>3. bld.next - 1 = Len(Disk)
    BY <1>1, <1>6, <2>2
  <2>4. bld.entries = AllEntries(bld.kind, Disk)
    BY <1>6, <1>9, <2>2, <2>3 DEF AllEntries
  <2> QED BY <2>4 DEF G, BodyOf
<1>10. SideInv'
  BY <1>1, <1>2, <1>4, <1>6, <1>8, <1>9 DEF SideInv
<1> QED BY <1>2, <1>5, <1>7, <1>10 DEF IndexInv

LEMMA BuildFinishKeeps ==
  ASSUME IndexInv, BuildFinish PROVE IndexInv'
<1>1. /\ hist' = hist /\ src' = src /\ idx' = idx /\ bld' = NoBuild
      /\ bld.pc = "write" /\ side' = [side EXCEPT !.state = "complete"]
  BY DEF BuildFinish
<1>2. hist' \in Seq(Contents) /\ hist' # << >> /\ ReaderInv' /\ Disk' = Disk
  BY <1>1, ReaderUntouched
<1>3. /\ side'.state = "complete" /\ side'.kind = side.kind /\ side'.src = side.src
      /\ side'.groups = side.groups
      /\ side' = [state |-> side'.state, kind |-> side'.kind, src |-> side'.src, groups |-> side'.groups]
  BY <1>1 DEF IndexInv, Shapes
<1>4. side.state # "absent"
  BY <1>1 DEF IndexInv, BuilderInv
<1>5. Shapes'
  BY <1>1, <1>3 DEF IndexInv, Shapes, NoBuild
<1>6. SideInv'
  BY <1>1, <1>2, <1>3, <1>4 DEF IndexInv, SideInv
<1>7. BuilderInv'
  BY <1>1 DEF BuilderInv, NoBuild
<1> QED BY <1>2, <1>5, <1>6, <1>7 DEF IndexInv

(* Steps of the reader leave the source, the builder and the sidecar.      *)
LEMMA BuilderUntouched ==
  ASSUME IndexInv, hist' = hist, bld' = bld, side' = side,
         idx' = [mode |-> idx'.mode, kind |-> idx'.kind, groups |-> idx'.groups, swapped |-> idx'.swapped],
         ReaderInv'
  PROVE  IndexInv'
<1>1. Disk' = Disk
  BY DEF Disk
<1>2. BuilderInv' /\ SideInv'
  BY <1>1 DEF IndexInv, BuilderInv, SideInv
<1>3. Shapes'
  BY DEF IndexInv, Shapes
<1> QED BY <1>2, <1>3 DEF IndexInv

LEMMA ClosedKeeps ==
  ASSUME IndexInv, hist' = hist, bld' = bld, side' = side, src' \in 0..Len(hist), idx' = NoIndex
  PROVE  IndexInv'
<1>1. ReaderInv'
  BY DEF ReaderInv, NoIndex
<1>2. idx' = [mode |-> idx'.mode, kind |-> idx'.kind, groups |-> idx'.groups, swapped |-> idx'.swapped]
  BY DEF NoIndex
<1> QED BY <1>1, <1>2, BuilderUntouched

LEMMA SameReaderKeeps ==
  ASSUME IndexInv, hist' = hist, bld' = bld, side' = side, src' = src, idx' = idx
  PROVE  IndexInv'
<1>1. ReaderInv'
  BY ReaderUntouched
<1>2. idx' = [mode |-> idx'.mode, kind |-> idx'.kind, groups |-> idx'.groups, swapped |-> idx'.swapped]
  BY DEF IndexInv, Shapes
<1> QED BY <1>1, <1>2, BuilderUntouched

LEMMA OpenIndexKeeps ==
  ASSUME IndexInv, NEW mode \in {"loading", "lazy"}, OpenIndex(mode) PROVE IndexInv'
<1>1. /\ hist' = hist /\ bld' = bld /\ side' = side /\ src' = src /\ src # 0
  BY DEF OpenIndex
<1>2. CASE ~Verified
  <2>1. idx' = idx
    BY <1>2 DEF OpenIndex
  <2> QED BY <1>1, <2>1, SameReaderKeeps
<1>3. CASE Verified
  <2>1. idx' = [mode |-> mode, kind |-> side.kind, groups |-> side.groups, swapped |-> FALSE]
    BY <1>3 DEF OpenIndex
  <2>2. idx'.mode = mode /\ idx'.kind = side.kind /\ idx'.groups = side.groups /\ ~idx'.swapped
        /\ idx' = [mode |-> idx'.mode, kind |-> idx'.kind, groups |-> idx'.groups, swapped |-> idx'.swapped]
    BY <2>1
  <2>3. side.state = "complete" /\ Footer(hist[side.src]) = Footer(hist[src])
    BY <1>3 DEF Verified
  <2>4. side.kind \in Kinds /\ side.src \in DOMAIN hist
        /\ (side.src = Len(hist) => side.groups = BodyOf(side.kind, Disk))
    BY <2>3 DEF IndexInv, SideInv
  <2>5. Disk' = Disk
    BY <1>1 DEF Disk
  <2>6. Founded'
    BY <1>1, <2>2, <2>3, <2>4, <2>5 DEF Founded
  <2>7. src \in 0..Len(hist)
    BY DEF IndexInv, ReaderInv
  <2>8. ReaderInv'
    BY <1>1, <2>2, <2>4, <2>6, <2>7 DEF ReaderInv
  <2> QED BY <1>1, <2>2, <2>8, BuilderUntouched
<1> QED BY <1>2, <1>3

LEMMA LoadIndexKeeps ==
  ASSUME IndexInv, LoadIndex PROVE IndexInv'
<1>1. /\ hist' = hist /\ bld' = bld /\ side' = side /\ src' = src /\ idx.mode = "loading"
  BY DEF LoadIndex
<1>2. src \in 0..Len(hist) /\ src # 0 /\ idx.kind \in Kinds /\ Founded
  BY <1>1 DEF IndexInv, ReaderInv
<1>3. PICK groups \in BodyRead :
          IF groups = NotRead
          THEN idx' = NoIndex
          ELSE idx' = [idx EXCEPT !.mode = "eager", !.groups = groups, !.swapped = ~SameBody]
  BY DEF LoadIndex
<1>4. CASE groups = NotRead
  BY <1>1, <1>2, <1>3, <1>4, ClosedKeeps
<1>5. CASE groups # NotRead
  <2>1. groups = side.groups
    BY <1>5 DEF BodyRead
  <2>2. /\ idx'.mode = "eager" /\ idx'.kind = idx.kind /\ idx'.groups = groups /\ idx'.swapped = ~SameBody
        /\ idx' = [mode |-> idx'.mode, kind |-> idx'.kind, groups |-> idx'.groups, swapped |-> idx'.swapped]
    BY <1>3, <1>5 DEF IndexInv, Shapes
  <2>3. ASSUME ~idx'.swapped PROVE Founded'
    <3>1. SameBody
      BY <2>2, <2>3
    <3>2. idx'.groups = idx.groups
      BY <2>1, <2>2, <3>1 DEF SameBody
    <3>3. Disk' = Disk
      BY <1>1 DEF Disk
    <3> QED BY <1>1, <1>2, <2>2, <3>2, <3>3 DEF Founded
  <2>4. ReaderInv'
    BY <1>1, <1>2, <2>2, <2>3 DEF ReaderInv
  <2> QED BY <1>1, <2>2, <2>4, BuilderUntouched
<1> QED BY <1>4, <1>5

LEMMA LazyLookupKeeps ==
  ASSUME IndexInv, NEW q, LazyLookup(q) PROVE IndexInv'
<1>1. /\ hist' = hist /\ bld' = bld /\ side' = side /\ src' = src /\ idx.mode = "lazy"
  BY DEF LazyLookup
<1>2. idx' = idx \/ idx' = [idx EXCEPT !.swapped = ~SameBody]
  BY DEF LazyLookup
<1>3. CASE idx' = idx
  BY <1>1, <1>3, SameReaderKeeps
<1>4. CASE idx' = [idx EXCEPT !.swapped = ~SameBody]
  <2>1. /\ idx'.mode = idx.mode /\ idx'.kind = idx.kind /\ idx'.groups = idx.groups
        /\ idx' = [mode |-> idx'.mode, kind |-> idx'.kind, groups |-> idx'.groups, swapped |-> idx'.swapped]
    BY <1>4 DEF IndexInv, Shapes
  <2>2. src \in 0..Len(hist) /\ src # 0 /\ idx.kind \in Kinds /\ Founded
    BY <1>1 DEF IndexInv, ReaderInv
  <2>3. Disk' = Disk
    BY <1>1 DEF Disk
  <2>4. Founded'
    BY <1>1, <2>1, <2>2, <2>3 DEF Founded
  <2>5. ReaderInv'
    BY <1>1, <2>1, <2>2, <2>4 DEF ReaderInv
  <2> QED BY <1>1, <2>1, <2>5, BuilderUntouched
<1> QED BY <1>2, <1>3, <1>4

LEMMA StepKeeps == IndexInv /\ [IndexNext]_indexVars => IndexInv'
<1> SUFFICES ASSUME IndexInv, [IndexNext]_indexVars PROVE IndexInv'
  OBVIOUS
<1>1. ASSUME NEW c \in Contents, Rewrite(c) PROVE IndexInv'
  BY <1>1, RewriteKeeps
<1>2. ASSUME NEW kind \in Kinds, BuildStart(kind) PROVE IndexInv'
  BY <1>2, BuildStartKeeps
<1>3. CASE BuildGroup
  BY <1>3, BuildGroupKeeps
<1>4. CASE BuildCreate
  BY <1>4, BuildCreateKeeps
<1>5. CASE BuildFinish
  BY <1>5, BuildFinishKeeps
<1>6. CASE BuildCrash
  BY <1>6, AbandonKeeps DEF BuildCrash
<1>7. CASE OpenSource
  <2>1. Len(hist) \in 0..Len(hist)
    BY DiskLegal DEF IndexInv
  <2> QED BY <1>7, <2>1, ClosedKeeps DEF OpenSource
<1>8. ASSUME NEW mode \in {"loading", "lazy"}, OpenIndex(mode) PROVE IndexInv'
  BY <1>8, OpenIndexKeeps
<1>9. CASE LoadIndex
  BY <1>9, LoadIndexKeeps
<1>10. ASSUME NEW q \in Queries, EagerLookup(q) PROVE IndexInv'
  BY <1>10, SameReaderKeeps DEF EagerLookup
<1>11. ASSUME NEW q \in Queries, LazyLookup(q) PROVE IndexInv'
  BY <1>11, LazyLookupKeeps
<1>12. CASE CloseIndex
  <2>1. src \in 0..Len(hist)
    BY DEF IndexInv, ReaderInv
  <2> QED BY <1>12, <2>1, ClosedKeeps DEF CloseIndex
<1>13. CASE UNCHANGED indexVars
  BY <1>13, SameReaderKeeps DEF indexVars
<1> QED BY <1>1, <1>2, <1>3, <1>4, <1>5, <1>6, <1>7, <1>8, <1>9, <1>10, <1>11, <1>12, <1>13 DEF IndexNext

-----------------------------------------------------------------------------
(* What the reader is answered.                                            *)

(* A founded index whose source has the present footer, no two versions    *)
(* sharing one, is the body a build of the present content writes.         *)
LEMMA FoundedIsPresent ==
  ASSUME IndexInv, Founded, FootersDiffer, Reliable(src)
  PROVE  idx.groups = BodyOf(idx.kind, Disk)
<1>1. PICK v \in DOMAIN hist :
         /\ Footer(hist[v]) = Footer(hist[src])
         /\ v = Len(hist) => idx.groups = BodyOf(idx.kind, Disk)
  BY DEF Founded
<1>2. Footer(hist[v]) = Footer(hist[Len(hist)])
  BY <1>1 DEF Reliable, Disk
<1>3. Len(hist) \in DOMAIN hist
  BY DiskLegal DEF IndexInv
<1>4. v = Len(hist)
  BY <1>2, <1>3 DEF FootersDiffer
<1> QED BY <1>1, <1>4

LEMMA QueryLegal == \A q \in Queries : Legal(q)
BY QueriesAssumption DEF Legal

LEMMA EagerAnswerRight ==
  ASSUME IndexInv, NEW q \in Queries, EagerLookup(q) PROVE AnswerIsFullScan'
<1>1. hist' = hist /\ src' = src /\ idx' = idx /\ idx.mode = "eager"
  BY DEF EagerLookup
<1>2. FootersDiffer' = FootersDiffer /\ Disk' = Disk
  BY <1>1 DEF FootersDiffer, Disk
<1>3. SUFFICES ASSUME ans'.out = "rows", FootersDiffer, ~idx.swapped, OwnColumn(ans'.q)
               PROVE  ans'.rows = FullScan(Disk, ans'.q)
  BY <1>1, <1>2 DEF AnswerIsFullScan
<1>4. /\ Accepts(idx.kind, q) /\ Reliable(src)
      /\ ans'.q = q /\ ans'.rows = EagerAnswer(Disk, idx.groups, q)
  <2>1. CASE ~Accepts(idx.kind, q)
    BY <1>3, <2>1 DEF EagerLookup, Return
  <2>2. CASE Accepts(idx.kind, q) /\ ~Reliable(src)
    BY <1>3, <2>2 DEF EagerLookup, ReturnRows, Return
  <2>3. CASE Accepts(idx.kind, q) /\ Reliable(src)
    BY <2>3 DEF EagerLookup, ReturnRows, Return
  <2> QED BY <2>1, <2>2, <2>3
<1>5. Founded /\ idx.kind \in Kinds
  BY <1>1, <1>3 DEF IndexInv, ReaderInv
<1>6. idx.groups = BodyOf(idx.kind, Disk)
  BY <1>3, <1>4, <1>5, FoundedIsPresent
<1>7. LegalContent(Disk)
  BY DiskLegal DEF IndexInv
<1>8. idx.kind \in {"i64", "i32", "composite", "inverted", "bloom"}
  BY <1>5, KindsAssumption
<1>9. Legal(q) /\ OwnColumn(q)
  BY <1>3, <1>4, QueryLegal
<1>10. EagerAnswer(Disk, BodyOf(idx.kind, Disk), q) = FullScan(Disk, q)
  BY <1>4, <1>7, <1>8, <1>9, EagerIsScan
<1> QED BY <1>4, <1>6, <1>10

LEMMA LazyAnswerRight ==
  ASSUME IndexInv, NEW q \in Queries, LazyLookup(q) PROVE AnswerIsFullScan'
<1>1. hist' = hist /\ src' = src /\ idx.mode = "lazy" /\ q.op = "eq"
  BY DEF LazyLookup
<1>2. FootersDiffer' = FootersDiffer /\ Disk' = Disk
  BY <1>1 DEF FootersDiffer, Disk
<1>3. SUFFICES ASSUME ans'.out = "rows", FootersDiffer, ~idx'.swapped
               PROVE  ans'.rows = FullScan(Disk, ans'.q)
  BY <1>1, <1>2 DEF AnswerIsFullScan
<1>4. PICK groups \in BodyRead :
          IF idx.kind # "i64" \/ groups = NotRead
          THEN Return("error", q, <<>>) /\ UNCHANGED idx
          ELSE /\ ReturnRows(q, Materialise(Disk, LazyHits(groups, <<q.x>>)))
               /\ idx' = [idx EXCEPT !.swapped = ~SameBody]
  BY DEF LazyLookup
<1>5. idx.kind = "i64" /\ groups # NotRead
  BY <1>3, <1>4 DEF Return
<1>6. /\ ReturnRows(q, Materialise(Disk, LazyHits(groups, <<q.x>>)))
      /\ idx' = [idx EXCEPT !.swapped = ~SameBody]
  BY <1>4, <1>5
<1>7. Reliable(src) /\ ans'.q = q /\ ans'.rows = Materialise(Disk, LazyHits(groups, <<q.x>>))
  <2>1. CASE ~Reliable(src)
    BY <1>3, <1>6, <2>1 DEF ReturnRows, Return
  <2>2. CASE Reliable(src)
    BY <1>6, <2>2 DEF ReturnRows, Return
  <2> QED BY <2>1, <2>2
<1>8. SameBody
  <2>1. idx'.swapped = ~SameBody
    BY <1>6 DEF IndexInv, Shapes
  <2> QED BY <1>3, <2>1
<1>9. groups = idx.groups
  BY <1>5, <1>8 DEF BodyRead, SameBody
<1>10. Founded
  BY <1>1 DEF IndexInv, ReaderInv
<1>11. idx.groups = BodyOf("i64", Disk)
  BY <1>3, <1>5, <1>7, <1>10, FoundedIsPresent
<1>12. LegalContent(Disk) /\ Legal(q)
  BY DiskLegal, QueryLegal DEF IndexInv
<1>13. Materialise(Disk, LazyHits(BodyOf("i64", Disk), <<q.x>>)) = FullScan(Disk, q)
  BY <1>1, <1>12, LazyIsScan
<1> QED BY <1>7, <1>9, <1>11, <1>13

(* What a step other than a lookup leaves in ans.                          *)
LEMMA OtherAnswers ==
  ASSUME IndexNext
  PROVE  \/ ans'.out \in {"none", "failed"}
         \/ ans'.out = "refused" /\ \E mode \in {"loading", "lazy"} : OpenIndex(mode)
         \/ \E q \in Queries : EagerLookup(q) \/ LazyLookup(q)
<1>1. ASSUME NEW c \in Contents, Rewrite(c) PROVE ans'.out = "none"
  BY <1>1 DEF Rewrite, NoAns
<1>2. ASSUME NEW kind \in Kinds, BuildStart(kind) PROVE ans'.out = "none"
  BY <1>2 DEF BuildStart, NoAns
<1>3. BuildGroup \/ BuildCreate \/ BuildFinish \/ BuildCrash => ans'.out = "none"
  BY DEF BuildGroup, BuildCreate, BuildFinish, BuildCrash, NoAns
<1>4. OpenSource \/ CloseIndex => ans'.out = "none"
  BY DEF OpenSource, CloseIndex, NoAns
<1>5. ASSUME NEW mode \in {"loading", "lazy"}, OpenIndex(mode) PROVE ans'.out \in {"none", "refused"}
  BY <1>5 DEF OpenIndex, Return, NoAns
<1>6. LoadIndex => ans'.out \in {"none", "failed"}
  BY DEF LoadIndex, Return, NoAns
<1> QED BY <1>1, <1>2, <1>3, <1>4, <1>5, <1>6 DEF IndexNext

LEMMA AnswerStep ==
  IndexInv /\ AnswerIsFullScan /\ [IndexNext]_indexVars => AnswerIsFullScan'
<1> SUFFICES ASSUME IndexInv, AnswerIsFullScan, [IndexNext]_indexVars PROVE AnswerIsFullScan'
  OBVIOUS
<1>1. CASE UNCHANGED indexVars
  BY <1>1 DEF indexVars, AnswerIsFullScan, FootersDiffer, Disk
<1>2. CASE IndexNext
  <2>1. ans'.out \in {"none", "failed", "refused"} => AnswerIsFullScan'
    BY DEF AnswerIsFullScan
  <2> QED BY <1>2, <2>1, OtherAnswers, EagerAnswerRight, LazyAnswerRight
<1> QED BY <1>1, <1>2

(* Rows that ParquetIndex and LazyParquetIndex lookups return are those of *)
(* a full scan of the present source, in file order, whatever was          *)
(* rewritten, rebuilt, crashed or torn before: given that rewrites change  *)
(* the footer, which is all compute_source_fingerprint sees, and that the  *)
(* sidecar's bytes are not replaced between the open and the body read.    *)
THEOREM AnswersAreFullScans == IndexSpec => []AnswerIsFullScan
<1>1. IndexInit => IndexInv /\ AnswerIsFullScan
  <2>1. IndexInit => AnswerIsFullScan
    BY DEF IndexInit, AnswerIsFullScan, NoAns
  <2> QED BY <2>1, InitInv
<1>2. IndexInv /\ AnswerIsFullScan /\ [IndexNext]_indexVars => (IndexInv /\ AnswerIsFullScan)'
  BY StepKeeps, AnswerStep
<1> QED BY <1>1, <1>2, PTL DEF IndexSpec

(* The inductive invariant: whichever build, rewrite, crash, open or lookup *)
(* happens, a complete sidecar fingerprinted with the present source has   *)
(* the body of the present content, and an opened index a body whose       *)
(* source had the footer the reader's handle holds.                        *)
THEOREM IndexIsSound == IndexSpec => []IndexInv
BY InitInv, StepKeeps, PTL DEF IndexSpec

LEMMA ServedStep ==
  IndexInv /\ CurrentIsServed /\ [IndexNext]_indexVars => CurrentIsServed'
<1> SUFFICES ASSUME IndexInv, CurrentIsServed, [IndexNext]_indexVars PROVE CurrentIsServed'
  OBVIOUS
<1>1. CASE UNCHANGED indexVars
  BY <1>1 DEF indexVars, CurrentIsServed, SameBody, Disk
<1>2. ans'.out \in {"none", "failed"} => CurrentIsServed'
  BY DEF CurrentIsServed
<1>3. ASSUME NEW mode \in {"loading", "lazy"}, OpenIndex(mode), ans'.out = "refused" PROVE CurrentIsServed'
  <2>1. /\ hist' = hist /\ side' = side /\ src' = src
    BY <1>3 DEF OpenIndex
  <2>2. ~Verified
    BY <1>3 DEF OpenIndex, NoAns
  <2>3. ~(side.state = "complete" /\ hist[side.src] = Disk /\ hist[src] = Disk)
    BY <2>2 DEF Verified
  <2> QED BY <2>1, <2>3 DEF CurrentIsServed, Disk
<1>4. ASSUME NEW q \in Queries, EagerLookup(q) PROVE CurrentIsServed'
  <2>1. idx' = idx
    BY <1>4 DEF EagerLookup
  <2>2. CASE Accepts(idx.kind, q)
    <3>1. ans'.out \in {"rows", "unreliable"}
      BY <1>4, <2>2 DEF EagerLookup, ReturnRows, Return
    <3> QED BY <3>1 DEF CurrentIsServed
  <2>3. CASE ~Accepts(idx.kind, q)
    <3>1. ans'.out = "error" /\ ans'.q = q
      BY <1>4, <2>3 DEF EagerLookup, Return
    <3> QED BY <2>1, <2>3, <3>1 DEF CurrentIsServed
  <2> QED BY <2>2, <2>3
<1>5. ASSUME NEW q \in Queries, LazyLookup(q) PROVE CurrentIsServed'
  <2>1. /\ hist' = hist /\ side' = side /\ src' = src /\ idx.mode = "lazy"
    BY <1>5 DEF LazyLookup
  <2>2. PICK groups \in BodyRead :
          IF idx.kind # "i64" \/ groups = NotRead
          THEN Return("error", q, <<>>) /\ UNCHANGED idx
          ELSE /\ ReturnRows(q, Materialise(Disk, LazyHits(groups, <<q.x>>)))
               /\ idx' = [idx EXCEPT !.swapped = ~SameBody]
    BY <1>5 DEF LazyLookup
  <2>3. CASE idx.kind # "i64" \/ groups = NotRead
    <3>1. ans'.out = "error" /\ ans'.q = q /\ idx' = idx
      BY <2>2, <2>3 DEF Return
    <3>2. SUFFICES ASSUME side.state = "complete", idx.kind = "i64", SameBody PROVE FALSE
      <4>1. SameBody' = SameBody
        BY <2>1, <3>1 DEF SameBody
      <4> QED BY <2>1, <3>1, <4>1 DEF CurrentIsServed
    <3>3. groups = side.groups
      BY <3>2 DEF BodyRead
    <3>4. side.groups # << >>
      BY <3>2 DEF IndexInv, SideInv
    <3> QED BY <2>3, <3>2, <3>3, <3>4 DEF NotRead
  <2>4. CASE ~(idx.kind # "i64" \/ groups = NotRead)
    <3>1. ans'.out \in {"rows", "unreliable"}
      BY <2>2, <2>4 DEF ReturnRows, Return
    <3> QED BY <3>1 DEF CurrentIsServed
  <2> QED BY <2>3, <2>4
<1> QED BY <1>1, <1>2, <1>3, <1>4, <1>5, OtherAnswers

(* A complete sidecar of the present source is not refused by the open's   *)
(* fingerprint check, and a lookup on it errs only for a query its kind    *)
(* does not support or, lazily, when the body was replaced meanwhile.      *)
THEOREM CurrentServed == IndexSpec => []CurrentIsServed
<1>1. IndexInit => IndexInv /\ CurrentIsServed
  <2>1. IndexInit => CurrentIsServed
    BY DEF IndexInit, CurrentIsServed, NoAns
  <2> QED BY <2>1, InitInv
<1>2. IndexInv /\ CurrentIsServed /\ [IndexNext]_indexVars => (IndexInv /\ CurrentIsServed)'
  BY StepKeeps, ServedStep
<1> QED BY <1>1, <1>2, PTL DEF IndexSpec

LEMMA NoPageRuledOut == IndexInv => NoFalseNegative
<1> SUFFICES ASSUME IndexInv,
                    idx.mode = "eager", idx.kind = "bloom", FootersDiffer, ~idx.swapped, Reliable(src),
                    NEW q \in Queries, NEW rg \in DOMAIN Disk, NEW p \in DOMAIN Disk[rg].pages,
                    q.x \in Range(Disk[rg].pages[p])
             PROVE  <<rg, p>> \in BloomProbe(FlattenSeq(idx.groups), q.x)
  BY DEF NoFalseNegative
<1>1. Founded
  BY DEF IndexInv, ReaderInv
<1>2. idx.groups = BodyOf("bloom", Disk)
  BY <1>1, FoundedIsPresent
<1>3. LegalContent(Disk)
  BY DiskLegal DEF IndexInv
<1>4. FlattenSeq(idx.groups) = SortedEntries("bloom", Disk)
  BY <1>2, <1>3, BodyHolds
<1> QED BY <1>3, <1>4, FilterAdmits

(* bloom_probe on a loaded page Bloom names every page that holds the key. *)
THEOREM BloomsRuleNothingOut == IndexSpec => []NoFalseNegative
BY IndexIsSound, NoPageRuledOut, PTL

-----------------------------------------------------------------------------
(* The dataset layer.                                                      *)

Ranges == [kind : {"range"}, index : Indexes, low : Keys \cup {NoKey}, high : Keys \cup {NoKey}]
Equal == {q \in [kind : {"eq"}, index : Indexes, low : Keys, high : Keys] : q.low = q.high}

Entries == [alive : BOOLEAN, content : {"data", "deletes"}, file : Files]

(* The inductive invariant: what has been collected is what the manifests  *)
(* loaded so far list, what is kept is what the predicates let through     *)
(* without an error, and all of it that has an extension is paired.        *)
Snapshot ==
  /\ manifests \in Seq(Seq(Entries))
  /\ walked \in 0..Len(manifests)
  /\ pc \in {"write", "walk", "collected", "pruned", "paired", "failed"}
  /\ pc = "write" => walked = 0
  /\ pc \in {"collected", "pruned", "paired"} => walked = Len(manifests)

Collected == pc # "failed" => \A p \in Positions : p[1] <= walked /\ Listed(p) => p \in files

Kept ==
  pc \in {"pruned", "paired"} =>
    /\ query \in Equal \cup Ranges
    /\ \A p \in files : Prunes(p, query) = "yes" => p \in kept
    /\ \A p \in files : Prunes(p, query) # "error"

Paired ==
  pc = "paired" =>
    \A p \in kept : HasExtension(DataFile(p)) =>
      p \in DOMAIN pairs /\ pairs[p] = Resolve(DataFile(p).path, DataFile(p).sidecar)

IInv == Snapshot /\ Collected /\ Kept /\ Paired

-----------------------------------------------------------------------------
(* The summary found is one of the index asked for, as the producer named  *)
(* it, and bounds the rows.                                                *)
LEMMA SummaryBounds ==
  ASSUME NEW f \in Files, NEW x \in Indexes, HasSummary(f, x)
  PROVE  LET s == Summary(f, x)
         IN  s.name = x /\ Bounds(s, f.rows) /\ s.min.v \in Int /\ s.max.v \in Int
<1>1. Named(f, x) # {} /\ Named(f, x) \subseteq DOMAIN f.summaries /\ DOMAIN f.summaries \subseteq Nat
  BY FilesAssumption DEF HasSummary, Named
<1>2. \E i \in Named(f, x) : \A j \in Named(f, x) : i <= j
  <2>1. Named(f, x) \in SUBSET Nat
    BY <1>1
  <2> QED BY <1>1, <2>1, LeastNat
<1>3. PICK i \in Named(f, x) : Summary(f, x) = f.summaries[i]
  BY <1>2 DEF Summary
<1>4. Bounds(f.summaries[i], f.rows) /\ f.summaries[i].min.v \in Int /\ f.summaries[i].max.v \in Int
  BY <1>1, <1>3, FilesAssumption
<1>5. f.summaries[i].name = x
  BY <1>3, <1>4, NamesAssumption DEF Named, Bounds
<1> QED BY <1>3, <1>4, <1>5

(* Neither predicate says no to a summary of a file with a row asked for.  *)
LEMMA NeverNo ==
  ASSUME NEW q \in Equal \cup Ranges, NEW s, NEW rows, NEW r \in rows[q.index], r \in Int,
         s.name = q.index, Bounds(s, rows), s.min.v \in Int, s.max.v \in Int, Answers(q, r)
  PROVE  /\ q.kind = "eq" => could_contain_eq(s, q.low) # "no"
         /\ q.kind # "eq" => could_contain_range(s, q.low, q.high) # "no"
<1>1. /\ s.min # NoKey => s.min.type = TypeOf[q.index] /\ s.min.v <= r
      /\ s.max # NoKey => s.max.type = TypeOf[q.index] /\ r <= s.max.v
  BY DEF Bounds
<1>2. CASE q \in Equal
  <2>1. q.low \in Keys /\ q.low.v \in Int /\ q.kind = "eq"
    BY <1>2, KeysAssumption DEF Equal
  <2>2. q.low.v = r
    BY <2>1 DEF Answers
  <2>3. ~Below(q.low, s.min) /\ ~Above(q.low, s.max)
    BY <1>1, <2>2 DEF Below, Above, Lt
  <2> QED BY <2>1, <2>3 DEF could_contain_eq
<1>3. CASE q \in Ranges
  <2>1. q.kind = "range" /\ (q.low # NoKey => q.low.v \in Int) /\ (q.high # NoKey => q.high.v \in Int)
    BY <1>3, KeysAssumption DEF Ranges
  <2>2. (q.low # NoKey => q.low.v <= r) /\ (q.high # NoKey => r <= q.high.v)
    BY <2>1 DEF Answers
  <2>3. ~Below(q.high, s.min) /\ ~Above(q.low, s.max)
    BY <1>1, <2>1, <2>2 DEF Below, Above, Lt
  <2> QED BY <2>1, <2>3 DEF could_contain_range
<1> QED BY <1>2, <1>3

LEMMA MatchingKept ==
  ASSUME IInv, pc \in {"pruned", "paired"}, NEW p \in Positions, Listed(p), Matches(DataFile(p))
  PROVE  p \in kept
<1>1. /\ DataFile(p) \in Files /\ p[1] \in 1..Len(manifests)
  <2>1. PICK m \in DOMAIN manifests : p \in {m} \X (DOMAIN manifests[m])
    BY DEF Positions
  <2>2. p[1] = m /\ p[2] \in DOMAIN manifests[m]
    BY <2>1
  <2>3. manifests[m] \in Seq(Entries)
        /\ m \in 1..Len(manifests)
    BY <2>1 DEF IInv, Snapshot
  <2>4. manifests[m][p[2]] \in Entries
    BY <2>2, <2>3
  <2> QED BY <2>2, <2>3, <2>4 DEF DataFile, Entry, Entries
<1>2. p \in files /\ Prunes(p, query) # "error"
  BY <1>1 DEF IInv, Snapshot, Collected, Kept
<1>3. PICK r \in DataFile(p).rows[query.index] : Answers(query, r)
  BY DEF Matches
<1>4. query \in Equal \cup Ranges /\ query.index \in Indexes
  BY DEF IInv, Kept, Equal, Ranges
<1>5. r \in Int
  BY <1>1, <1>3, <1>4, FilesAssumption
<1>6. ASSUME HasSummary(DataFile(p), query.index) PROVE Verdict(p, query) # "no"
  <2> DEFINE s == Summary(DataFile(p), query.index)
  <2>1. s.name = query.index /\ Bounds(s, DataFile(p).rows) /\ s.min.v \in Int /\ s.max.v \in Int
    BY <1>1, <1>4, <1>6, SummaryBounds
  <2> HIDE DEF s
  <2>2. /\ query.kind = "eq" => could_contain_eq(s, query.low) # "no"
        /\ query.kind # "eq" => could_contain_range(s, query.low, query.high) # "no"
    BY <1>3, <1>4, <1>5, <2>1, NeverNo
  <2> QED BY <2>2 DEF Verdict, s
<1>7. Verdict(p, query) \in {"yes", "no", "error"}
  BY DEF Verdict, could_contain_eq, could_contain_range
<1>8. Prunes(p, query) = "yes"
  BY <1>2, <1>6, <1>7 DEF Prunes
<1> QED BY <1>2, <1>8 DEF IInv, Kept

LEMMA Strong == IInv => NoMatchingFilePruned
<1> SUFFICES ASSUME IInv, pc \in {"pruned", "paired"}, NEW p \in Positions, Listed(p),
                    Matches(DataFile(p))
             PROVE  p \in kept /\ (pc = "paired" => Planned(p))
  BY DEF NoMatchingFilePruned
<1>1. p \in kept
  BY MatchingKept
<1>2. ASSUME pc = "paired", HasExtension(DataFile(p))
      PROVE  /\ p \in DOMAIN pairs
             /\ pairs[p].dir \in {DataFile(p).path, DataFile(p).sidecar.dir}
  <2>1. p \in DOMAIN pairs /\ pairs[p] = Resolve(DataFile(p).path, DataFile(p).sidecar)
    BY <1>1, <1>2 DEF IInv, Paired
  <2>2. Resolve(DataFile(p).path, DataFile(p).sidecar).dir
          \in {DataFile(p).path, DataFile(p).sidecar.dir}
    BY DEF Resolve
  <2> QED BY <2>1, <2>2
<1> QED BY <1>1, <1>2 DEF Planned

-----------------------------------------------------------------------------
(* One lemma per group of steps.                                           *)

LEMMA WriteHolds == ASSUME IInv, AddManifest \/ AddEntry PROVE IInv'
<1>1. /\ pc = "write" /\ pc' = "write" /\ walked = 0 /\ walked' = 0
      /\ manifests \in Seq(Seq(Entries))
  BY DEF IInv, Snapshot, AddManifest, AddEntry, Entries
<1>2. CASE AddManifest
  <2>1. << >> \in Seq(Entries)
    OBVIOUS
  <2>2. manifests' = Append(manifests, << >>)
    BY <1>2 DEF AddManifest
  <2> QED BY <1>1, <2>1, <2>2
          DEF IInv, Snapshot, Collected, Kept, Paired, Positions, Entries
<1>3. CASE AddEntry
  <2> DEFINE n == Len(manifests)
  <2>1. n \in 1..Len(manifests) /\ manifests[n] \in Seq(Entries)
    BY <1>1, <1>3 DEF AddEntry
  <2>2. PICK e \in Entries : manifests' = [manifests EXCEPT ![n] = Append(@, e)]
    BY <1>3 DEF AddEntry, Entries
  <2>3. Append(manifests[n], e) \in Seq(Entries)
    BY <2>1, <2>2
  <2>4. manifests' \in Seq(Seq(Entries)) /\ Len(manifests') = Len(manifests)
    BY <1>1, <2>1, <2>2, <2>3
  <2> QED BY <1>1, <2>4 DEF IInv, Snapshot, Collected, Kept, Paired, Positions, Entries
<1> QED BY <1>2, <1>3

LEMMA WalkHolds ==
  ASSUME IInv, StartWalk \/ LoadManifest \/ LoadFails \/ EndWalk PROVE IInv'
<1>1. manifests' = manifests /\ Positions' = Positions /\ pc' \in {"walk", "failed", "collected"}
  BY DEF StartWalk, LoadManifest, LoadFails, EndWalk, Positions
<1>2. Snapshot'
  BY <1>1 DEF IInv, Snapshot, StartWalk, LoadManifest, LoadFails, EndWalk
<1>3. Collected'
  <2>1. CASE LoadManifest
    <3>1. SUFFICES ASSUME NEW p \in Positions, p[1] <= walked + 1, Listed(p) PROVE p \in files'
      BY <1>1, <2>1 DEF Collected, LoadManifest, Listed, Entry
    <3>2. PICK m \in DOMAIN manifests : p \in {m} \X (DOMAIN manifests[m])
      BY DEF Positions
    <3>3. m \in Nat /\ walked \in Nat /\ p[1] = m
      BY <3>2 DEF IInv, Snapshot
    <3>4. CASE m = walked + 1
      BY <2>1, <3>1, <3>2, <3>4 DEF LoadManifest, OfManifest
    <3>5. CASE m <= walked
      BY <2>1, <3>1, <3>3, <3>5 DEF LoadManifest, IInv, Collected
    <3> QED BY <3>1, <3>3, <3>4, <3>5
  <2>2. CASE LoadFails
    BY <2>2 DEF LoadFails, Collected
  <2>3. CASE StartWalk \/ EndWalk
    BY <1>1, <2>3 DEF IInv, StartWalk, EndWalk, Collected, Listed, Entry
  <2> QED BY <2>1, <2>2, <2>3
<1> QED BY <1>1, <1>2, <1>3 DEF IInv, Kept, Paired

LEMMA PruneHolds ==
  ASSUME IInv, NEW q \in Equal \cup Ranges, Prune(q) PROVE IInv'
<1>1. /\ pc = "collected" /\ UNCHANGED <<manifests, walked, files, pairs>> /\ query' = q
      /\ pc' \in {"pruned", "failed"}
  BY DEF Prune
<1>2. Snapshot' /\ Collected' /\ Paired'
  BY <1>1 DEF IInv, Snapshot, Collected, Paired, Positions, Listed, Entry
<1>3. \A p : Prunes(p, q)' = Prunes(p, q)
  BY <1>1 DEF Prunes, Verdict, DataFile, Entry
<1>4. Kept'
  <2>1. CASE pc' = "pruned"
    <3>1. (\A p \in files : Prunes(p, q) # "error") /\ kept' = {p \in files : Prunes(p, q) = "yes"}
      BY <2>1 DEF Prune
    <3>2. \A p : Prunes(p, query)' = Prunes(p, q)
      BY <1>1 DEF Prunes, Verdict, DataFile, Entry
    <3> QED BY <1>1, <3>1, <3>2 DEF Kept
  <2>2. CASE pc' = "failed"
    BY <2>2 DEF Kept
  <2> QED BY <1>1, <2>1, <2>2
<1> QED BY <1>2, <1>4 DEF IInv

LEMMA PairHolds == ASSUME IInv, pair_with_extensions PROVE IInv'
<1>1. /\ UNCHANGED <<manifests, walked, files, query, kept>> /\ pc = "pruned" /\ pc' = "paired"
      /\ pairs' = [p \in {p \in kept : HasExtension(DataFile(p))} |->
                     Resolve(DataFile(p).path, DataFile(p).sidecar)]
  BY DEF pair_with_extensions
<1>2. Snapshot' /\ Collected'
  BY <1>1 DEF IInv, Snapshot, Collected, Positions, Listed, Entry
<1>3. \A p : Prunes(p, query)' = Prunes(p, query) /\ DataFile(p)' = DataFile(p)
  BY <1>1 DEF Prunes, Verdict, DataFile, Entry
<1>4. Kept'
  BY <1>1, <1>3 DEF IInv, Kept
<1>5. Paired'
  BY <1>1, <1>3 DEF Paired
<1> QED BY <1>2, <1>4, <1>5 DEF IInv

(* What prune and pair leave out holds no row the query asks for, but for  *)
(* files without an extension.                                             *)
THEOREM NothingLost == Spec => []NoMatchingFilePruned
<1>1. Init => IInv
  BY DEF Init, IInv, Snapshot, Collected, Kept, Paired, Positions
<1>2. IInv /\ [Next]_vars => IInv'
  <2> SUFFICES ASSUME IInv, [Next]_vars PROVE IInv' OBVIOUS
  <2>1. CASE AddManifest \/ AddEntry BY <2>1, WriteHolds
  <2>2. CASE StartWalk \/ LoadManifest \/ LoadFails \/ EndWalk BY <2>2, WalkHolds
  <2>3. CASE PruneEq
    <3>1. PICK x \in Indexes, k \in Keys :
            Prune([kind |-> "eq", index |-> x, low |-> k, high |-> k])
      BY <2>3 DEF PruneEq
    <3>2. [kind |-> "eq", index |-> x, low |-> k, high |-> k] \in Equal
      BY DEF Equal
    <3> QED BY <3>1, <3>2, PruneHolds
  <2>4. CASE PruneRange
    <3>1. PICK x \in Indexes, low \in Keys \cup {NoKey}, high \in Keys \cup {NoKey} :
            Prune([kind |-> "range", index |-> x, low |-> low, high |-> high])
      BY <2>4 DEF PruneRange
    <3>2. [kind |-> "range", index |-> x, low |-> low, high |-> high] \in Ranges
      BY DEF Ranges
    <3> QED BY <3>1, <3>2, PruneHolds
  <2>5. CASE pair_with_extensions BY <2>5, PairHolds
  <2>6. CASE UNCHANGED vars \/ Done
    BY <2>6 DEF IInv, Snapshot, Collected, Kept, Paired, Positions, Listed, Entry, DataFile, Prunes,
                Verdict, vars, Done
  <2> QED BY <2>1, <2>2, <2>3, <2>4, <2>5, <2>6 DEF Next
<1> QED BY <1>1, <1>2, Strong, PTL DEF Spec
=============================================================================
