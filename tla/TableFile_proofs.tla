---------------------------- MODULE TableFile_proofs ----------------------------
(***************************************************************************)
(* Files of the TableFile layout, for any set of calls, objects and sizes: *)
(* what AsyncRead opens and reads is what the synchronous readers would    *)
(* have, from one version of the object; what TableWriter records and      *)
(* writes is what lies in the file, and no part of a file opens.           *)
(***************************************************************************)
EXTENDS AsyncRead, TableWriter, ChunkPages_proofs, FiniteSetTheorems, SequenceTheorems,
        TLAPS

-----------------------------------------------------------------------------
(* PageWalker.                                                             *)

(* Bytes whose headers name page kinds and whose bodies hold pages.        *)
IsUnits(bytes) ==
  /\ Len(bytes) \in Nat
  /\ \A i \in 1..Len(bytes) :
       /\ bytes[i].piece = "header" => /\ bytes[i].of.kind \in PageKinds
                                       /\ bytes[i].of.compressed \in Int
                                       /\ bytes[i].of.uncompressed \in Int
                                       /\ bytes[i].of.count \in Int
       /\ bytes[i].piece = "body" => bytes[i].of.page \in Page /\ bytes[i].of.behind \in Page

LEMMA BadIsPage == BadPage \in Page
  BY DEF BadPage, Page, PageKinds

LEMMA PageIs ==
  ASSUME NEW page \in Page
  PROVE  /\ page = [kind |-> page.kind, vals |-> page.vals]
         /\ page.kind \in PageKinds /\ page.vals \in Seq(Int) /\ Len(page.vals) \in Nat
  BY DEF Page

(* The first indices of a page, as many as its header says.                *)
LEMMA CountedIs ==
  ASSUME NEW h, h.count \in Int, NEW page \in Page
  PROVE  /\ Counted(h, page) \in Page
         /\ page.kind # "coded" => Counted(h, page) = page
         /\ page.kind = "coded" =>
              Counted(h, page) = IF h.count \in 0..Len(page.vals)
                                 THEN [kind |-> "coded", vals |-> SubSeq(page.vals, 1, h.count)]
                                 ELSE BadPage
<1>1. /\ page = [kind |-> page.kind, vals |-> page.vals]
      /\ page.kind \in PageKinds /\ page.vals \in Seq(Int) /\ Len(page.vals) \in Nat
  BY PageIs
<1>2. CASE page.kind # "coded"
  BY <1>2 DEF Counted
<1>3. CASE page.kind = "coded" /\ h.count \in 0..Len(page.vals)
  <2>1. [page EXCEPT !.vals = SubSeq(page.vals, 1, h.count)]
          = [kind |-> "coded", vals |-> SubSeq(page.vals, 1, h.count)]
    <3> DEFINE first == SubSeq(page.vals, 1, h.count)
    <3> HIDE DEF first
    <3>1. PICK vals : page = [kind |-> "coded", vals |-> vals]
      BY <1>1, <1>3
    <3>2. [page EXCEPT !.vals = first] = [kind |-> "coded", vals |-> first]
      BY <3>1
    <3> QED BY <3>2 DEF first
  <2>2. Counted(h, page) = [kind |-> "coded", vals |-> SubSeq(page.vals, 1, h.count)]
    BY <1>3, <2>1 DEF Counted
  <2>3. SubSeq(page.vals, 1, h.count) \in Seq(Int)
    BY <1>1, <1>3, SubSeqProperties, \A i \in 1..h.count : page.vals[i] \in Int
  <2>4. [kind |-> "coded", vals |-> SubSeq(page.vals, 1, h.count)] \in Page
    BY <1>1, <1>3, <2>3 DEF Page
  <2> QED BY <1>3, <2>2, <2>4
<1>4. CASE page.kind = "coded" /\ h.count \notin 0..Len(page.vals)
  BY <1>4, BadIsPage DEF Counted
<1> QED BY <1>2, <1>3, <1>4

LEMMA DecodeType ==
  ASSUME NEW h, h.kind \in PageKinds, h.uncompressed \in Int, h.count \in Int, NEW body,
         body # << >> /\ body[1].piece = "body" =>
           body[1].of.page \in Page /\ body[1].of.behind \in Page,
         1 \in DOMAIN body \/ body = << >>,
         NEW codec, NEW strips
  PROVE  DecodePage(h, body, codec, strips) \in Page
<1> DEFINE applied == IF h.packed THEN codec ELSE "plain"
           intact  == IsWhole(body, "body") /\ body[1].of.codec = applied
           levels  == strips /\ h.v1 /\ IsData(h)
           page    == IF levels THEN body[1].of.behind ELSE body[1].of.page
<1>1. h.uncompressed < 0 => DecodePage(h, body, codec, strips) = BadPage
  BY DEF DecodePage
<1>2. CASE h.uncompressed >= 0 /\ body = << >>
  <2>1. DecodePage(h, body, codec, strips) \in {BadPage, [kind |-> h.kind, vals |-> << >>]}
    BY <1>2 DEF DecodePage
  <2>2. << >> \in Seq(Int)
    OBVIOUS
  <2>3. [kind |-> h.kind, vals |-> << >>] \in Page
    BY <2>2 DEF Page
  <2> QED BY <2>1, <2>3, BadIsPage
<1>3. CASE h.uncompressed >= 0 /\ body # << >>
  <2>1. DecodePage(h, body, codec, strips) = IF ~intact THEN BadPage ELSE Counted(h, page)
    BY <1>3 DEF DecodePage
  <2>2. intact => body[1].piece = "body"
    BY <1>3 DEF IsWhole
  <2>3. intact => page \in Page
    BY <1>3, <2>2
  <2> HIDE DEF intact, page
  <2>4. intact => Counted(h, page) \in Page
    BY <2>3, CountedIs
  <2> QED BY <2>1, <2>4, BadIsPage
<1> QED BY <1>1, <1>2, <1>3, BadIsPage

(* A function from its definition at each position.                        *)
LEMMA WalkPages ==
  ASSUME NEW bytes, IsUnits(bytes), bytes = [i \in 1..Len(bytes) |-> bytes[i]], NEW codec,
         NEW strips
  PROVE  /\ PagesFrom(bytes, codec, strips) \in [0..Len(bytes) -> Seq(Page)]
         /\ PagesFrom(bytes, codec, strips)[Len(bytes)] = << >>
         /\ \A pos \in 0..(Len(bytes) - 1) :
              /\ ~Takes(bytes, pos) => PagesFrom(bytes, codec, strips)[pos] = <<BadPage>>
              /\ Takes(bytes, pos) =>
                   /\ PageEnd(bytes, pos) \in (pos + 1)..Len(bytes)
                   /\ PageAt(bytes, pos, codec, strips) \in Page
                   /\ PagesFrom(bytes, codec, strips)[pos] =
                        <<PageAt(bytes, pos, codec, strips)>> \o PagesFrom(bytes, codec, strips)[PageEnd(bytes, pos)]
<1> DEFINE n == Len(bytes)
           S == Seq(Page)
           takes(pos) == pos < n /\ Takes(bytes, pos)
           ahead == [pos \in 0..n |-> IF takes(pos) THEN PageEnd(bytes, pos) ELSE 0]
           last == [pos \in 0..n |-> IF pos = n THEN << >> ELSE <<BadPage>>]
           g == [pos \in 0..n |->
                   [s \in S |-> IF takes(pos) THEN <<PageAt(bytes, pos, codec, strips)>> \o s ELSE s]]
           body(f) == [pos \in 0..n |->
                         IF pos = n THEN << >>
                         ELSE IF ~Takes(bytes, pos) THEN <<BadPage>>
                         ELSE <<PageAt(bytes, pos, codec, strips)>> \o f[PageEnd(bytes, pos)]]
<1>1. n \in Nat
  BY DEF IsUnits
<1>2. ASSUME NEW pos \in 0..n, takes(pos)
      PROVE  PageEnd(bytes, pos) \in (pos + 1)..n /\ PageAt(bytes, pos, codec, strips) \in Page
  <2>1. pos + 1 \in 1..n /\ bytes[pos + 1].piece = "header" /\ bytes[pos + 1].of.compressed >= 0
        /\ PageEnd(bytes, pos) <= n
    BY <1>1, <1>2 DEF Takes
  <2>2. bytes[pos + 1].of.compressed \in Int /\ bytes[pos + 1].of.kind \in PageKinds
        /\ bytes[pos + 1].of.uncompressed \in Int /\ bytes[pos + 1].of.count \in Int
    BY <2>1 DEF IsUnits
  <2>3. PageEnd(bytes, pos) \in (pos + 1)..n
    BY <1>1, <2>1, <2>2 DEF PageEnd
  <2> DEFINE lo == pos + 2
             hi == PageEnd(bytes, pos)
             page == SubSeq(bytes, lo, hi)
             U == {bytes[i] : i \in 1..n}
  <2>4. lo \in Int /\ hi \in Int /\ lo >= 1 /\ hi <= n
    BY <1>1, <2>3
  <2> HIDE DEF lo, hi
  <2>5. \A i \in lo..hi : bytes[i] \in U
    BY <1>1, <2>4
  <2>6. /\ page \in Seq(U) /\ Len(page) = IF lo <= hi THEN hi - lo + 1 ELSE 0
        /\ \A i \in 1..(hi - lo + 1) : page[i] = bytes[lo + i - 1]
    BY <2>4, <2>5, SubSeqProperties
  <2>7. page = << >> \/ (1 \in DOMAIN page /\ page[1] \in U)
    BY <2>4, <2>6
  <2>8. page # << >> /\ page[1].piece = "body" =>
          page[1].of.page \in Page /\ page[1].of.behind \in Page
    BY <2>7 DEF IsUnits
  <2> HIDE DEF page, U
  <2>9. DecodePage(bytes[pos + 1].of, page, codec, strips) \in Page
    BY <2>2, <2>7, <2>8, DecodeType
  <2> QED BY <2>3, <2>9 DEF PageAt, page, lo, hi
<1> HIDE DEF n
<1>3. ahead \in [0..n -> Nat]
  <2>1. ASSUME NEW pos \in 0..n PROVE (IF takes(pos) THEN PageEnd(bytes, pos) ELSE 0) \in Nat
    BY <1>1, <1>2
  <2> QED BY <2>1
<1>4. last \in [0..n -> S]
  <2>1. << >> \in S /\ <<BadPage>> \in S
    BY BadIsPage
  <2> QED BY <2>1
<1>5. g \in [0..n -> [S -> S]]
  <2>1. ASSUME NEW pos \in 0..n, NEW s \in S
        PROVE  (IF takes(pos) THEN <<PageAt(bytes, pos, codec, strips)>> \o s ELSE s) \in S
    <3>1. CASE takes(pos)
      <4>1. <<PageAt(bytes, pos, codec, strips)>> \in S
        BY <1>2, <3>1
      <4>2. \A t \in S : t \o s \in S
        OBVIOUS
      <4> QED BY <3>1, <4>1, <4>2
    <3> QED BY <3>1
  <2> HIDE DEF takes, S
  <2> QED BY <2>1
<1>6. PICK f \in [0..n -> S] : ReadsAhead(f, n, ahead, last, g)
  <2> HIDE DEF ahead, g, last, S
  <2> QED BY <1>1, <1>3, <1>4, <1>5, RecursionAhead
<1>7. ASSUME NEW pos \in 0..n PROVE f[pos] = body(f)[pos]
  <2>1. CASE takes(pos)
    <3>1. ahead[pos] = PageEnd(bytes, pos) /\ ahead[pos] \in (pos + 1)..n
      BY <1>2, <2>1
    <3>2. f[pos] = g[pos][f[ahead[pos]]]
      <4> HIDE DEF ahead, g, last
      <4> QED BY <1>1, <1>6, <3>1 DEF ReadsAhead
    <3>3. f[ahead[pos]] \in S
      BY <1>1, <3>1
    <3>4. g[pos][f[ahead[pos]]] = <<PageAt(bytes, pos, codec, strips)>> \o f[ahead[pos]]
      <4> HIDE DEF ahead, S
      <4> QED BY <2>1, <3>3
    <3> QED BY <1>1, <2>1, <3>1, <3>2, <3>4
  <2>2. CASE ~takes(pos)
    <3>1. ahead[pos] = 0
      BY <2>2
    <3>2. f[pos] = last[pos]
      <4> HIDE DEF ahead, g, last
      <4> QED BY <1>1, <1>6, <3>1 DEF ReadsAhead
    <3> QED BY <1>1, <2>2, <3>2
  <2> QED BY <2>1, <2>2
<1>8. f = body(f)
  <2> HIDE DEF body
  <2>1. body(f) = [pos \in 0..n |-> body(f)[pos]]
    BY DEF body
  <2> QED BY <1>7, <2>1
<1>9. PagesFrom(bytes, codec, strips) = body(PagesFrom(bytes, codec, strips))
  <2>1. PagesFrom(bytes, codec, strips) = CHOOSE h : h = body(h)
    BY DEF PagesFrom, n
  <2> HIDE DEF body
  <2> QED BY <1>8, <2>1
<1> DEFINE w == PagesFrom(bytes, codec, strips)
<1>10. /\ w = [pos \in 0..n |-> w[pos]] /\ w[n] = << >>
       /\ \A pos \in 0..(n - 1) : w[pos] = IF ~Takes(bytes, pos) THEN <<BadPage>>
                                        ELSE <<PageAt(bytes, pos, codec, strips)>> \o w[PageEnd(bytes, pos)]
  <2> HIDE DEF w
  <2>1. w = [pos \in 0..n |->
               IF pos = n THEN << >>
               ELSE IF ~Takes(bytes, pos) THEN <<BadPage>>
               ELSE <<PageAt(bytes, pos, codec, strips)>> \o w[PageEnd(bytes, pos)]]
    BY <1>9 DEF w
  <2>2. n \in 0..n /\ \A pos \in 0..(n - 1) : pos \in 0..n /\ pos # n
    BY <1>1
  <2> QED BY <2>1, <2>2
<1> HIDE DEF w
<1>11. \A pos \in 0..n : w[pos] \in Seq(Page)
  <2> DEFINE T == {m \in 0..n : w[n - m] \notin Seq(Page)}
  <2> SUFFICES ASSUME NEW pos \in 0..n, w[pos] \notin Seq(Page) PROVE FALSE
    OBVIOUS
  <2>1. n - pos \in T /\ T \in SUBSET Nat
    <3>1. n - pos \in 0..n /\ n - (n - pos) = pos
      BY <1>1
    <3> QED BY <1>1, <3>1
  <2> HIDE DEF T
  <2>2. PICK m \in T : \A y \in T : m <= y
    BY <2>1, LeastNat
  <2>3. m \in 0..n /\ w[n - m] \notin Seq(Page)
    BY <2>2 DEF T
  <2> DEFINE q == n - m
  <2>4. q \in 0..n
    BY <1>1, <2>3
  <2>5. q # n /\ Takes(bytes, q)
    <3>1. << >> \in Seq(Page) /\ <<BadPage>> \in Seq(Page)
      BY BadIsPage
    <3>2. q # n
      BY <1>10, <2>3, <3>1
    <3>3. q \in 0..(n - 1)
      BY <1>1, <2>4, <3>2
    <3> HIDE DEF q
    <3>4. w[q] \notin Seq(Page)
      BY <2>3 DEF q
    <3> QED BY <1>10, <3>1, <3>2, <3>3, <3>4
  <2>6. /\ PageEnd(bytes, q) \in (q + 1)..n /\ PageAt(bytes, q, codec, strips) \in Page
        /\ w[q] = <<PageAt(bytes, q, codec, strips)>> \o w[PageEnd(bytes, q)]
    <3>1. q \in 0..(n - 1) /\ q < n
      BY <1>1, <2>4, <2>5
    <3> HIDE DEF q
    <3> QED BY <1>2, <1>10, <2>4, <2>5, <3>1
  <2>7. w[PageEnd(bytes, q)] \notin Seq(Page)
    <3>1. <<PageAt(bytes, q, codec, strips)>> \in Seq(Page)
      BY <2>6
    <3>2. \A s, t \in Seq(Page) : s \o t \in Seq(Page)
      OBVIOUS
    <3> QED BY <2>3, <2>6, <3>1, <3>2
  <2> DEFINE e == PageEnd(bytes, q)
  <2>8. e \in (q + 1)..n
    BY <2>6
  <2> HIDE DEF e
  <2>9. n - e \in 0..n /\ n - (n - e) = e /\ n - e < m
    BY <1>1, <2>3, <2>8
  <2>10. n - e \in T
    BY <2>7, <2>9 DEF T, e
  <2> QED BY <1>1, <2>2, <2>3, <2>9, <2>10
<1>12. ASSUME NEW pos \in 0..(n - 1), Takes(bytes, pos)
       PROVE  PageEnd(bytes, pos) \in (pos + 1)..n /\ PageAt(bytes, pos, codec, strips) \in Page
  <2>1. pos \in 0..n /\ takes(pos)
    BY <1>1, <1>12
  <2> QED BY <1>2, <2>1
<1> QED BY <1>10, <1>11, <1>12 DEF w, n

Contents == {Objects[k] : k \in DOMAIN Objects}
Units(v) == {v[i] : i \in 1..Len(v)}

(* The inductive invariant: the history ends in the present content, the   *)
(* range of the second GET is the one the trailer of the first version     *)
(* declared, and an open handle is as claimed.                             *)
History ==
  /\ object \in Contents /\ versions \in Seq(Contents)
  /\ pc # "closed" => versions # << >> /\ versions[Len(versions)] = object

Due ==
  /\ pc \in {"footer", "open"} => file.size \in Nat /\ file.at \in Nat /\ file.len \in Nat
  /\ pc = "footer" =>
       /\ file.size \in 2..(Word - 1) /\ file.len \in Nat /\ file.len <= Room(file.size)
       /\ file.at = (file.size - 2 - file.len) % Word
       /\ file = [size |-> file.size, at |-> file.at, len |-> file.len, bytes |-> file.bytes]
       /\ file.size = Len(versions[1]) /\ (file.size >= 3 => file.len + 2 > ColdOpen)

AInv == History /\ Due /\ FooterIsOneVersion

-----------------------------------------------------------------------------
(* The arithmetic of usize.                                                *)

LEMMA ModSmall == ASSUME NEW a \in 0..(Word - 1) PROVE a % Word = a
  BY WordAssumption

LEMMA ModBelow ==
  ASSUME NEW a \in Int, -Word <= a, a < 0 PROVE a % Word = a + Word
  BY WordAssumption

LEMMA ModSelf == Word % Word = 0
  BY WordAssumption

(* Where the second GET starts and ends: right before the trailer, or      *)
(* nowhere when the room for a footer underflowed.                         *)
LEMMA RangeDue ==
  ASSUME NEW size \in 2..(Word - 1), NEW len \in Nat, len <= Room(size),
         NEW at, at = (size - 2 - len) % Word
  PROVE  /\ size >= 3 => at = size - 2 - len /\ at \in Nat /\ (at + len) % Word = size - 2
         /\ size = 2 => at \in Nat /\ (at + len) % Word = 0
<1> USE WordAssumption
<1>1. CASE size >= 3
  <2>1. Room(size) = size - 3
    BY <1>1, ModSmall, size - 3 \in 0..(Word - 1) DEF Room
  <2>2. size - 2 - len \in 0..(Word - 1) /\ size - 2 \in 0..(Word - 1)
    BY <1>1, <2>1
  <2>3. at = size - 2 - len
    BY <2>2, ModSmall
  <2> QED BY <1>1, <2>2, <2>3, ModSmall
<1>2. CASE size = 2
  <2>1. Room(size) = Word - 1
    BY <1>2, ModBelow DEF Room
  <2>2. CASE len = 0
    BY <1>2, <2>2, ModSmall
  <2>3. CASE len # 0
    <3>1. at = Word - len
      BY <1>2, <2>1, <2>3, ModBelow
    <3> QED BY <1>2, <2>1, <3>1, ModSelf
  <2> QED BY <2>2, <2>3
<1> QED BY <1>1, <1>2

-----------------------------------------------------------------------------
(* Slices of contents.                                                     *)

LEMMA ContentIsSeq ==
  ASSUME NEW v, IsContent(v) PROVE v \in Seq(Units(v)) /\ Len(v) \in Nat /\ Len(v) < Word
<1>1. Len(v) \in Nat /\ Len(v) < Word /\ v = [i \in 1..Len(v) |-> v[i]]
  BY WordAssumption DEF IsContent
<1> QED BY <1>1 DEF Units

LEMMA SliceIs ==
  ASSUME NEW v, IsContent(v), NEW m \in Int, NEW n \in Int, 1 <= m, n <= Len(v)
  PROVE  /\ Len(SubSeq(v, m, n)) = IF m <= n THEN n - m + 1 ELSE 0
         /\ \A i \in 1..(n - m + 1) : SubSeq(v, m, n)[i] = v[m + i - 1]
<1>1. \A i \in m..n : v[i] \in Units(v)
  BY ContentIsSeq DEF Units
<1> QED BY <1>1, SubSeqProperties

LEMMA BytesOf ==
  ASSUME NEW v, IsContent(v), NEW at \in Nat, NEW len \in Nat, at + len <= Len(v)
  PROVE  Len(Bytes(v, at, len)) = len /\ \A i \in 1..len : Bytes(v, at, len)[i] = v[at + i]
<1>1. Len(v) \in Nat
  BY ContentIsSeq
<1> QED BY <1>1, SliceIs DEF Bytes

LEMMA SliceOfSuffix ==
  ASSUME NEW v, IsContent(v), NEW n \in 2..Len(v), NEW len \in Nat, len + 2 <= n
  PROVE  SubSeq(SubSeq(v, Len(v) - n + 1, Len(v)), n - 1 - len, n - 2)
           = SubSeq(v, Len(v) - 1 - len, Len(v) - 2)
<1>1. v \in Seq(Units(v)) /\ Len(v) \in Nat
  BY ContentIsSeq
<1>2. CASE len = 0
  BY <1>1, <1>2, SubSeqEmpty
<1>3. CASE len # 0
  <2> DEFINE i == Len(v) - n + 1
             a == n - 1 - len
             b == n - 2
  <2>1. /\ i \in 1..Len(v) /\ Len(v) \in 1..Len(v)
        /\ a \in 1..(Len(v) - i + 1) /\ b \in 1..(Len(v) - i + 1)
        /\ i + a - 1 = Len(v) - 1 - len /\ i + b - 1 = Len(v) - 2
    BY <1>1, <1>3
  <2> HIDE DEF i, a, b
  <2>2. SubSeq(SubSeq(v, i, Len(v)), a, b) = SubSeq(v, i + a - 1, i + b - 1)
    BY <1>1, <2>1, SubSeqOfSubSeq
  <2> QED BY <2>1, <2>2 DEF i, a, b
<1> QED BY <1>2, <1>3

(* A part of a slice that is a whole footer ends right before the trailer. *)
LEMMA FooterEndsAtTrailer ==
  ASSUME NEW v, IsContent(v), NEW at \in Nat, NEW len \in Nat, at + len <= Len(v),
         NEW n \in 1..Len(Bytes(v, at, len)), IsWhole(SubSeq(Bytes(v, at, len), 1, n), "footer")
  PROVE  /\ n \in 1..len /\ at + n + 2 = Len(v)
         /\ SubSeq(Bytes(v, at, len), 1, n) = Bytes(v, at, n)
         /\ v[at + 1].piece = "footer" /\ v[Len(v) - 1].piece = "length"
         /\ Bytes(v, at, len)[1] = v[at + 1]
<1> DEFINE bytes == Bytes(v, at, len)
           part  == SubSeq(bytes, 1, n)
<1>1. Len(v) \in Nat
  BY ContentIsSeq
<1>2. Len(bytes) = len /\ \A i \in 1..len : bytes[i] = v[at + i]
  BY <1>1, BytesOf
<1>3. n \in 1..len /\ at + n <= Len(v)
  BY <1>1, <1>2
<1>4. Len(Bytes(v, at, n)) = n /\ \A i \in 1..n : Bytes(v, at, n)[i] = v[at + i]
  BY <1>1, <1>3, BytesOf
<1>5. part \in Seq(Units(v)) /\ Len(part) = n /\ \A i \in 1..n : part[i] = bytes[i]
  <2> HIDE DEF bytes
  <2>1. ASSUME NEW i \in 1..n PROVE bytes[i] \in Units(v)
    <3>1. bytes[i] = v[at + i] /\ at + i \in 1..Len(v)
      BY <1>1, <1>2, <1>3
    <3> QED BY <3>1 DEF Units
  <2>2. 1 \in Int /\ n \in Int /\ n - 1 + 1 = n /\ 1 <= n
    BY <1>3
  <2>3. /\ SubSeq(bytes, 1, n) \in Seq(Units(v))
        /\ Len(SubSeq(bytes, 1, n)) = IF 1 <= n THEN n - 1 + 1 ELSE 0
        /\ \A i \in 1..(n - 1 + 1) : SubSeq(bytes, 1, n)[i] = bytes[1 + i - 1]
    BY <2>1, <2>2, SubSeqProperties
  <2>4. ASSUME NEW i \in 1..n PROVE part[i] = bytes[i]
    <3>1. 1 + i - 1 = i
      BY <1>3
    <3> QED BY <2>2, <2>3, <3>1
  <2> QED BY <2>2, <2>3, <2>4
<1>6. Bytes(v, at, n) \in Seq(Units(v))
  <2>1. \A i \in (at + 1)..(at + n) : v[i] \in Units(v)
    BY <1>1, <1>3 DEF Units
  <2> QED BY <1>1, <2>1, SubSeqProperties, at + 1 \in Int, at + n \in Int DEF Bytes
<1>7. part = Bytes(v, at, n)
  <2> HIDE DEF part, bytes
  <2>1. \A i \in 1..Len(part) : part[i] = Bytes(v, at, n)[i]
    BY <1>2, <1>3, <1>4, <1>5
  <2> QED BY <1>4, <1>5, <1>6, <2>1, SeqEqual
<1>8. part[1].piece = "footer" /\ part[1].at = 1 /\ part[1].len = n
  <2>1. 1 \in DOMAIN part
    BY <1>3, <1>5
  <2> QED BY <1>5, <2>1 DEF IsWhole
<1>9. part[1] = v[at + 1] /\ bytes[1] = v[at + 1] /\ at + 1 \in 1..Len(v)
  BY <1>1, <1>2, <1>3, <1>5
<1>10. at + 1 = Len(v) - 2 - n + 1 /\ v[Len(v) - 1].piece = "length"
  BY <1>8, <1>9 DEF IsContent
<1> QED BY <1>1, <1>3, <1>7, <1>8, <1>9, <1>10

(* The history only grows.                                                 *)
LEMMA InHistory ==
  ASSUME History, pc # "closed"
  PROVE  Len(versions) \in DOMAIN versions /\ versions[Len(versions)] = object
         /\ IsContent(object)
  BY ObjectsAssumption DEF History, Contents

-----------------------------------------------------------------------------
(* One lemma per step of an open.                                          *)

LEMMA InitHolds == Init => AInv
<1> SUFFICES ASSUME Init PROVE AInv OBVIOUS
<1>1. object \in Contents /\ versions = << >> /\ pc = "closed"
  BY DEF Init, Contents
<1>2. versions \in Seq(Contents)
  BY <1>1
<1> QED BY <1>1, <1>2 DEF AInv, History, Due, FooterIsOneVersion

LEMMA OpenSuffixHolds == ASSUME AInv, OpenSuffix PROVE AInv'
<1> DEFINE n      == Least(ColdOpen, Len(object))
           suffix == GetSuffix(ColdOpen)
           tail   == suffix[Len(suffix) - 1]
           lens   == IF tail.piece = "length" THEN {tail.of} ELSE {0, Word \div 2}
<1>1. versions' = <<object>> /\ object' = object /\ object \in Contents /\ IsContent(object)
  BY ObjectsAssumption DEF OpenSuffix, AInv, History, Contents
<1>2. Len(object) \in Nat /\ Len(object) < Word /\ n \in 0..Len(object)
  BY <1>1, ContentIsSeq, ColdOpenAssumption DEF Least
<1>3. suffix = SubSeq(object, Len(object) - n + 1, Len(object)) /\ Len(suffix) = n
  <2>1. suffix = SubSeq(object, Len(object) - n + 1, Len(object))
    BY DEF GetSuffix
  <2>2. Len(object) - n + 1 \in Int /\ 1 <= Len(object) - n + 1
    BY <1>2
  <2> QED BY <1>1, <1>2, <2>1, <2>2, SliceIs
<1> HIDE DEF n, suffix, tail, lens
<1>4. History'
  <2>1. versions' \in Seq(Contents) /\ versions' # << >> /\ versions'[Len(versions')] = object'
    BY <1>1
  <2> QED BY <1>1, <2>1 DEF History
<1>5. CASE pc' \in {"failed", "panicked"}
  BY <1>4, <1>5 DEF AInv, Due, FooterIsOneVersion
<1>6. CASE pc' \in {"footer", "open"}
  <2>1. PICK len \in lens :
          /\ n >= 2 /\ len <= Room(Len(object))
          /\ \/ n >= len + 2 /\ pc' = "open"
             \/ ~(n >= len + 2) /\ pc' = "footer"
          /\ file' = [size |-> Len(object), at |-> (Len(object) - 2 - len) % Word, len |-> len,
                      bytes |-> IF pc' = "open" THEN SubSeq(suffix, n - 1 - len, n - 2) ELSE << >>]
    BY <1>3, <1>6 DEF OpenSuffix, SizeOf, Covers, n, suffix, tail, lens
  <2>2. len \in Nat
    <3>1. CASE tail.piece = "length"
      <4>1. n - 1 \in 1..(Len(object) - (Len(object) - n + 1) + 1) /\ 1 <= Len(object) - n + 1
            /\ Len(object) - n + 1 + (n - 1) - 1 = Len(object) - 1
            /\ Len(object) - n + 1 \in Int
        BY <1>2, <2>1
      <4>2. tail = object[Len(object) - 1]
        BY <1>1, <1>2, <1>3, <4>1, SliceIs DEF tail
      <4>3. Len(object) - 1 \in 1..Len(object)
        BY <1>2, <2>1
      <4> QED BY <1>1, <2>1, <3>1, <4>2, <4>3 DEF IsContent, lens
    <3>2. CASE tail.piece # "length"
      BY <2>1, <3>2, WordAssumption DEF lens
    <3> QED BY <3>1, <3>2
  <2>3. Len(object) \in 2..(Word - 1)
    BY <1>2, <2>1, WordAssumption
  <2>6. file'.size \in Nat /\ file'.len \in Nat /\ file'.at \in Nat
    <3>1. \A k \in Int : k % Word \in Nat
      BY WordAssumption
    <3>2. Len(object) - 2 - len \in Int
      BY <1>2, <2>2
    <3>3. (Len(object) - 2 - len) % Word \in Nat
      BY <3>1, <3>2
    <3> QED BY <1>2, <2>1, <2>2, <3>3
  <2>4. CASE pc' = "footer"
    <3>1. Len(object) >= 3 => len + 2 > ColdOpen
      <4>1. Len(object) >= 3 => len <= Len(object) - 3
        <5> SUFFICES ASSUME Len(object) >= 3 PROVE len <= Len(object) - 3
          OBVIOUS
        <5>1. Len(object) - 3 \in 0..(Word - 1)
          BY <1>2, WordAssumption
        <5> QED BY <2>1, <5>1, ModSmall DEF Room
      <4>2. ~(n >= len + 2)
        BY <2>1, <2>4
      <4> QED BY <1>2, <2>2, <4>1, <4>2, ColdOpenAssumption DEF n, Least
    <3>2. file'.size = Len(versions'[1]) /\ file'.size = Len(object) /\ file'.len = len
      BY <1>1, <2>1
    <3>3. Due'
      BY <2>1, <2>2, <2>3, <2>4, <2>6, <3>1, <3>2 DEF Due
    <3> QED BY <1>4, <2>4, <3>3 DEF AInv, FooterIsOneVersion
  <2>5. CASE pc' = "open"
    <3>1. n >= len + 2 /\ Len(object) - 2 - len \in 0..(Word - 1)
      BY <1>2, <2>1, <2>2, <2>5, WordAssumption
    <3>2. file'.at = Len(object) - 2 - len
      BY <2>1, <3>1, ModSmall
    <3>3. n \in 2..Len(object)
      BY <1>2, <2>1
    <3>4. SubSeq(suffix, n - 1 - len, n - 2) = SubSeq(object, Len(object) - 1 - len, Len(object) - 2)
      BY <1>1, <1>3, <2>2, <3>1, <3>3, SliceOfSuffix
    <3>5. file'.bytes = Bytes(object, file'.at, file'.len)
      <4>1. file'.at + 1 = Len(object) - 1 - len /\ file'.at + file'.len = Len(object) - 2
        BY <1>2, <2>1, <2>2, <3>2
      <4>2. file'.bytes = SubSeq(suffix, n - 1 - len, n - 2)
        BY <2>1, <2>5
      <4> QED BY <3>4, <4>1, <4>2 DEF Bytes
    <3>6. ASSUME Parses' PROVE HasFooter(versions[1], 0)'
      <4> DEFINE at    == Len(object) - 2 - len
                 bytes == Bytes(object, at, len)
      <4>1. at \in Nat /\ at + len + 2 = Len(object) /\ at + len <= Len(object)
        BY <1>2, <2>2, <3>1
      <4>2. file'.bytes = bytes /\ file'.at = at /\ file'.len = len /\ file'.size = Len(object)
        BY <2>1, <3>2, <3>5
      <4> HIDE DEF at
      <4>3. PICK m \in 1..Len(bytes) : IsWhole(SubSeq(bytes, 1, m), "footer")
        BY <3>6, <4>2 DEF Parses, HoldsFooter
      <4>4. at + m + 2 = Len(object) /\ m \in 1..len /\ SubSeq(bytes, 1, m) = Bytes(object, at, m)
        BY <1>1, <2>2, <4>1, <4>3, FooterEndsAtTrailer
      <4>5. m = len /\ len - 0 = len /\ Len(object) - 0 = Len(object)
        BY <1>2, <2>2, <4>1, <4>4
      <4> HIDE DEF bytes
      <4>6. versions'[1] = object
        BY <1>1
      <4> QED BY <4>1, <4>2, <4>3, <4>4, <4>5, <4>6 DEF HasFooter
    <3>7. 1 \in DOMAIN versions'
      BY <1>1
    <3>8. Due'
      BY <2>5, <2>6 DEF Due
    <3> QED BY <1>4, <3>6, <3>7, <3>8 DEF AInv, FooterIsOneVersion
  <2> QED BY <1>6, <2>4, <2>5
<1> QED BY <1>5, <1>6 DEF OpenSuffix

LEMMA OpenFooterHolds == ASSUME AInv, OpenFooter PROVE AInv'
<1>1. versions' = versions /\ object' = object /\ pc = "footer"
  BY DEF OpenFooter
<1>2. History'
  BY <1>1 DEF AInv, History, OpenFooter
<1>3. CASE pc' = "failed"
  BY <1>2, <1>3 DEF AInv, Due, FooterIsOneVersion
<1>4. CASE pc' = "open"
  <2> DEFINE at  == file.at
             len == file.len
             end == (file.at + file.len) % Word
  <2>1. /\ ~Refused(at, end) /\ Len(GetBounded(at, end)) = len
        /\ file' = [file EXCEPT !.bytes = GetBounded(at, end)]
    BY <1>4 DEF OpenFooter
  <2>2. IsContent(object) /\ Len(object) \in Nat /\ Len(object) < Word
    BY <1>1, InHistory, ContentIsSeq DEF AInv
  <2>3. /\ file.size \in 2..(Word - 1) /\ len \in Nat /\ len <= Room(file.size)
        /\ at = (file.size - 2 - len) % Word
    BY <1>1 DEF AInv, Due
  <2>4. file.size >= 3 => at = file.size - 2 - len /\ at \in Nat /\ end = file.size - 2
    BY <2>3, RangeDue
  <2>5. file.size = 2 => at \in Nat /\ end = 0
    BY <2>3, RangeDue
  <2> HIDE DEF at, len, end
  <2>6. file.size >= 3
    BY <2>1, <2>3, <2>5, WordAssumption DEF Refused
  <2>7. at \in Nat /\ end = at + len /\ end \in Nat /\ at < end
    <3>1. file.size \in Nat /\ len \in Nat /\ ~(at >= end)
      BY <2>1, <2>3, WordAssumption DEF Refused
    <3>2. at \in Nat /\ at = file.size - 2 - len /\ end = file.size - 2
      BY <2>4, <2>6
    <3> QED BY <2>6, <3>1, <3>2
  <2>8. end <= Len(object)
    <3>1. CASE ~(end < Len(object))
      <4>1. GetBounded(at, end) = SubSeq(object, at + 1, Len(object))
        BY <3>1 DEF GetBounded, Least
      <4>2. at + 1 \in Int /\ 1 <= at + 1 /\ at < Len(object)
        BY <2>1, <2>2, <2>7 DEF Refused
      <4>3. Len(SubSeq(object, at + 1, Len(object))) = Len(object) - at
        BY <2>2, <2>7, <4>2, SliceIs
      <4> QED BY <2>1, <2>2, <2>3, <2>7, <4>1, <4>3
    <3> QED BY <2>2, <2>7, <3>1
  <2>9. GetBounded(at, end) = Bytes(object, at, len)
    BY <2>2, <2>7, <2>8 DEF GetBounded, Least, Bytes
  <2>10. file'.at = at /\ file'.len = len /\ file'.size = file.size
         /\ file'.bytes = Bytes(object, at, len)
    <3>1. file = [size |-> file.size, at |-> file.at, len |-> file.len, bytes |-> file.bytes]
      BY <1>1 DEF AInv, Due
    <3> QED BY <2>1, <2>9, <3>1 DEF at, len
  <2>11. ASSUME Parses'
         PROVE  \E v \in {object} : \E extra \in 0..2 : HasFooter(v, extra)'
    <3> DEFINE bytes == Bytes(object, at, len)
    <3>1. PICK m \in 1..Len(bytes) : IsWhole(SubSeq(bytes, 1, m), "footer")
      BY <2>10, <2>11 DEF Parses, HoldsFooter
    <3>2. at + len <= Len(object)
      BY <2>2, <2>3, <2>7, <2>8
    <3>3. m \in 1..len /\ at + m + 2 = Len(object) /\ SubSeq(bytes, 1, m) = Bytes(object, at, m)
      BY <2>2, <2>3, <2>7, <3>1, <3>2, FooterEndsAtTrailer
    <3>4. at + len + 2 = file.size
      BY <2>2, <2>3, <2>4, <2>6, <2>7
    <3> HIDE DEF bytes
    <3>5. PICK extra \in 0..2 : len - extra = m /\ Len(object) = file.size - extra
      <4>1. len - m \in 0..2 /\ len - (len - m) = m /\ Len(object) = file.size - (len - m)
        <5> DEFINE l == Len(object)
        <5>1. l \in Nat /\ at \in Nat /\ len \in Nat /\ m \in Int /\ m <= len /\ file.size \in Int
              /\ at + len <= l /\ at + m + 2 = l /\ at + len + 2 = file.size
          BY <2>2, <2>3, <2>7, <3>2, <3>3, <3>4
        <5> HIDE DEF l
        <5>2. len - m \in 0..2 /\ len - (len - m) = m /\ l = file.size - (len - m)
          BY ONLY <5>1
        <5> QED BY <5>2 DEF l
      <4> QED BY <4>1
    <3>6. file'.bytes = bytes
      BY <2>10 DEF bytes
    <3>7. PICK v : v = object
      OBVIOUS
    <3>8. HasFooter(v, extra)'
      <4>1. file'.at + file'.len + 2 = file'.size /\ Len(v) = file'.size - extra
        BY <2>10, <3>4, <3>5, <3>7
      <4>2. file'.len - extra = m /\ IsWhole(SubSeq(file'.bytes, 1, m), "footer")
            /\ SubSeq(file'.bytes, 1, m) = Bytes(v, file'.at, m)
        BY <2>10, <3>1, <3>3, <3>5, <3>6, <3>7
      <4> QED BY <4>1, <4>2 DEF HasFooter
    <3> QED BY <3>5, <3>7, <3>8
  <2>12. Len(versions) \in DOMAIN versions' /\ versions'[Len(versions)] = object'
    BY <1>1, InHistory DEF AInv
  <2>13. file'.size \in Nat /\ file'.at \in Nat /\ file'.len \in Nat
    BY <2>2, <2>3, <2>7, <2>10, WordAssumption
  <2>14. FooterIsOneVersion'
    <3> SUFFICES ASSUME Parses'
                 PROVE  \/ \E k \in DOMAIN versions' : HasFooter(versions[k], 0)'
                        \/ /\ Len(versions'[1]) = file'.size /\ file'.len + 2 > ColdOpen
                           /\ \E k \in 2..Len(versions'), e \in 1..2 : HasFooter(versions[k], e)'
      BY DEF FooterIsOneVersion
    <3>1. PICK v \in {object}, extra \in 0..2 : HasFooter(v, extra)'
      BY <2>11
    <3> DEFINE k == Len(versions)
    <3>2. k \in DOMAIN versions' /\ versions'[k] = v /\ versions \in Seq(Contents) /\ v = object
      BY <1>1, <2>12, <3>1 DEF AInv, History
    <3>3. PICK j \in DOMAIN versions' : versions'[j] = v /\ j = k
      BY <3>2
    <3>4. CASE extra = 0
      <4>1. HasFooter(versions[j], 0)'
        BY <3>1, <3>3, <3>4 DEF HasFooter
      <4> QED BY <3>3, <4>1
    <3>5. CASE extra \in 1..2
      <4>1. Len(versions'[1]) = file'.size /\ file'.len + 2 > ColdOpen
        BY <1>1, <2>6, <2>10 DEF AInv, Due, len
      <4>2. Len(object) = file'.size - extra
        BY <3>1 DEF HasFooter
      <4>3. Len(object) # Len(versions[1])
        BY <1>1, <2>2, <3>5, <4>1, <4>2
      <4>4. k \in 2..Len(versions')
        <5>1. k \in Nat /\ k >= 1 /\ versions[k] = object /\ versions' = versions
          BY <1>1, <3>2
        <5> HIDE DEF k
        <5>2. k # 1
          BY <4>3, <5>1
        <5>3. k \in 2..k
          BY <5>1, <5>2
        <5> QED BY <5>1, <5>3 DEF k
      <4>5. HasFooter(versions[j], extra)'
        BY <3>1, <3>3 DEF HasFooter
      <4> QED BY <3>3, <3>5, <4>1, <4>4, <4>5
    <3> QED BY <3>4, <3>5
  <2> QED BY <1>2, <1>4, <2>13, <2>14 DEF AInv, Due
<1> QED BY <1>3, <1>4 DEF OpenFooter

LEMMA PutHolds == ASSUME AInv, Put PROVE AInv'
<1>1. /\ object' \in Contents /\ versions' = Append(versions, object') /\ pc' = pc /\ pc # "closed"
      /\ file' = file /\ versions \in Seq(Contents)
  BY DEF Put, Contents, AInv, History
<1>2. /\ versions' \in Seq(Contents) /\ versions' # << >> /\ versions'[Len(versions')] = object'
      /\ \A k \in DOMAIN versions : k \in DOMAIN versions' /\ versions'[k] = versions[k]
  BY <1>1
<1>3. versions'[1] = versions[1] /\ Len(versions) <= Len(versions')
  BY <1>1 DEF AInv, History
<1>4. ASSUME pc' = "open", Parses' PROVE FooterIsOneVersion'
  <2>1. pc = "open" /\ Parses
    BY <1>1, <1>4 DEF Parses
  <2>2. CASE \E k \in DOMAIN versions : HasFooter(versions[k], 0)
    <3>1. PICK k \in DOMAIN versions : HasFooter(versions[k], 0)
      BY <2>2
    <3>2. k \in DOMAIN versions' /\ HasFooter(versions[k], 0)'
      BY <1>1, <1>2, <3>1 DEF HasFooter
    <3> QED BY <3>2 DEF FooterIsOneVersion
  <2>3. CASE /\ Len(versions[1]) = file.size /\ file.len + 2 > ColdOpen
             /\ \E k \in 2..Len(versions), extra \in 1..2 : HasFooter(versions[k], extra)
    <3>1. PICK k \in 2..Len(versions), extra \in 1..2 : HasFooter(versions[k], extra)
      BY <2>3
    <3>2. k \in 2..Len(versions') /\ versions'[k] = versions[k]
      BY <1>1, <1>2, <1>3, <3>1
    <3>3. \E e \in 1..2 : HasFooter(versions[k], e)'
      BY <1>1, <3>1, <3>2 DEF HasFooter
    <3>4. Len(versions'[1]) = file'.size /\ file'.len + 2 > ColdOpen
      BY <1>1, <1>3, <2>3
    <3> QED BY <3>2, <3>3, <3>4 DEF FooterIsOneVersion
  <2> QED BY <2>1, <2>2, <2>3 DEF AInv, FooterIsOneVersion
<1>5. FooterIsOneVersion'
  BY <1>4 DEF FooterIsOneVersion
<1> QED BY <1>1, <1>2, <1>3, <1>5 DEF AInv, History, Due

(* Reads and streams leave the handle alone.                               *)
LEMMA ReadsHold ==
  ASSUME AInv, UNCHANGED <<object, versions, pc, file>> PROVE AInv'
  BY DEF AInv, History, Due, FooterIsOneVersion, Parses, HasFooter

LEMMA NextHolds == ASSUME AInv, [Next]_vars PROVE AInv'
<1>1. CASE Put BY <1>1, PutHolds
<1>2. CASE OpenSuffix BY <1>2, OpenSuffixHolds
<1>3. CASE OpenFooter BY <1>3, OpenFooterHolds
<1>4. CASE Read BY <1>4, ReadsHold DEF Read
<1>5. CASE StartStream BY <1>5, ReadsHold DEF StartStream
<1>6. CASE RefuseStream BY <1>6, ReadsHold DEF RefuseStream
<1>7. CASE NextBatch BY <1>7, ReadsHold DEF NextBatch
<1>8. CASE DropStream BY <1>8, ReadsHold DEF DropStream
<1>9. CASE UNCHANGED vars BY <1>9, ReadsHold DEF vars
<1> QED BY <1>1, <1>2, <1>3, <1>4, <1>5, <1>6, <1>7, <1>8, <1>9 DEF Next

(* A handle of AsyncParquetFile::open decodes the footer of one version of *)
(* the object, and has its size or one a trailer too large at most, for    *)
(* any objects, suffix length and history of PUTs.                         *)
THEOREM OneVersion == Spec => []FooterIsOneVersion
<1>1. AInv => FooterIsOneVersion
  BY DEF AInv
<1> QED BY InitHolds, NextHolds, <1>1, PTL DEF Spec

-----------------------------------------------------------------------------
(* An open while nobody puts anything.                                     *)

LEMMA HeadedIs ==
  ASSUME NEW v, IsContent(v), Len(v) >= 3
  PROVE  /\ Len(Headed(v)) = Len(v) /\ Headed(v)[1].piece = "magic"
         /\ \A i \in 2..Len(v) : Headed(v)[i] = v[i]
         /\ \A m \in 2..Len(v), n \in Nat : n <= Len(v) => SubSeq(Headed(v), m, n) = SubSeq(v, m, n)
<1> DEFINE S == Units(v) \cup {Magic[1]}
<1>1. v \in Seq(S) /\ Len(v) \in Nat
  <2>1. v \in Seq(Units(v)) /\ Len(v) \in Nat
    BY ContentIsSeq
  <2> QED BY <2>1
<1>2. Headed(v) \in Seq(S) /\ Len(Headed(v)) = Len(v) /\ Headed(v)[1] = Magic[1]
      /\ \A i \in 2..Len(v) : Headed(v)[i] = v[i]
  BY <1>1 DEF Headed
<1>3. Magic[1].piece = "magic"
  BY DEF Magic, Piece
<1>4. ASSUME NEW m \in 2..Len(v), NEW n \in Nat, n <= Len(v)
      PROVE  SubSeq(Headed(v), m, n) = SubSeq(v, m, n)
  <2> DEFINE h == Headed(v)
  <2>1. \A i \in m..n : v[i] \in S /\ h[i] \in S /\ h[i] = v[i]
    <3> SUFFICES ASSUME NEW i \in m..n PROVE v[i] \in S /\ h[i] \in S /\ h[i] = v[i]
      OBVIOUS
    <3>1. i \in 2..Len(v) /\ i \in 1..Len(v)
      BY <1>1, <1>4
    <3>2. v[i] \in S
      BY <1>1, <3>1
    <3> QED BY <1>2, <3>1, <3>2
  <2> HIDE DEF h
  <2>2. \A i \in m..n : v[i] \in S
    BY <2>1
  <2>3. \A i \in m..n : h[i] \in S
    BY <2>1
  <2>4. /\ SubSeq(v, m, n) \in Seq(S) /\ Len(SubSeq(v, m, n)) = IF m <= n THEN n - m + 1 ELSE 0
        /\ \A i \in 1..(n - m + 1) : SubSeq(v, m, n)[i] = v[m + i - 1]
    BY <2>2, SubSeqProperties
  <2>5. /\ SubSeq(h, m, n) \in Seq(S) /\ Len(SubSeq(h, m, n)) = IF m <= n THEN n - m + 1 ELSE 0
        /\ \A i \in 1..(n - m + 1) : SubSeq(h, m, n)[i] = h[m + i - 1]
    BY <2>3, SubSeqProperties
  <2>6. SubSeq(h, m, n) = SubSeq(v, m, n)
    <3>1. ASSUME NEW i \in 1..Len(SubSeq(v, m, n)) PROVE SubSeq(h, m, n)[i] = SubSeq(v, m, n)[i]
      <4>1. i \in 1..(n - m + 1) /\ m + i - 1 \in m..n
        BY <2>4, <1>1
      <4> QED BY <2>1, <2>4, <2>5, <4>1
    <3> QED BY <2>4, <2>5, <3>1, SeqEqual
  <2> QED BY <2>6 DEF h
<1> QED BY <1>2, <1>3, <1>4

LEMMA HeadedOpens ==
  ASSUME NEW v, IsContent(v), Len(v) >= 3
  PROVE  Opens(Headed(v)) <=>
           /\ v[Len(v)].piece = "magic" /\ v[Len(v) - 1].piece = "length"
           /\ v[Len(v) - 1].of <= Len(v) - 3
           /\ HoldsFooter(Bytes(v, Len(v) - 2 - v[Len(v) - 1].of, v[Len(v) - 1].of))
<1> DEFINE h   == Headed(v)
           len == v[Len(v) - 1].of
<1>1. Len(v) \in Nat /\ Len(v) - 1 \in 2..Len(v) /\ Len(v) \in 2..Len(v)
  BY ContentIsSeq
<1>2. Len(h) = Len(v) /\ h[1].piece = "magic" /\ h[Len(v)] = v[Len(v)] /\ h[Len(v) - 1] = v[Len(v) - 1]
  BY <1>1, HeadedIs
<1>3. ASSUME v[Len(v) - 1].piece = "length", len <= Len(v) - 3
      PROVE  Bytes(h, Len(v) - 2 - len, len) = Bytes(v, Len(v) - 2 - len, len)
  <2>1. len \in Nat
    BY <1>1, <1>3 DEF IsContent
  <2>2. Len(v) - 2 - len + 1 \in 2..Len(v) /\ Len(v) - 2 - len + len \in Nat
        /\ Len(v) - 2 - len + len <= Len(v)
    BY <1>1, <1>3, <2>1
  <2> QED BY <2>2, HeadedIs DEF Bytes
<1> QED BY <1>1, <1>2, <1>3 DEF Opens, FooterSize

(* A footer right before the trailer has a unit at least and a length      *)
(* behind it.                                                              *)
LEMMA FooterHasTail ==
  ASSUME NEW v, IsContent(v), NEW len \in Nat, len <= Len(v) - 2,
         HoldsFooter(Bytes(v, Len(v) - 2 - len, len))
  PROVE  len >= 1 /\ v[Len(v) - 1].piece = "length"
<1> DEFINE at == Len(v) - 2 - len
<1>1. Len(v) \in Nat /\ at \in Nat /\ at + len <= Len(v)
  BY ContentIsSeq
<1>2. PICK n \in 1..Len(Bytes(v, at, len)) : IsWhole(SubSeq(Bytes(v, at, len), 1, n), "footer")
  BY DEF HoldsFooter
<1> HIDE DEF at
<1>3. n \in 1..len /\ v[Len(v) - 1].piece = "length"
  BY <1>1, <1>2, FooterEndsAtTrailer
<1> QED BY <1>3

(* Reading a footer of the declared length from right before the trailer   *)
(* is what ParquetFile::open does.                                         *)
LEMMA FooterOpens ==
  ASSUME NEW v, IsContent(v), Len(v) >= 3, NEW len \in Nat, len <= Len(v) - 3,
         v[Len(v)].piece = "magic", v[Len(v) - 1].piece = "length" => v[Len(v) - 1].of = len
  PROVE  HoldsFooter(Bytes(v, Len(v) - 2 - len, len)) <=> Opens(Headed(v))
<1>1. Len(v) \in Nat
  BY ContentIsSeq
<1>2. ASSUME HoldsFooter(Bytes(v, Len(v) - 2 - len, len)) PROVE Opens(Headed(v))
  <2>1. v[Len(v) - 1].piece = "length"
    BY <1>1, <1>2, FooterHasTail
  <2> QED BY <1>2, <2>1, HeadedOpens
<1>3. ASSUME Opens(Headed(v)) PROVE HoldsFooter(Bytes(v, Len(v) - 2 - len, len))
  BY <1>3, HeadedOpens
<1> QED BY <1>2, <1>3

LEMMA RoomIs == ASSUME NEW size \in Nat, size < Word, size >= 3 PROVE Room(size) = size - 3
  BY WordAssumption, ModSmall, size - 3 \in 0..(Word - 1) DEF Room

(* What a handle waiting for its second GET knows of the trailer.          *)
TrailerDue ==
  /\ pc = "closed" => versions = << >>
  /\ pc = "footer" /\ Len(versions) = 1 =>
       LET v == versions[1]
       IN  /\ Len(v) = file.size /\ v[Len(v)].piece = "magic"
           /\ v[Len(v) - 1].piece = "length" => v[Len(v) - 1].of = file.len

SInv == AInv /\ TrailerDue /\ OpensLikeSync

LEMMA OpenSuffixLikeSync == ASSUME AInv, OpenSuffix PROVE TrailerDue' /\ OpensLikeSync'
<1> DEFINE n      == Least(ColdOpen, Len(object))
           suffix == GetSuffix(ColdOpen)
           tail   == suffix[Len(suffix) - 1]
           lens   == IF tail.piece = "length" THEN {tail.of} ELSE {0, Word \div 2}
           v      == object
<1>1. versions' = <<object>> /\ object' = object /\ IsContent(object) /\ pc' # "closed"
  BY ObjectsAssumption DEF OpenSuffix, AInv, History, Contents
<1>2. Len(object) \in Nat /\ Len(object) < Word /\ n \in 0..Len(object) /\ (Len(object) >= 2 => n >= 2)
  BY <1>1, ContentIsSeq, ColdOpenAssumption DEF Least
<1>3. Len(versions') = 1 /\ versions'[1] = v
  BY <1>1
<1>4. suffix = SubSeq(object, Len(object) - n + 1, Len(object)) /\ Len(suffix) = n
      /\ \A i \in 1..n : suffix[i] = object[Len(object) - n + i]
  <2>1. Len(object) - n + 1 \in Int /\ 1 <= Len(object) - n + 1 /\ Len(object) \in Int
    BY <1>2
  <2>2. suffix = SubSeq(object, Len(object) - n + 1, Len(object))
    BY DEF GetSuffix
  <2>3. /\ Len(suffix) = IF Len(object) - n + 1 <= Len(object) THEN n ELSE 0
        /\ \A i \in 1..n : suffix[i] = object[Len(object) - n + 1 + i - 1]
    <3> DEFINE a == Len(object) - n + 1
    <3>1. Len(object) - a + 1 = n /\ a \in Int /\ 1 <= a
      BY <1>2
    <3> HIDE DEF a
    <3>2. /\ Len(SubSeq(object, a, Len(object))) = IF a <= Len(object) THEN Len(object) - a + 1 ELSE 0
          /\ \A i \in 1..(Len(object) - a + 1) : SubSeq(object, a, Len(object))[i] = object[a + i - 1]
      BY <1>1, <1>2, <3>1, SliceIs
    <3> QED BY <2>2, <3>1, <3>2 DEF a
  <2>4. ASSUME NEW i \in 1..n PROVE suffix[i] = object[Len(object) - n + i]
    <3>1. Len(object) - n + 1 + i - 1 = Len(object) - n + i
      BY <1>2
    <3> QED BY <2>3, <3>1
  <2>5. Len(suffix) = n
    BY <1>2, <2>3
  <2> QED BY <2>2, <2>4, <2>5
<1> HIDE DEF n, suffix, tail, lens
<1>5. n >= 2 => tail = v[Len(v) - 1] /\ suffix[n] = v[Len(v)]
  <2> SUFFICES ASSUME n >= 2 PROVE tail = v[Len(v) - 1] /\ suffix[n] = v[Len(v)]
    OBVIOUS
  <2>1. n - 1 \in 1..n /\ n \in 1..n /\ Len(v) - n + (n - 1) = Len(v) - 1 /\ Len(v) - n + n = Len(v)
    BY <1>2
  <2>2. suffix[n - 1] = v[Len(v) - n + (n - 1)] /\ suffix[n] = v[Len(v) - n + n]
    BY <1>4, <2>1
  <2> QED BY <1>4, <2>1, <2>2 DEF tail
<1>6. CASE n < 2
  <2>1. pc' \notin {"footer", "open"} /\ ~(Len(v) >= 3)
    BY <1>2, <1>4, <1>6 DEF OpenSuffix, suffix
  <2> QED BY <1>1, <1>3, <2>1 DEF TrailerDue, OpensLikeSync
<1>7. CASE n >= 2 /\ v[Len(v)].piece # "magic"
  <2>1. pc' \notin {"footer", "open"}
    BY <1>2, <1>4, <1>5, <1>7 DEF OpenSuffix, suffix
  <2>2. Len(v) >= 3 => ~Opens(Headed(v))
    BY <1>1, <1>7, HeadedOpens
  <2> QED BY <1>1, <1>3, <2>1, <2>2 DEF TrailerDue, OpensLikeSync
<1>8. CASE n >= 2 /\ v[Len(v)].piece = "magic"
  <2>1. PICK len \in lens :
          \/ Len(v) < 3 /\ pc' = "panicked"
          \/ len > Room(Len(v)) /\ pc' = "failed"
          \/ /\ len <= Room(Len(v)) /\ n >= len + 2 /\ pc' = "open"
             /\ file' = [size |-> Len(v), at |-> (Len(v) - 2 - len) % Word, len |-> len,
                         bytes |-> SubSeq(suffix, n - 1 - len, n - 2)]
          \/ /\ len <= Room(Len(v)) /\ ~(n >= len + 2) /\ pc' = "footer"
             /\ file' = [size |-> Len(v), at |-> (Len(v) - 2 - len) % Word, len |-> len, bytes |-> << >>]
    <3>1. suffix[Len(suffix)].piece = "magic" /\ ~(Len(suffix) < 2) /\ tail = suffix[Len(suffix) - 1]
      BY <1>2, <1>4, <1>5, <1>8 DEF tail
    <3> QED BY <1>4, <3>1 DEF OpenSuffix, SizeOf, Covers, suffix, tail, lens
  <2>2. /\ len \in Nat /\ (v[Len(v) - 1].piece = "length" => v[Len(v) - 1].of = len)
        /\ Len(v) - 1 \in 1..Len(v)
    BY <1>1, <1>2, <1>5, <1>8, <2>1, WordAssumption DEF lens, IsContent
  <2>3. Len(v) >= 3 => Room(Len(v)) = Len(v) - 3
    BY <1>2, RoomIs
  <2>4. CASE pc' = "footer"
    BY <1>1, <1>3, <1>8, <2>1, <2>2, <2>4 DEF TrailerDue, OpensLikeSync
  <2>5. CASE pc' = "panicked" \/ pc' = "failed"
    <3>1. Len(v) < 3 \/ len > Room(Len(v))
      BY <2>1, <2>5
    <3>2. Len(v) >= 3 => ~Opens(Headed(v))
      BY <1>1, <1>2, <2>2, <2>3, <3>1, HeadedOpens
    <3> QED BY <1>1, <1>2, <1>3, <2>5, <3>2 DEF TrailerDue, OpensLikeSync
  <2>6. CASE pc' = "open"
    <3>1. /\ len <= Room(Len(v)) /\ n >= len + 2
          /\ file'.bytes = SubSeq(suffix, n - 1 - len, n - 2)
      BY <2>1, <2>6
    <3>2. n \in 2..Len(v)
      BY <1>2, <1>8
    <3>3. file'.bytes = SubSeq(v, Len(v) - 1 - len, Len(v) - 2)
      BY <1>1, <1>4, <2>2, <3>1, <3>2, SliceOfSuffix
    <3>4. file'.bytes = Bytes(v, Len(v) - 2 - len, len)
      <4>1. Len(v) - 2 - len + 1 = Len(v) - 1 - len /\ Len(v) - 2 - len + len = Len(v) - 2
        BY <1>2, <2>2
      <4> QED BY <3>3, <4>1 DEF Bytes
    <3>5. Parses' <=> HoldsFooter(Bytes(v, Len(v) - 2 - len, len))
      BY <3>4 DEF Parses
    <3>6. CASE Len(v) >= 3
      <4>1. len <= Len(v) - 3
        BY <2>3, <3>1, <3>6
      <4>2. HoldsFooter(Bytes(v, Len(v) - 2 - len, len)) <=> Opens(Headed(v))
        BY <1>1, <1>8, <2>2, <3>6, <4>1, FooterOpens
      <4> QED BY <1>1, <1>3, <2>6, <3>5, <3>6, <4>2 DEF TrailerDue, OpensLikeSync
    <3>7. CASE ~(Len(v) >= 3)
      <4>1. len <= Len(v) - 2 /\ ~(len >= 1)
        BY <1>2, <2>2, <3>1, <3>2, <3>7
      <4>2. ~Parses'
        BY <1>1, <2>2, <3>5, <4>1, FooterHasTail
      <4> QED BY <1>1, <1>3, <2>6, <3>7, <4>2 DEF TrailerDue, OpensLikeSync
    <3> QED BY <3>6, <3>7
  <2> QED BY <2>1, <2>4, <2>5, <2>6
<1> QED BY <1>2, <1>6, <1>7, <1>8

LEMMA OpenFooterLikeSync == ASSUME SInv, OpenFooter PROVE TrailerDue' /\ OpensLikeSync'
<1>1. versions' = versions /\ object' = object /\ pc = "footer" /\ pc' \in {"open", "failed"}
  BY DEF OpenFooter
<1>2. TrailerDue'
  BY <1>1 DEF TrailerDue
<1>3. ASSUME Len(versions) = 1
      PROVE  OpensLikeSync'
  <2> DEFINE at  == file.at
             len == file.len
             end == (file.at + file.len) % Word
             v   == versions[1]
  <2>1. v = object /\ IsContent(v) /\ Len(v) \in Nat /\ Len(v) < Word
    BY <1>1, <1>3, InHistory, ContentIsSeq DEF SInv, AInv
  <2>2. /\ file.size \in 2..(Word - 1) /\ len \in Nat /\ len <= Room(file.size)
        /\ at = (file.size - 2 - len) % Word
        /\ file = [size |-> file.size, at |-> file.at, len |-> file.len, bytes |-> file.bytes]
    BY <1>1 DEF SInv, AInv, Due
  <2>3. /\ file.size >= 3 => at = file.size - 2 - len /\ at \in Nat /\ end = file.size - 2
        /\ file.size = 2 => at \in Nat /\ end = 0
    BY <2>2, RangeDue
  <2>4. /\ Len(v) = file.size /\ v[Len(v)].piece = "magic"
        /\ v[Len(v) - 1].piece = "length" => v[Len(v) - 1].of = len
    BY <1>1, <1>3 DEF SInv, TrailerDue
  <2>5. /\ pc' = "open" => /\ ~Refused(at, end) /\ Len(GetBounded(at, end)) = len
                           /\ file' = [file EXCEPT !.bytes = GetBounded(at, end)]
        /\ pc' = "failed" => Refused(at, end) \/ Len(GetBounded(at, end)) # len
    BY DEF OpenFooter
  <2> HIDE DEF at, len, end, v
  <2>6. CASE file.size = 2
    <3>1. Refused(at, end)
      BY <2>3, <2>6, WordAssumption DEF Refused
    <3>2. pc' = "failed"
      BY <1>1, <2>5, <3>1
    <3>3. pc' # "open" /\ versions'[1] = v /\ ~(Len(v) >= 3)
      BY <1>1, <2>1, <2>4, <2>6, <3>2 DEF v
    <3> QED BY <3>3 DEF OpensLikeSync
  <2>7. CASE file.size >= 3
    <3>1. Room(file.size) = file.size - 3
      BY <2>2, <2>7, RoomIs, WordAssumption
    <3>2. /\ at = Len(v) - 2 - len /\ at \in Nat /\ end = at + len /\ end = Len(v) - 2
          /\ len <= Len(v) - 3 /\ Len(v) >= 3
      BY <2>1, <2>2, <2>3, <2>4, <2>7, <3>1
    <3>3. HoldsFooter(Bytes(v, Len(v) - 2 - len, len)) <=> Opens(Headed(v))
      BY <2>1, <2>2, <2>4, <3>2, FooterOpens
    <3>4. GetBounded(at, end) = Bytes(v, at, len) /\ Len(Bytes(v, at, len)) = len
      <4>0. end < Len(object) /\ end \in Nat /\ at + 1 \in Int /\ at + len \in Int /\ 1 <= at + 1
            /\ at + len <= Len(v)
        BY <2>1, <2>2, <3>2
      <4>1. GetBounded(at, end) = Bytes(v, at, len)
        BY <2>1, <3>2, <4>0 DEF GetBounded, Least, Bytes
      <4>2. Len(Bytes(v, at, len)) = len
        BY <2>1, <2>2, <3>2, <4>0, BytesOf
      <4> QED BY <4>1, <4>2
    <3>5. CASE pc' = "open"
      <4>1. file'.bytes = Bytes(v, at, len)
        BY <2>2, <2>5, <3>4, <3>5
      <4>2. Parses' <=> Opens(Headed(v))
        BY <3>2, <3>3, <4>1 DEF Parses
      <4> QED BY <1>1, <3>2, <3>5, <4>2 DEF OpensLikeSync, v
    <3>6. CASE pc' = "failed"
      <4>1. Refused(at, end)
        BY <2>5, <3>4, <3>6
      <4>2. len = 0
        BY <2>1, <2>2, <3>2, <4>1 DEF Refused
      <4>3. ~Opens(Headed(v))
        <5>1. len <= Len(v) - 2 /\ ~(len >= 1)
          BY <2>1, <2>2, <3>2, <4>2
        <5>2. ~HoldsFooter(Bytes(v, Len(v) - 2 - len, len))
          BY <2>1, <2>2, <5>1, FooterHasTail
        <5> QED BY <3>3, <5>2
      <4> QED BY <1>1, <3>6, <4>3 DEF OpensLikeSync, v
    <3> QED BY <1>1, <3>5, <3>6
  <2> QED BY <2>2, <2>6, <2>7
<1>4. CASE Len(versions) # 1
  BY <1>1, <1>2, <1>4 DEF OpensLikeSync
<1> QED BY <1>2, <1>3, <1>4

(* A cold open during which nobody puts anything succeeds exactly when     *)
(* ParquetFile::open does, for any object, suffix length and build.        *)
THEOREM LikeSync == Spec => []OpensLikeSync
<1>1. Init => SInv
  BY InitHolds DEF SInv, TrailerDue, OpensLikeSync, Init
<1>2. SInv /\ [Next]_vars => SInv'
  <2> SUFFICES ASSUME SInv, [Next]_vars PROVE SInv' OBVIOUS
  <2>1. AInv'
    BY NextHolds DEF SInv
  <2>2. CASE Put
    <3>1. versions \in Seq(Contents) /\ versions # << >> /\ versions' = Append(versions, object')
          /\ object' \in Contents /\ pc' # "closed"
      BY <2>2 DEF Put, Contents, SInv, AInv, History
    <3>2. Len(versions') # 1
      BY <3>1
    <3> QED BY <2>1, <3>1, <3>2 DEF SInv, TrailerDue, OpensLikeSync
  <2>3. CASE OpenSuffix BY <2>1, <2>3, OpenSuffixLikeSync DEF SInv
  <2>4. CASE OpenFooter BY <2>1, <2>4, OpenFooterLikeSync DEF SInv
  <2>5. CASE UNCHANGED <<object, versions, pc, file>>
    BY <2>1, <2>5 DEF SInv, TrailerDue, OpensLikeSync, Parses
  <2> QED BY <2>2, <2>3, <2>4, <2>5 DEF Next, vars, Read, StartStream, RefuseStream, NextBatch, DropStream
<1>3. SInv => OpensLikeSync
  BY DEF SInv
<1> QED BY <1>1, <1>2, <1>3, PTL DEF Spec

-----------------------------------------------------------------------------
(* What a column read gets.                                                *)

(* ReadFrom, of a given content.                                           *)
ReadOf(v, cm) ==
  LET start == ChunkStart(cm)
      end   == start + cm.compressed
      bytes == IF cm.compressed = 0 THEN << >> ELSE SubSeq(v, start + 1, Least(end, Len(v)))
      r     == Decoded(bytes, cm)
  IN  IF end > file.size \/ (cm.compressed > 0 /\ (start >= end \/ start >= Len(v))) THEN Failed
      ELSE [out |-> r.out, err |-> r.err]

ColumnOf(v, ch) == IF Parses /\ HasChunk(ch) THEN ReadOf(v, ChunkMeta(ch)) ELSE Failed

LEMMA ReadColumnIs ==
  ASSUME NEW ch
  PROVE  ReadColumn(ch) = [chunk |-> ch, out |-> ColumnOf(object, ch).out,
                           err |-> ColumnOf(object, ch).err, from |-> Len(versions)]
<1>1. \A cm : ReadFrom(cm) = ReadOf(object, cm)
  BY DEF ReadFrom, ReadOf, GetBounded, Refused
<1> QED BY <1>1 DEF ReadColumn, ColumnOf

(* The chunks of a footer that decodes.                                    *)
LEMMA ChunkTyped ==
  ASSUME AInv, pc = "open", Parses, NEW ch, HasChunk(ch)
  PROVE  /\ ChunkStart(ChunkMeta(ch)) \in Nat /\ ChunkMeta(ch).compressed \in Nat
         /\ ChunkMeta(ch).rows \in Nat /\ ChunkMeta(ch).levels \in BOOLEAN
<1>1. PICK k \in DOMAIN versions, extra \in 0..2 : HasFooter(versions[k], extra)
  <2>1. ASSUME NEW k \in 2..Len(versions) PROVE k \in DOMAIN versions
    BY <2>1 DEF AInv, History
  <2> QED BY <2>1 DEF AInv, FooterIsOneVersion
<1> DEFINE v == versions[k]
           n == file.len - extra
<1>2. v \in Contents
  <2>1. versions \in Seq(Contents)
    BY DEF AInv, History
  <2> QED BY <2>1
<1>3. IsContent(v)
  BY <1>2, ObjectsAssumption DEF Contents
<1>4. /\ IsWhole(SubSeq(file.bytes, 1, n), "footer")
      /\ SubSeq(file.bytes, 1, n) = Bytes(v, file.at, n)
      /\ file.at + file.len + 2 = file.size /\ Len(v) = file.size - extra
      /\ file.at \in Nat /\ file.len \in Nat /\ file.size \in Nat
  BY <1>1 DEF AInv, Due, HasFooter
<1>5. Len(v) \in Nat /\ v \in Seq(Units(v)) /\ n \in Int
  BY <1>3, <1>4, ContentIsSeq
<1> HIDE DEF v
<1>6. n >= 1
  <2> SUFFICES ASSUME ~(n >= 1) PROVE FALSE
    OBVIOUS
  <2> DEFINE a == file.at + 1
             b == file.at + n
  <2>1. a \in Int /\ b \in Int /\ b < a
    BY <1>4, <1>5
  <2> HIDE DEF a, b, n
  <2>2. SubSeq(v, a, b) = << >>
    BY <1>5, <2>1, SubSeqEmpty
  <2>3. SubSeq(file.bytes, 1, n) # << >>
    BY <1>4 DEF IsWhole
  <2> QED BY <1>4, <2>2, <2>3 DEF Bytes, a, b
<1>7. file.bytes[1] = v[file.at + 1] /\ file.at + 1 \in 1..Len(v) /\ v[file.at + 1].piece = "footer"
  <2> DEFINE S == {file.bytes[i] : i \in 1..n}
             part == SubSeq(file.bytes, 1, n)
  <2>1. file.at + n <= Len(v) /\ n \in Nat
    <3> DEFINE at == file.at
               len == file.len
               length == Len(v)
    <3>1. at \in Nat /\ len \in Nat /\ extra \in 0..2 /\ at + len + 2 - extra = length
      BY <1>4
    <3>2. n = len - extra /\ n >= 1
      BY <1>6
    <3> HIDE DEF at, len, length, n
    <3>3. at + n <= length /\ n \in Nat
      BY <3>1, <3>2
    <3> QED BY <3>3 DEF at, length
  <2> HIDE DEF n
  <2>2. \A i \in 1..n : file.bytes[i] \in S
    OBVIOUS
  <2> HIDE DEF S
  <2>3. part \in Seq(S) /\ Len(part) = n /\ part[1] = file.bytes[1]
    <3>1. 1 \in Int /\ n \in Int /\ n - 1 + 1 = n /\ 1 \in 1..n /\ 1 + 1 - 1 = 1
      BY <1>6, <2>1
    <3>2. /\ SubSeq(file.bytes, 1, n) \in Seq(S)
          /\ Len(SubSeq(file.bytes, 1, n)) = IF 1 <= n THEN n - 1 + 1 ELSE 0
          /\ \A i \in 1..(n - 1 + 1) : SubSeq(file.bytes, 1, n)[i] = file.bytes[1 + i - 1]
      BY <2>2, <3>1, SubSeqProperties
    <3> QED BY <1>6, <3>1, <3>2
  <2>4. 1 \in DOMAIN part /\ part[1].piece = "footer"
    <3>1. 1 \in DOMAIN part
      BY <1>6, <2>1, <2>3
    <3> QED BY <1>4, <3>1 DEF IsWhole
  <2>5. Bytes(v, file.at, n)[1] = v[file.at + 1]
    BY <1>3, <1>4, <1>6, <2>1, BytesOf
  <2>6. file.at + 1 \in 1..Len(v)
    BY <1>4, <1>5, <1>6, <2>1
  <2> QED BY <1>4, <2>3, <2>4, <2>5, <2>6
<1>8. IsMeta(MetaData)
  BY <1>3, <1>7 DEF MetaData, IsContent
<1> QED BY <1>8 DEF IsMeta, HasChunk, ChunkMeta, ChunkStart

(* The answer at hand is the read of the version that served it.           *)
Served ==
  answer.from > 0 =>
    /\ pc = "open" /\ answer.from \in DOMAIN versions
    /\ answer = [chunk |-> answer.chunk, out |-> ColumnOf(versions[answer.from], answer.chunk).out,
                 err |-> ColumnOf(versions[answer.from], answer.chunk).err, from |-> answer.from]

ServedInv == AInv /\ Served

LEMMA ReadServes ==
  ASSUME AInv, pc = "open", UNCHANGED <<versions, pc, file>>,
         \E ch \in Chunks : answer' = ReadColumn(ch)
  PROVE  Served'
<1>1. PICK ch \in Chunks : answer' = ReadColumn(ch)
  OBVIOUS
<1>2. Len(versions) \in DOMAIN versions /\ versions[Len(versions)] = object
  BY InHistory DEF AInv
<1>3. answer' = [chunk |-> ch, out |-> ColumnOf(object, ch).out, err |-> ColumnOf(object, ch).err,
                 from |-> Len(versions)]
  BY <1>1, ReadColumnIs
<1>4. \A v : ColumnOf(v, ch)' = ColumnOf(v', ch)
  BY DEF ColumnOf, Parses, HasChunk, ChunkMeta, MetaData, ReadOf
<1>5. ColumnOf(versions[Len(versions)], ch)' = ColumnOf(object, ch)
  BY <1>2, <1>4
<1> HIDE DEF ColumnOf
<1> QED BY <1>2, <1>3, <1>5 DEF Served

LEMMA ServedInit == Init => ServedInv
  BY InitHolds DEF ServedInv, Served, Init, NoAnswer

LEMMA ServedNext == ASSUME ServedInv, [Next]_vars PROVE ServedInv'
<1>1. AInv'
  BY NextHolds DEF ServedInv
<1>2. CASE Put
  <2>1. /\ versions \in Seq(Contents) /\ versions' = Append(versions, object')
        /\ UNCHANGED <<pc, file, answer>> /\ object' \in Contents
    BY <1>2 DEF Put, Contents, ServedInv, AInv, History
  <2>2. \A k \in DOMAIN versions : k \in DOMAIN versions' /\ versions'[k] = versions[k]
    BY <2>1
  <2>3. ASSUME answer.from > 0
        PROVE  ColumnOf(versions[answer.from], answer.chunk)'
               = ColumnOf(versions[answer.from], answer.chunk)
    <3>1. answer.from \in DOMAIN versions
      BY <2>3 DEF ServedInv, Served
    <3>2. versions'[answer'.from] = versions[answer.from]
      BY <2>1, <2>2, <3>1
    <3> QED BY <2>1, <3>2 DEF ColumnOf, Parses, HasChunk, ChunkMeta, MetaData, ReadOf
  <2> HIDE DEF ColumnOf
  <2> QED BY <1>1, <2>1, <2>2, <2>3 DEF ServedInv, Served
<1>3. CASE OpenSuffix \/ OpenFooter
  <2>1. pc # "open" /\ answer' = answer
    BY <1>3 DEF OpenSuffix, OpenFooter
  <2> QED BY <1>1, <2>1 DEF ServedInv, Served
<1>4. CASE Read \/ StartStream
  <2>1. pc = "open" /\ UNCHANGED <<versions, pc, file>> /\ \E ch \in Chunks : answer' = ReadColumn(ch)
    BY <1>4 DEF Read, StartStream
  <2> QED BY <1>1, <2>1, ReadServes DEF ServedInv
<1>5. CASE RefuseStream \/ DropStream
  <2>1. answer'.from = 0
    <3>1. CASE RefuseStream
      <4>1. PICK ch \in Chunks : answer' = [NoAnswer EXCEPT !.chunk = ch, !.err = TRUE]
        BY <3>1 DEF RefuseStream
      <4> QED BY <4>1 DEF NoAnswer
    <3>2. CASE DropStream
      BY <3>2 DEF DropStream, NoAnswer
    <3> QED BY <1>5, <3>1, <3>2
  <2> QED BY <1>1, <2>1 DEF ServedInv, Served
<1>6. CASE NextBatch \/ UNCHANGED vars
  <2>1. UNCHANGED <<versions, pc, file, answer>>
    BY <1>6 DEF NextBatch, vars
  <2>2. ColumnOf(versions[answer.from], answer.chunk)' = ColumnOf(versions[answer.from], answer.chunk)
    BY <2>1 DEF ColumnOf, Parses, HasChunk, ChunkMeta, MetaData, ReadOf
  <2> HIDE DEF ColumnOf
  <2> QED BY <1>1, <2>1, <2>2 DEF ServedInv, Served
<1> QED BY <1>2, <1>3, <1>4, <1>5, <1>6 DEF Next

(* Two readers of one chunk see the same pages if they agree on each.      *)
LEMMA WalksAgree ==
  ASSUME NEW bytes, IsUnits(bytes), bytes = [i \in 1..Len(bytes) |-> bytes[i]], NEW codec,
         NEW strips, NEW strips2,
         \A pos \in 0..(Len(bytes) - 1) :
           Takes(bytes, pos) => PageAt(bytes, pos, codec, strips) = PageAt(bytes, pos, codec, strips2)
  PROVE  Walk(bytes, codec, strips) = Walk(bytes, codec, strips2)
<1> DEFINE n == Len(bytes)
           f == PagesFrom(bytes, codec, strips)
           g == PagesFrom(bytes, codec, strips2)
<1>1. n \in Nat
  BY DEF IsUnits
<1>2. /\ f[n] = << >> /\ g[n] = << >>
      /\ \A pos \in 0..(n - 1) :
           /\ ~Takes(bytes, pos) => f[pos] = <<BadPage>> /\ g[pos] = <<BadPage>>
           /\ Takes(bytes, pos) =>
                /\ PageEnd(bytes, pos) \in (pos + 1)..n
                /\ f[pos] = <<PageAt(bytes, pos, codec, strips)>> \o f[PageEnd(bytes, pos)]
                /\ g[pos] = <<PageAt(bytes, pos, codec, strips)>> \o g[PageEnd(bytes, pos)]
  <2>1. ASSUME NEW st
        PROVE  /\ PagesFrom(bytes, codec, st)[Len(bytes)] = << >>
               /\ \A pos \in 0..(Len(bytes) - 1) :
                    /\ ~Takes(bytes, pos) => PagesFrom(bytes, codec, st)[pos] = <<BadPage>>
                    /\ Takes(bytes, pos) =>
                         /\ PageEnd(bytes, pos) \in (pos + 1)..Len(bytes)
                         /\ PagesFrom(bytes, codec, st)[pos] =
                              <<PageAt(bytes, pos, codec, st)>> \o PagesFrom(bytes, codec, st)[PageEnd(bytes, pos)]
    <3>1. /\ IsUnits(bytes)
          /\ bytes = [i \in 1..Len(bytes) |-> bytes[i]]
      OBVIOUS
    <3>2. /\ PagesFrom(bytes, codec, st) \in [0..Len(bytes) -> Seq(Page)]
          /\ PagesFrom(bytes, codec, st)[Len(bytes)] = << >>
          /\ \A pos \in 0..(Len(bytes) - 1) :
               /\ ~Takes(bytes, pos) => PagesFrom(bytes, codec, st)[pos] = <<BadPage>>
               /\ Takes(bytes, pos) =>
                    /\ PageEnd(bytes, pos) \in (pos + 1)..Len(bytes)
                    /\ PageAt(bytes, pos, codec, st) \in Page
                    /\ PagesFrom(bytes, codec, st)[pos] =
                         <<PageAt(bytes, pos, codec, st)>> \o PagesFrom(bytes, codec, st)[PageEnd(bytes, pos)]
      BY ONLY <3>1, WalkPages
    <3> QED BY <3>2
  <2>2. /\ f[n] = << >> /\ g[n] = << >>
        /\ \A pos \in 0..(n - 1) :
             /\ ~Takes(bytes, pos) => f[pos] = <<BadPage>> /\ g[pos] = <<BadPage>>
             /\ Takes(bytes, pos) =>
                  /\ PageEnd(bytes, pos) \in (pos + 1)..n
                  /\ f[pos] = <<PageAt(bytes, pos, codec, strips)>> \o f[PageEnd(bytes, pos)]
                  /\ g[pos] = <<PageAt(bytes, pos, codec, strips2)>> \o g[PageEnd(bytes, pos)]
    BY <2>1, Zenon
  <2> HIDE DEF f, g
  <2> QED BY <2>2
<1> HIDE DEF n, f, g
<1> DEFINE T == {m \in 0..n : f[n - m] # g[n - m]}
<1> SUFFICES ASSUME f[0] # g[0] PROVE FALSE
  BY DEF Walk, f, g
<1>3. n \in T /\ T \in SUBSET Nat
  BY <1>1
<1> HIDE DEF T
<1>4. PICK m \in T : \A y \in T : m <= y
  BY <1>3, LeastNat
<1>5. m \in 0..n /\ f[n - m] # g[n - m]
  BY <1>4 DEF T
<1> DEFINE q == n - m
<1>6. q \in 0..n /\ q # n
  BY <1>1, <1>2, <1>5
<1>7. q \in 0..(n - 1)
  BY <1>1, <1>6
<1>8. f[q] # g[q]
  BY <1>5
<1> HIDE DEF q
<1>9. Takes(bytes, q)
  BY <1>2, <1>7, <1>8
<1> DEFINE e == PageEnd(bytes, q)
<1>10. e \in (q + 1)..n /\ f[e] # g[e]
  BY <1>2, <1>7, <1>8, <1>9
<1> HIDE DEF e
<1>11. n - e \in 0..n /\ n - (n - e) = e /\ n - e < m
  BY <1>1, <1>5, <1>7, <1>10 DEF q
<1>12. n - e \in T
  BY <1>10, <1>11 DEF T
<1> QED BY <1>1, <1>4, <1>5, <1>11, <1>12

(* A chunk within its content, and without levels to strip.                *)
Within(v, cm) ==
  /\ IsContent(v) /\ cm.levels \in BOOLEAN /\ ChunkStart(cm) \in Nat /\ cm.compressed \in Nat
  /\ ChunkStart(cm) + cm.compressed <= Len(v) /\ Bare(v, cm)

(* Without levels to strip, it does not matter whether a reader does.      *)
LEMMA BareWalk ==
  ASSUME NEW v, NEW cm, Within(v, cm)
  PROVE  Walk(Bytes(v, ChunkStart(cm), cm.compressed), cm.codec, cm.levels)
           = Walk(Bytes(v, ChunkStart(cm), cm.compressed), cm.codec, FALSE)
<1> DEFINE start == ChunkStart(cm)
           len   == cm.compressed
           bytes == Bytes(v, start, len)
<1> USE DEF Within
<1>1. Len(v) \in Nat /\ v \in Seq(Units(v)) /\ start \in Nat /\ len \in Nat /\ start + len <= Len(v)
  BY ContentIsSeq
<1>2. Len(bytes) = len /\ \A i \in 1..len : bytes[i] = v[start + i]
  BY <1>1, BytesOf
<1>3. bytes \in Seq(Units(v))
  <2> HIDE DEF start, len
  <2>1. \A i \in (start + 1)..(start + len) : v[i] \in Units(v)
    BY <1>1 DEF Units
  <2> QED BY <1>1, <2>1, SubSeqProperties, start + 1 \in Int, start + len \in Int DEF Bytes
<1>4. ASSUME cm.levels, NEW i \in 1..len, bytes[i].piece = "header"
      PROVE  ~(bytes[i].of.v1 /\ IsData(bytes[i].of))
  <2>1. start + i \in (start + 1)..(start + len) /\ start + i <= Len(v) /\ bytes[i] = v[start + i]
    BY <1>1, <1>2
  <2> QED BY <1>4, <2>1 DEF Bare
<1>5. IsUnits(bytes) /\ bytes = [i \in 1..Len(bytes) |-> bytes[i]]
  <2> HIDE DEF bytes
  <2>1. Len(bytes) \in Nat /\ \A i \in 1..Len(bytes) : bytes[i] \in Units(v)
    BY <1>3
  <2> QED BY <1>3, <2>1 DEF IsUnits, IsContent, Units
<1> HIDE DEF bytes, start, len
<1>6. ASSUME cm.levels, NEW pos \in 0..(Len(bytes) - 1), Takes(bytes, pos)
      PROVE  PageAt(bytes, pos, cm.codec, TRUE) = PageAt(bytes, pos, cm.codec, FALSE)
  <2>1. pos + 1 \in 1..len /\ bytes[pos + 1].piece = "header"
    BY <1>1, <1>2, <1>6 DEF Takes
  <2>2. ~(bytes[pos + 1].of.v1 /\ IsData(bytes[pos + 1].of))
    BY <1>4, <1>6, <2>1
  <2>3. ASSUME NEW h, ~(h.v1 /\ IsData(h)), NEW body
        PROVE  DecodePage(h, body, cm.codec, TRUE) = DecodePage(h, body, cm.codec, FALSE)
    <3>1. ~(TRUE /\ h.v1 /\ IsData(h)) /\ ~(FALSE /\ h.v1 /\ IsData(h))
      BY <2>3
    <3> QED BY <3>1 DEF DecodePage
  <2> QED BY <2>2, <2>3 DEF PageAt
<1>7. cm.levels => Walk(bytes, cm.codec, TRUE) = Walk(bytes, cm.codec, FALSE)
  BY <1>5, <1>6, WalksAgree
<1>8. CASE cm.levels = TRUE
  BY <1>7, <1>8 DEF bytes, start, len
<1>9. CASE cm.levels = FALSE
  BY <1>9
<1> QED BY <1>8, <1>9

(* Within both sizes, one GET brings what ParquetFile reads.               *)
LEMMA ReadOfIsSync ==
  ASSUME NEW v, IsContent(v), NEW cm, ChunkStart(cm) \in Nat, cm.compressed \in Nat,
         cm.levels \in BOOLEAN, file.size \in Nat, SameBounds(v, cm), Bare(v, cm)
  PROVE  ReadOf(v, cm) = [out |-> ReadChunk(v, cm).out, err |-> ReadChunk(v, cm).err]
<1> DEFINE start == ChunkStart(cm)
           len == cm.compressed
           fits == start + len <= file.size
<1>1. Len(v) \in Nat
  BY ContentIsSeq
<1>2. fits = (start + len <= Len(v))
  BY DEF SameBounds, InFile
<1> HIDE DEF start, len
<1>3. CASE ~fits
  <2>1. ReadOf(v, cm) = Failed
    <3>1. start + len > file.size
      BY <1>3 DEF start, len
    <3> QED BY <3>1 DEF ReadOf, start, len
  <2>2. ReadChunk(v, cm) = Failed
    BY <1>2, <1>3 DEF ReadChunk, InFile, start, len
  <2> QED BY <2>1, <2>2 DEF Failed
<1>4. CASE fits
  <2>1. start + len <= Len(v) /\ start \in Nat /\ len \in Nat
    BY <1>2, <1>4 DEF start, len
  <2> DEFINE bytes == IF len = 0 THEN << >> ELSE SubSeq(v, start + 1, Least(start + len, Len(v)))
  <2>2. bytes = Bytes(v, start, len)
    <3>1. CASE len = 0
      <4>1. SubSeq(v, start + 1, start + len) = << >>
        BY <1>1, <2>1, <3>1, ContentIsSeq, SubSeqEmpty
      <4> QED BY <3>1, <4>1 DEF Bytes
    <3>2. CASE len # 0
      BY <1>1, <2>1, <3>2 DEF Bytes, Least
    <3> QED BY <3>1, <3>2
  <2>3. ReadOf(v, cm) = [out |-> Decoded(bytes, cm).out, err |-> Decoded(bytes, cm).err]
    <3>1. ~(start + len > file.size) /\ ~(len > 0 /\ (start >= start + len \/ start >= Len(v)))
      BY <1>1, <1>4, <2>1
    <3> QED BY <3>1 DEF ReadOf, start, len
  <2>4. ReadChunk(v, cm) = [out |-> Decoded(Bytes(v, start, len), cm).out,
                            err |-> Decoded(Bytes(v, start, len), cm).err]
    <3>1. Walk(Bytes(v, start, len), cm.codec, cm.levels) = Walk(Bytes(v, start, len), cm.codec, FALSE)
      <4>1. ChunkStart(cm) + cm.compressed <= Len(v)
        BY <2>1 DEF start, len
      <4>2. Walk(Bytes(v, ChunkStart(cm), cm.compressed), cm.codec, cm.levels)
              = Walk(Bytes(v, ChunkStart(cm), cm.compressed), cm.codec, FALSE)
        <5>1. /\ IsContent(v) /\ cm.levels \in BOOLEAN /\ ChunkStart(cm) \in Nat
              /\ cm.compressed \in Nat /\ ChunkStart(cm) + cm.compressed <= Len(v) /\ Bare(v, cm)
          BY <4>1
        <5>2. Within(v, cm)
          BY <5>1 DEF Within
        <5> QED BY ONLY <5>2, BareWalk
      <4> QED BY <4>2 DEF start, len
    <3> QED BY <2>1, <3>1 DEF ReadChunk, InFile, Decoded, start, len
  <2> QED BY <2>2, <2>3, <2>4
<1> QED BY <1>3, <1>4

(* A column read is the synchronous read of the version that served its    *)
(* GET, if that version has the handle's footer and the column no levels   *)
(* in version 1 pages, whatever was put between.                           *)
THEOREM ReadsSync == Spec => []ReadIsSync
<1>1. ServedInv => ReadIsSync
  <2> SUFFICES ASSUME ServedInv, answer.from > 0, Parses, SameFooter(versions[answer.from])
               PROVE  LET v == versions[answer.from]
                          ch == answer.chunk
                      IN  /\ ~HasChunk(ch) => answer.err /\ answer.out = << >>
                          /\ HasChunk(ch) /\ Bare(v, ChunkMeta(ch)) => ReadsAs(v, ChunkMeta(ch))
    BY DEF ReadIsSync, Current
  <2> DEFINE v == versions[answer.from]
             ch == answer.chunk
  <2>1. /\ pc = "open" /\ answer.from \in DOMAIN versions
        /\ answer.out = ColumnOf(v, ch).out /\ answer.err = ColumnOf(v, ch).err
    BY DEF ServedInv, Served
  <2>2. IsContent(v)
    <3>1. versions \in Seq(Contents)
      BY DEF ServedInv, AInv, History
    <3>2. v \in Contents
      BY <2>1, <3>1
    <3> QED BY <3>2, ObjectsAssumption DEF Contents
  <2> HIDE DEF v, ch
  <2>3. ~HasChunk(ch) => answer.err /\ answer.out = << >>
    BY <2>1 DEF ColumnOf, Failed
  <2>4. ASSUME HasChunk(ch), SameBounds(v, ChunkMeta(ch)), Bare(v, ChunkMeta(ch))
        PROVE  answer.err = ReadChunk(v, ChunkMeta(ch)).err
               /\ answer.out = ReadChunk(v, ChunkMeta(ch)).out
    <3>1. ChunkStart(ChunkMeta(ch)) \in Nat /\ ChunkMeta(ch).compressed \in Nat
          /\ ChunkMeta(ch).levels \in BOOLEAN
      BY <2>1, <2>4, ChunkTyped DEF ServedInv
    <3>2. ReadOf(v, ChunkMeta(ch)) = [out |-> ReadChunk(v, ChunkMeta(ch)).out,
                                      err |-> ReadChunk(v, ChunkMeta(ch)).err]
      BY <2>1, <2>2, <2>4, <3>1, ReadOfIsSync DEF ServedInv, AInv, Due
    <3>3. ColumnOf(v, ch) = ReadOf(v, ChunkMeta(ch))
      BY <2>4 DEF ColumnOf
    <3> QED BY <2>1, <3>2, <3>3
  <2> QED BY <2>3, <2>4 DEF v, ch, ReadsAs
<1> QED BY ServedInit, ServedNext, <1>1, PTL DEF Spec

-----------------------------------------------------------------------------
(* Streams.                                                                *)

(* The batches of a stream, spelled one after the other.                   *)
LEMMA SpellSteps ==
  ASSUME NEW batches \in Seq(Seq(Int))
  PROVE  \E cut \in [0..Len(batches) -> Seq(Int)] :
           /\ cut[0] = << >> /\ \A k \in 1..Len(batches) : cut[k] = cut[k - 1] \o batches[k]
           /\ Spelled(batches) = cut[Len(batches)]
<1> DEFINE n == Len(batches)
           S == Seq(Int)
           e == << >>
           g == [k \in 1..n |-> [s \in S |-> s \o batches[k]]]
           body(f) == [k \in 0..n |-> IF k = 0 THEN << >> ELSE f[k - 1] \o batches[k]]
<1>1. n \in Nat /\ e \in S /\ \A k \in 1..n : batches[k] \in S
  OBVIOUS
<1>2. g \in [1..n -> [S -> S]]
  <2>1. \A s, t \in S : s \o t \in S
    OBVIOUS
  <2> HIDE DEF S
  <2> QED BY <1>1, <2>1
<1>3. PICK f \in [0..n -> S] : f[0] = e /\ \A k \in 1..n : f[k] = g[k][f[k - 1]]
  <2> HIDE DEF n, S, e, g
  <2>1. \E f \in [0..n -> S] : ReadsBelow(f, n, e, g)
    BY <1>1, <1>2, Recursion
  <2> QED BY <2>1 DEF ReadsBelow
<1>4. f = body(f)
  <2>1. ASSUME NEW k \in 0..n PROVE f[k] = IF k = 0 THEN << >> ELSE f[k - 1] \o batches[k]
    <3>1. CASE k = 0
      BY <1>3, <3>1
    <3>2. CASE k # 0
      <4>1. k \in 1..n /\ k - 1 \in 0..n
        BY <1>1, <3>2
      <4>2. f[k - 1] \in S
        BY <4>1
      <4>3. g[k][f[k - 1]] = f[k - 1] \o batches[k]
        <5> HIDE DEF S, n
        <5> QED BY <4>1, <4>2
      <4> QED BY <1>3, <3>2, <4>1, <4>3
    <3> QED BY <3>1, <3>2
  <2> QED BY <2>1
<1> DEFINE c == CHOOSE h : h = body(h)
<1>5. c = body(c) /\ Spelled(batches) = c[n]
  <2>1. c = body(c)
    <3> HIDE DEF body
    <3> QED BY <1>4
  <2>2. Spelled(batches) = c[n]
    BY DEF Spelled
  <2> QED BY <2>1, <2>2
<1> HIDE DEF c
<1>6. c = [k \in 0..n |-> c[k]] /\ c[0] = << >> /\ \A k \in 1..n : c[k] = c[k - 1] \o batches[k]
  <2> HIDE DEF n
  <2>1. c = [k \in 0..n |-> IF k = 0 THEN << >> ELSE c[k - 1] \o batches[k]]
    BY <1>5
  <2>2. 0 \in 0..n /\ \A k \in 1..n : k \in 0..n /\ k # 0
    BY <1>1
  <2> QED BY <2>1, <2>2
<1>7. \A k \in 0..n : c[k] \in S
  <2> DEFINE P == {k \in 0..n : c[k] \in S}
  <2>1. 0 \in P
    <3> HIDE DEF S, n
    <3>1. c[0] = e
      BY <1>6
    <3>2. c[0] \in S
      BY <1>1, <3>1
    <3>3. 0 \in 0..n
      BY <1>1
    <3> QED BY <3>2, <3>3
  <2>2. ASSUME NEW k \in 0..(n - 1), k \in P PROVE k + 1 \in P
    <3> DEFINE j == k + 1
    <3>1. j \in 1..n /\ j \in 0..n /\ j - 1 = k /\ c[k] \in S
      BY <1>1, <2>2
    <3> HIDE DEF j
    <3>2. c[j] = c[k] \o batches[j] /\ batches[j] \in S
      BY <1>1, <1>6, <3>1
    <3>3. c[j] \in S
      BY <3>1, <3>2
    <3> QED BY <3>1, <3>3 DEF j
  <2> HIDE DEF P
  <2>3. \A k \in 0..n : k \in P
    BY <1>1, <2>1, <2>2, Climb
  <2> QED BY <2>3 DEF P
<1>8. c \in [0..n -> S]
  BY <1>6, <1>7
<1> QED BY <1>5, <1>6, <1>8

LEMMA SpellAppend ==
  ASSUME NEW batches \in Seq(Seq(Int)), NEW b \in Seq(Int)
  PROVE  /\ Spelled(batches) \in Seq(Int)
         /\ Spelled(Append(batches, b)) = Spelled(batches) \o b
<1> DEFINE n == Len(batches)
           more == Append(batches, b)
<1>1. PICK c \in [0..n -> Seq(Int)] :
        /\ c[0] = << >> /\ \A k \in 1..n : c[k] = c[k - 1] \o batches[k]
        /\ Spelled(batches) = c[n]
  BY SpellSteps
<1>2. more \in Seq(Seq(Int)) /\ Len(more) = n + 1 /\ more[n + 1] = b /\ n \in Nat
      /\ \A k \in 1..n : more[k] = batches[k]
  OBVIOUS
<1> HIDE DEF n, more
<1>3. PICK d \in [0..(n + 1) -> Seq(Int)] :
        /\ d[0] = << >> /\ \A k \in 1..(n + 1) : d[k] = d[k - 1] \o more[k]
        /\ Spelled(more) = d[n + 1]
  <2>1. \E d \in [0..Len(more) -> Seq(Int)] :
          /\ d[0] = << >> /\ \A k \in 1..Len(more) : d[k] = d[k - 1] \o more[k]
          /\ Spelled(more) = d[Len(more)]
    BY <1>2, SpellSteps
  <2> QED BY <1>2, <2>1
<1>4. \A k \in 0..n : d[k] = c[k]
  <2> DEFINE P == {k \in 0..n : d[k] = c[k]}
  <2>1. 0 \in P
    <3>1. d[0] = c[0]
      BY <1>1, <1>3, Zenon
    <3> QED BY <1>2, <3>1
  <2>2. ASSUME NEW k \in 0..(n - 1), k \in P PROVE k + 1 \in P
    <3> DEFINE j == k + 1
    <3>1. j \in 1..n /\ j \in 1..(n + 1) /\ j \in 0..n /\ j - 1 = k /\ d[k] = c[k]
      BY <1>2, <2>2
    <3> HIDE DEF j
    <3>2. d[j] = d[k] \o batches[j] /\ c[j] = c[k] \o batches[j]
      BY <1>1, <1>2, <1>3, <3>1
    <3> QED BY <3>1, <3>2 DEF j
  <2> HIDE DEF P
  <2>3. \A k \in 0..n : k \in P
    BY <1>2, <2>1, <2>2, Climb
  <2> QED BY <2>3 DEF P
<1>5. d[n + 1] = d[n] \o more[n + 1]
  <2> DEFINE j == n + 1
  <2>1. j \in 1..(n + 1) /\ j - 1 = n
    BY <1>2
  <2> HIDE DEF j
  <2>2. d[j] = d[n] \o more[j]
    BY <1>3, <2>1
  <2> QED BY <2>2 DEF j
<1>6. n \in 0..n
  BY <1>2
<1> QED BY <1>1, <1>2, <1>3, <1>4, <1>5, <1>6 DEF more, n

LEMMA SpellNone == Spelled(<< >>) = << >>
<1>1. << >> \in Seq(Seq(Int)) /\ Len(<< >>) = 0
  OBVIOUS
<1> QED BY <1>1, SpellSteps

LEMMA PagesAreInt == ASSUME NEW pages \in Seq(Page) PROVE IntPages(pages)
<1>1. Len(pages) \in Nat /\ \A k \in 1..Len(pages) : pages[k] \in Page
  OBVIOUS
<1> QED BY <1>1 DEF IntPages, Page

(* What a column read hands out is a sequence of values.                   *)
LEMMA ColumnTyped ==
  ASSUME AInv, pc = "open", NEW v, IsContent(v), NEW ch
  PROVE  ColumnOf(v, ch).out \in Seq(Int)
<1> DEFINE cm    == ChunkMeta(ch)
           start == ChunkStart(cm)
           end   == start + cm.compressed
           bytes == IF cm.compressed = 0 THEN << >> ELSE SubSeq(v, start + 1, Least(end, Len(v)))
<1>1. << >> \in Seq(Int)
  OBVIOUS
<1>2. CASE ~(Parses /\ HasChunk(ch))
  BY <1>1, <1>2 DEF ColumnOf, Failed
<1>3. CASE Parses /\ HasChunk(ch)
  <2>1. start \in Nat /\ cm.compressed \in Nat /\ cm.rows \in Nat
    BY <1>3, ChunkTyped
  <2>2. Len(v) \in Nat /\ v \in Seq(Units(v))
    BY ContentIsSeq
  <2> HIDE DEF cm, start
  <2>3. /\ bytes \in Seq(Units(v)) /\ Len(bytes) \in Nat
        /\ \A i \in 1..Len(bytes) : bytes[i] \in Units(v)
    <3> DEFINE last == Least(end, Len(v))
               first == start + 1
    <3>1. last \in Int /\ first \in Int /\ 1 <= first /\ last <= Len(v)
      BY <2>1, <2>2 DEF Least
    <3> HIDE DEF last, first
    <3>2. \A i \in first..last : v[i] \in Units(v)
      BY <2>2, <3>1 DEF Units
    <3>3. SubSeq(v, first, last) \in Seq(Units(v))
      BY <3>1, <3>2, SubSeqProperties
    <3>4. bytes \in Seq(Units(v))
      BY <3>3 DEF first, last
    <3> HIDE DEF bytes
    <3> QED BY <3>4
  <2> HIDE DEF bytes
  <2>4. IsUnits(bytes) /\ bytes = [i \in 1..Len(bytes) |-> bytes[i]]
    BY <2>3 DEF IsUnits, IsContent, Units
  <2>5. Walk(bytes, cm.codec, FALSE) \in Seq(Page)
    <3>1. PagesFrom(bytes, cm.codec, FALSE) \in [0..Len(bytes) -> Seq(Page)]
      BY <2>4, WalkPages
    <3>2. 0 \in 0..Len(bytes)
      BY <2>3
    <3> QED BY <3>1, <3>2 DEF Walk
  <2>6. IntPages(Walk(bytes, cm.codec, FALSE))
    BY <2>5, PagesAreInt
  <2>7. Decoded(bytes, cm) \in ReaderStates
    <3> DEFINE pages == Walk(bytes, cm.codec, FALSE)
    <3>1. IntPages(pages)
      BY <2>6
    <3> HIDE DEF pages
    <3>3. cm.rows \in Int
      BY <2>1
    <3>2. OneShot(pages, cm.rows) \in ReaderStates
      BY <3>1, <3>3, OneShotType
    <3> QED BY <3>2 DEF Decoded, pages
  <2>8. Decoded(bytes, cm).out \in Seq(Int)
    BY <2>7 DEF ReaderStates
  <2>9. ReadOf(v, cm).out \in Seq(Int)
    BY <1>1, <2>8 DEF ReadOf, Failed, bytes, start
  <2> QED BY <1>3, <2>9 DEF ColumnOf, cm
<1> QED BY <1>2, <1>3

(* Every batch so far is whole unless the rows are out.                    *)
Streaming ==
  /\ answer.out \in Seq(Int)
  /\ stream = [batch |-> stream.batch, cursor |-> stream.cursor, yielded |-> stream.yielded]
  /\ stream.batch \in Nat /\ stream.cursor \in 0..Len(answer.out)
  /\ stream.yielded \in Seq(Seq(Int))
  /\ stream # NoStream => stream.batch >= 1
  /\ stream = NoStream => stream.cursor = 0
  /\ \A k \in DOMAIN stream.yielded :
       stream.cursor < Len(answer.out) => Len(stream.yielded[k]) = stream.batch

StreamInv == ServedInv /\ Streaming /\ BatchesSpellRows

LEMMA NoBatches ==
  ASSUME answer.out \in Seq(Int), stream.batch \in Nat, stream.cursor = 0, stream.yielded = << >>,
         stream = [batch |-> stream.batch, cursor |-> stream.cursor, yielded |-> stream.yielded],
         stream # NoStream => stream.batch >= 1
  PROVE  Streaming /\ BatchesSpellRows
<1>1. Spelled(stream.yielded) = << >> /\ SubSeq(answer.out, 1, stream.cursor) = << >>
  BY SpellNone, SubSeqEmpty
<1>2. stream.yielded \in Seq(Seq(Int)) /\ DOMAIN stream.yielded = {}
  OBVIOUS
<1>3. stream.cursor \in 0..Len(answer.out)
  OBVIOUS
<1> QED BY <1>1, <1>2, <1>3 DEF Streaming, BatchesSpellRows

LEMMA NoBatchesYet ==
  ASSUME answer'.out \in Seq(Int), stream'.batch \in Nat, stream'.cursor = 0, stream'.yielded = << >>,
         stream' = [batch |-> stream'.batch, cursor |-> stream'.cursor, yielded |-> stream'.yielded],
         stream' # NoStream => stream'.batch >= 1
  PROVE  Streaming' /\ BatchesSpellRows'
<1>1. Spelled(stream'.yielded) = << >> /\ SubSeq(answer'.out, 1, stream'.cursor) = << >>
  BY SpellNone, SubSeqEmpty
<1>2. stream'.yielded \in Seq(Seq(Int)) /\ DOMAIN stream'.yielded = {}
  OBVIOUS
<1>3. stream'.cursor \in 0..Len(answer'.out)
  OBVIOUS
<1> QED BY <1>1, <1>2, <1>3 DEF Streaming, BatchesSpellRows

LEMMA NextBatchSpells == ASSUME StreamInv, NextBatch PROVE Streaming' /\ BatchesSpellRows'
<1> DEFINE rows  == answer.out
           c     == stream.cursor
           n     == stream.batch
           ys    == stream.yielded
           end   == Least(c + n, Len(rows))
           b     == SubSeq(rows, c + 1, end)
<1>1. /\ rows \in Seq(Int) /\ Len(rows) \in Nat /\ n \in Nat /\ n >= 1 /\ c \in 0..Len(rows)
         /\ c < Len(rows)
      /\ ys \in Seq(Seq(Int)) /\ Len(ys) \in Nat /\ ~answer.err
      /\ \A k \in DOMAIN ys : Len(ys[k]) = n
      /\ stream # NoStream
  BY DEF StreamInv, Streaming, NextBatch
<1>2. /\ answer' = answer
      /\ stream' = [batch |-> n, cursor |-> end, yielded |-> Append(ys, b)]
  <2>1. stream = [batch |-> n, cursor |-> c, yielded |-> ys]
    BY DEF StreamInv, Streaming
  <2>2. stream' = [stream EXCEPT !.cursor = end, !.yielded = Append(@, b)]
    BY DEF NextBatch, BatchEnd
  <2>3. stream.yielded = ys /\ answer' = answer
    BY DEF NextBatch
  <2> HIDE DEF b, end, n, c, ys
  <2> QED BY <2>1, <2>2, <2>3
<1>3. Spelled(ys) = SubSeq(rows, 1, c)
  BY DEF StreamInv, BatchesSpellRows
<1> HIDE DEF rows, c, n, ys
<1>4. end \in (c + 1)..Len(rows) /\ end - c <= n /\ (end < Len(rows) => end - c = n)
  BY <1>1 DEF Least
<1> HIDE DEF end
<1>5. b \in Seq(Int) /\ Len(b) = end - c
  <2> DEFINE lo == c + 1
  <2>1. lo \in Int /\ end \in Int /\ 1 <= lo /\ lo <= end /\ end <= Len(rows) /\ end - lo + 1 = end - c
    BY <1>1, <1>4
  <2> HIDE DEF lo
  <2>2. \A i \in lo..end : rows[i] \in Int
    BY <1>1, <2>1
  <2>3. SubSeq(rows, lo, end) \in Seq(Int) /\ Len(SubSeq(rows, lo, end)) = end - lo + 1
    BY <2>1, <2>2, SubSeqProperties
  <2> QED BY <2>1, <2>3 DEF lo
<1>6. SubSeq(rows, 1, c) \o b = SubSeq(rows, 1, end)
  <2>1. 1 \in 1..(c + 1) /\ c \in 0..end /\ end \in Nat
    BY <1>1, <1>4
  <2>2. \A i \in 1..c : i \in 1..Len(rows)
    BY <1>1
  <2> QED BY <1>1, <1>4, <2>1
<1> HIDE DEF b
<1>7. Spelled(Append(ys, b)) = SubSeq(rows, 1, end)
  BY <1>1, <1>3, <1>5, <1>6, SpellAppend
<1>8. /\ Append(ys, b) \in Seq(Seq(Int)) /\ DOMAIN Append(ys, b) = 1..(Len(ys) + 1)
      /\ Append(ys, b)[Len(ys) + 1] = b /\ Len(Append(ys, b)) = Len(ys) + 1
      /\ \A k \in 1..Len(ys) : Append(ys, b)[k] = ys[k] /\ k \in DOMAIN ys
  BY <1>1, <1>5
<1>9. \A k \in DOMAIN Append(ys, b) :
        /\ Len(Append(ys, b)[k]) \in 1..n
        /\ end < Len(rows) => Len(Append(ys, b)[k]) = n
        /\ k < Len(Append(ys, b)) => Len(Append(ys, b)[k]) = n
  <2> SUFFICES ASSUME NEW k \in 1..(Len(ys) + 1)
               PROVE  /\ Len(Append(ys, b)[k]) \in 1..n
                      /\ end < Len(rows) => Len(Append(ys, b)[k]) = n
                      /\ k < Len(ys) + 1 => Len(Append(ys, b)[k]) = n
    BY <1>8
  <2>1. CASE k = Len(ys) + 1
    BY <1>1, <1>4, <1>5, <1>8, <2>1
  <2>2. CASE k \in 1..Len(ys)
    <3>1. Append(ys, b)[k] = ys[k] /\ Len(ys[k]) = n
      BY <1>1, <1>8, <2>2
    <3> QED BY <1>1, <3>1
  <2> QED BY <1>1, <2>1, <2>2
<1>10. stream' # NoStream
  BY <1>1, <1>2, <1>8 DEF NoStream
<1>11. Streaming'
  BY <1>1, <1>2, <1>4, <1>8, <1>9, <1>10 DEF Streaming, rows
<1>12. BatchesSpellRows'
  BY <1>1, <1>2, <1>7, <1>9 DEF BatchesSpellRows, rows
<1> QED BY <1>11, <1>12

(* The batches a stream has yielded are the rows its one GET brought, in   *)
(* order, whatever is put between two polls.                               *)
THEOREM StreamSpells == Spec => []BatchesSpellRows
<1>1. Init => StreamInv
  <2> SUFFICES ASSUME Init PROVE StreamInv OBVIOUS
  <2>1. answer.out = << >> /\ stream = NoStream
    BY DEF Init, NoAnswer
  <2>2. Streaming /\ BatchesSpellRows
    BY <2>1, NoBatches DEF NoStream
  <2> QED BY <2>2, ServedInit DEF StreamInv
<1>2. StreamInv /\ [Next]_vars => StreamInv'
  <2> SUFFICES ASSUME StreamInv, [Next]_vars PROVE StreamInv' OBVIOUS
  <2>1. ServedInv'
    BY ServedNext DEF StreamInv
  <2>2. CASE Read \/ StartStream
    <3>1. PICK ch \in Chunks : answer' = ReadColumn(ch)
      BY <2>2 DEF Read, StartStream
    <3>2. pc = "open" /\ stream = NoStream /\ AInv
      BY <2>2 DEF Read, StartStream, StreamInv, ServedInv
    <3>3. answer'.out \in Seq(Int)
      <4>1. IsContent(object)
        BY <3>2, InHistory DEF AInv
      <4> QED BY <3>1, <3>2, <4>1, ReadColumnIs, ColumnTyped
    <3>4. stream' = stream \/ \E n \in Batches \ {0} : stream' = [batch |-> n, cursor |-> 0, yielded |-> << >>]
      BY <2>2 DEF Read, StartStream
    <3>5. CASE stream' = stream
      BY <2>1, <3>2, <3>3, <3>5, NoBatchesYet DEF NoStream, StreamInv
    <3>6. CASE \E n \in Batches \ {0} : stream' = [batch |-> n, cursor |-> 0, yielded |-> << >>]
      <4>1. PICK n \in Batches \ {0} : stream' = [batch |-> n, cursor |-> 0, yielded |-> << >>]
        BY <3>6
      <4>2. n \in Nat /\ n >= 1
        BY BatchesAssumption
      <4> QED BY <2>1, <3>3, <4>1, <4>2, NoBatchesYet DEF StreamInv
    <3> QED BY <3>4, <3>5, <3>6
  <2>3. CASE RefuseStream \/ DropStream
    <3>1. answer'.out = << >> /\ stream' = NoStream
      <4>1. CASE RefuseStream
        <5>1. PICK ch \in Chunks : answer' = [NoAnswer EXCEPT !.chunk = ch, !.err = TRUE]
          BY <4>1 DEF RefuseStream
        <5> QED BY <4>1, <5>1 DEF NoAnswer, RefuseStream
      <4>2. CASE DropStream
        BY <4>2 DEF DropStream, NoAnswer
      <4> QED BY <2>3, <4>1, <4>2
    <3> QED BY <2>1, <3>1, NoBatchesYet DEF NoStream, StreamInv
  <2>4. CASE NextBatch
    BY <2>1, <2>4, NextBatchSpells DEF StreamInv
  <2>5. CASE UNCHANGED <<answer, stream>>
    BY <2>1, <2>5 DEF StreamInv, Streaming, BatchesSpellRows
  <2> QED BY <2>2, <2>3, <2>4, <2>5 DEF Next, vars, Put, OpenSuffix, OpenFooter
<1>3. StreamInv => BatchesSpellRows
  BY DEF StreamInv
<1> QED BY <1>1, <1>2, <1>3, PTL DEF Spec

-----------------------------------------------------------------------------
(* Lengths of what is written.                                             *)

IsSeq(s) == \E S : s \in Seq(S)

LEMMA Concat ==
  ASSUME NEW s, NEW t, IsSeq(s), IsSeq(t)
  PROVE  IsSeq(s \o t) /\ Len(s \o t) = Len(s) + Len(t)
<1>1. PICK S : s \in Seq(S)
  BY DEF IsSeq
<1>2. PICK T : t \in Seq(T)
  BY DEF IsSeq
<1>3. s \in Seq(S \cup T) /\ t \in Seq(S \cup T)
  BY <1>1, <1>2
<1>4. s \o t \in Seq(S \cup T) /\ Len(s \o t) = Len(s) + Len(t)
  BY <1>3
<1>5. QED
  BY <1>4 DEF IsSeq

LEMMA PieceSeq ==
  ASSUME NEW kind, NEW of, NEW len \in Nat
  PROVE  IsSeq(Piece(kind, of, len)) /\ Len(Piece(kind, of, len)) = len
<1> DEFINE unit(k) == [piece |-> kind, of |-> of, at |-> k, len |-> len]
<1>1. Piece(kind, of, len) \in Seq({unit(k) : k \in 1..len})
  BY DEF Piece
<1>2. Len(Piece(kind, of, len)) = len
  BY DEF Piece
<1>3. QED
  BY <1>1, <1>2 DEF IsSeq

LEMMA SeqIsSeq ==
  ASSUME NEW S, NEW s \in Seq(S)
  PROVE  IsSeq(s)
  BY DEF IsSeq

LEMMA EmptyIsSeq == IsSeq(<< >>)
<1>1. << >> \in Seq(Nat)
  OBVIOUS
<1>2. QED
  BY <1>1, SeqIsSeq

LEMMA HalfNat ==
  ASSUME NEW n \in Nat
  PROVE  (n + 3) \div 2 \in Nat
  OBVIOUS

LEMMA CompressedNat ==
  ASSUME NEW n \in Nat, NEW codec
  PROVE  CompressedLen(n, codec) \in Nat
  BY HalfNat DEF CompressedLen

LEMMA PageParts ==
  ASSUME NEW page, NEW codec, NEW version
  PROVE  \E head, body : PageUnits(page, codec, version)
           = Piece("header", head, 1) \o Piece("body", body, CompressedLen(BodyLen(page), codec))
  BY DEF PageUnits

LEMMA PageLen ==
  ASSUME NEW page, BodyLen(page) \in Nat, NEW codec, NEW version
  PROVE  /\ IsSeq(PageUnits(page, codec, version))
         /\ Len(PageUnits(page, codec, version)) = 1 + CompressedLen(BodyLen(page), codec)
         /\ CompressedLen(BodyLen(page), codec) \in Nat
<1> DEFINE size == CompressedLen(BodyLen(page), codec)
<1>1. size \in Nat
  BY CompressedNat
<1>2. PICK head, body :
        PageUnits(page, codec, version) = Piece("header", head, 1) \o Piece("body", body, size)
  BY PageParts
<1> HIDE DEF size
<1>3. /\ IsSeq(Piece("header", head, 1)) /\ Len(Piece("header", head, 1)) = 1
      /\ IsSeq(Piece("body", body, size)) /\ Len(Piece("body", body, size)) = size
  BY <1>1, PieceSeq
<1>4. QED
  BY <1>1, <1>2, <1>3, Concat DEF size

LEMMA DictPageLen ==
  ASSUME NEW vals \in Seq(Int)
  PROVE  BodyLen(DictPageOf(vals)) \in Nat
<1>1. Firsts(vals) \subseteq DOMAIN vals
  BY DEF Firsts
<1>2. Cardinality(Firsts(vals)) \in Nat
  <2>1. IsFiniteSet(DOMAIN vals)
    <3>1. DOMAIN vals = 1..Len(vals) /\ Len(vals) \in Int
      OBVIOUS
    <3>2. QED
      BY <3>1, FS_Interval
  <2>2. IsFiniteSet(Firsts(vals))
    BY <1>1, <2>1, FS_Subset
  <2>3. QED
    BY <2>2, FS_CardinalityType
<1> DEFINE n == Cardinality(Firsts(vals))
           entry(e) == vals[CHOOSE k \in Firsts(vals) : Cardinality(Firsts(vals) \cap (1..k)) = e]
<1>3. Dictionary(vals) = [e \in 1..n |-> entry(e)]
  BY DEF Dictionary
<1> HIDE DEF n, entry
<1>4. Len([e \in 1..n |-> entry(e)]) = n
  BY <1>2 DEF n
<1>5. QED
  BY <1>2, <1>3, <1>4 DEF BodyLen, DictPageOf, n

(* A sequence has no more runs than elements.                              *)
LEMMA RunsCounted ==
  ASSUME NEW vals, Len(vals) \in Nat PROVE Cardinality(Runs(vals)) \in 0..Len(vals)
<1>1. IsFiniteSet(1..Len(vals)) /\ Cardinality(1..Len(vals)) = Len(vals)
  <2> DEFINE length == Len(vals)
  <2>1. length \in Nat
    OBVIOUS
  <2> HIDE DEF length
  <2>2. /\ IsFiniteSet(1..length)
        /\ Cardinality(1..length) = IF 1 > length THEN 0 ELSE length - 1 + 1
    <3>1. 1 \in Int /\ length \in Int
      BY <2>1
    <3> QED BY <3>1, FS_Interval, Zenon
  <2>3. (IF 1 > length THEN 0 ELSE length - 1 + 1) = length
    BY <2>1
  <2> QED BY <2>2, <2>3 DEF length
<1>2. Runs(vals) \in SUBSET (1..Len(vals))
  BY DEF Runs
<1>3. /\ IsFiniteSet(Runs(vals)) /\ Cardinality(Runs(vals)) <= Cardinality(1..Len(vals))
  BY <1>1, <1>2, FS_Subset
<1>4. Cardinality(Runs(vals)) \in Nat
  BY <1>3, FS_CardinalityType
<1> DEFINE runs == Cardinality(Runs(vals))
           length == Len(vals)
<1>5. runs \in Nat /\ length \in Nat /\ runs <= length
  BY <1>1, <1>3, <1>4
<1> HIDE DEF runs, length
<1>6. runs \in 0..length
  BY <1>5
<1> QED BY <1>6 DEF runs, length

LEMMA DataPageLen ==
  ASSUME NEW c, NEW vals \in Seq(Int)
  PROVE  BodyLen(DataPageOf(c, vals)) \in Nat
<1>1. CASE IsDict(c)
  <2> DEFINE index(k) == (CHOOSE e \in DOMAIN Dictionary(vals) : Dictionary(vals)[e] = vals[k]) - 1
  <2>1. Indices(vals) = [k \in 1..Len(vals) |-> index(k)]
    BY DEF Indices
  <2> HIDE DEF index
  <2>2. Len(Indices(vals)) = Len(vals)
    BY <2>1
  <2>3. Cardinality(Runs(Indices(vals))) \in Nat
    BY <2>2, RunsCounted
  <2>4. BodyLen(DataPageOf(c, vals)) = 1 + Cardinality(Runs(Indices(vals)))
    BY <1>1 DEF DataPageOf, BodyLen
  <2> QED BY <2>3, <2>4
<1>2. CASE ~IsDict(c)
  BY <1>2 DEF DataPageOf, BodyLen
<1>3. QED
  BY <1>1, <1>2

LEMMA FilterSeq ==
  ASSUME NEW c, NEW vals
  PROVE  IsSeq(Filter(c, vals)) /\ Len(Filter(c, vals)) \in Nat
         /\ (Filter(c, vals) = << >> => Len(Filter(c, vals)) = 0)
  <1>1. << >> = << >> => Len(<< >>) = 0
  OBVIOUS
<1>2. QED
  BY <1>1, PieceSeq, EmptyIsSeq DEF Filter

-----------------------------------------------------------------------------
(* What holds between two steps.                                           *)

PreparedColumns ==
  [dataAt : Nat, dictAt : Nat \cup {NoOffset}, uncompressed : Nat, compressed : Nat,
   filterAt : Nat \cup {NoOffset}, filterLen : Nat]

Groups == [rows : Nat, cols : Seq(PreparedColumns)]

Writing == phase \in {"column", "data", "footer"}

(* What the variables hold.                                                *)
Kinds ==
  /\ call \in Calls
  /\ IsSeq(out)
  /\ prepared \in Seq(PreparedColumns)
  /\ groups \in Seq(Groups)
  /\ \A g \in DOMAIN groups : groups[g].cols # << >>
  /\ dictPage \in [at : Nat \cup {NoOffset}, raw : Nat, size : Nat]

(* What they hold in each phase.                                           *)
Phases ==
  /\ phase = "start" =>
       groups = << >> /\ prepared = << >> /\ rowStart = 0 /\ out = << >> /\ dictPage = NoPage
  /\ phase = "data" =>
       dictPage.at \in Nat /\ dictPage.size > 0 /\ dictPage.at + dictPage.size = written
  /\ phase = "footer" => prepared = << >> /\ dictPage = NoPage
  /\ phase \in {"column", "data"} => groups = << >> \/ rowStart < TotalRows
  /\ phase # "done" => result = "none"

WInv == Kinds /\ Phases /\ TypeOK /\ ChunksTile /\ RowsCut

LEMMA CallType ==
  ASSUME call \in Calls
  PROVE  /\ columns \in Seq([type : Types, vals : Seq(Int)])
         /\ call.rowGroupSize \in Nat
         /\ \A c \in DOMAIN columns : columns[c].vals \in Seq(Int)
<1>1. columns \in Seq([type : Types, vals : Seq(Int)]) /\ call.rowGroupSize \in Nat
  BY CallsAssumption DEF columns
<1>2. \A c \in DOMAIN columns : columns[c] \in [type : Types, vals : Seq(Int)]
  <2> HIDE DEF columns, Types
  <2>1. ASSUME NEW S, columns \in Seq(S), NEW c \in DOMAIN columns
        PROVE  columns[c] \in S
    BY <2>1
  <2>2. QED
    BY <1>1, <2>1
<1>3. QED
  BY <1>1, <1>2

LEMMA Checked ==
  ASSUME call \in Calls, Refusal = "none"
  PROVE  /\ Len(columns) \in Nat \ {0} /\ call.rowGroupSize \in Nat \ {0}
         /\ TotalRows \in Nat
         /\ \A c \in DOMAIN columns : Len(columns[c].vals) = TotalRows
<1>1. ~InvalidInput /\ ~Ragged
  BY DEF Refusal
<1>2. columns # << >> /\ call.rowGroupSize # 0
  BY <1>1 DEF InvalidInput
<1>3. Len(columns) \in Nat \ {0} /\ 1 \in DOMAIN columns
  BY <1>2, CallType
<1>4. TotalRows \in Nat
  BY <1>3, CallType DEF TotalRows
<1>5. QED
  BY <1>1, <1>2, <1>3, <1>4, CallType DEF Ragged

LEMMA RowRange ==
  ASSUME call \in Calls, Refusal = "none", rowStart \in 0..TotalRows
  PROVE  /\ rowEnd \in rowStart..TotalRows /\ chunkRows \in Nat
         /\ rowEnd = rowStart => rowStart = TotalRows
<1>1. call.rowGroupSize \in Nat \ {0} /\ TotalRows \in Nat
  BY Checked
<1> DEFINE size == call.rowGroupSize
           total == TotalRows
<1> HIDE DEF size, total
<1>2. /\ Smaller(rowStart + size, total) \in rowStart..total
      /\ Smaller(rowStart + size, total) = rowStart => rowStart = total
  BY <1>1 DEF Smaller, size, total
<1>3. QED
  BY <1>1, <1>2 DEF rowEnd, chunkRows, size, total

LEMMA SliceSeq ==
  ASSUME call \in Calls, Refusal = "none", rowStart \in 0..TotalRows,
         NEW c \in DOMAIN columns
  PROVE  Slice(c) \in Seq(Int)
<1> DEFINE vals == columns[c].vals
<1>1. vals \in Seq(Int) /\ Len(vals) = TotalRows /\ TotalRows \in Nat
  BY CallType, Checked
<1>2. rowEnd \in rowStart..TotalRows
  BY RowRange
<1> HIDE DEF vals
<1>3. SubSeq(vals, rowStart + 1, rowEnd) \in Seq(Int)
  BY <1>1, <1>2
<1>4. QED
  BY <1>3 DEF Slice, vals

(* What is a function of the call alone.                                   *)
LEMMA SameCall ==
  ASSUME call' = call
  PROVE  /\ columns' = columns /\ TotalRows' = TotalRows /\ Refusal' = Refusal
         /\ \A c : IsDict(c)' = IsDict(c)
         /\ \A g : RowsOfGroup(g)' = RowsOfGroup(g)
<1>1. columns' = columns /\ TotalRows' = TotalRows /\ \A c : IsDict(c)' = IsDict(c)
  BY DEF columns, TotalRows, IsDict
<1>2. /\ InvalidInput' = InvalidInput /\ Ragged' = Ragged /\ Unsupported' = Unsupported
  BY <1>1 DEF InvalidInput, Ragged, Unsupported
<1>3. Refusal' = Refusal
  BY <1>2 DEF Refusal
<1>4. \A g : RowsOfGroup(g)' = RowsOfGroup(g)
  BY <1>1 DEF RowsOfGroup
<1>5. QED
  BY <1>1, <1>3, <1>4

-----------------------------------------------------------------------------
(* Chunks that lie back to back.                                           *)

LEMMA TileNone ==
  ASSUME NEW start
  PROVE  BackToBack(<< >>, start) /\ EndOf(<< >>, start) = start
  BY DEF BackToBack, EndOf

LEMMA TileAppend ==
  ASSUME NEW ps \in Seq(PreparedColumns), NEW p \in PreparedColumns, NEW start,
         BackToBack(ps, start), ChunkStart(p) = EndOf(ps, start),
         p.filterLen > 0 => p.filterAt = ChunkStart(p) + p.compressed
  PROVE  BackToBack(Append(ps, p), start) /\ EndOf(Append(ps, p), start) = ChunkEnd(p)
<1> DEFINE qs == Append(ps, p)
<1>1. /\ Len(qs) = Len(ps) + 1 /\ qs[Len(ps) + 1] = p /\ qs # << >>
      /\ DOMAIN qs = 1..(Len(ps) + 1) /\ DOMAIN ps = 1..Len(ps) /\ Len(ps) \in Nat
      /\ \A c \in 1..Len(ps) : qs[c] = ps[c]
  OBVIOUS
<1> HIDE DEF qs, PreparedColumns
<1>2. ps = << >> <=> Len(ps) = 0
  OBVIOUS
<1>3. EndOf(qs, start) = ChunkEnd(p)
  BY <1>1 DEF EndOf
<1>4. ASSUME NEW c \in DOMAIN qs
      PROVE  /\ ChunkStart(qs[c]) = IF c = 1 THEN start ELSE ChunkEnd(qs[c - 1])
             /\ qs[c].filterLen > 0 => qs[c].filterAt = ChunkStart(qs[c]) + qs[c].compressed
  <2>1. CASE c \in 1..Len(ps)
    <3>1. qs[c] = ps[c] /\ (c # 1 => qs[c - 1] = ps[c - 1])
      BY <1>1, <2>1
    <3>2. QED
      BY <1>1, <2>1, <3>1 DEF BackToBack
  <2>2. CASE c = Len(ps) + 1
    <3>1. qs[c] = p /\ (c # 1 => qs[c - 1] = ps[Len(ps)])
      BY <1>1, <2>2
    <3>2. EndOf(ps, start) = IF c = 1 THEN start ELSE ChunkEnd(qs[c - 1])
      BY <1>1, <1>2, <2>2, <3>1 DEF EndOf
    <3>3. QED
      BY <3>1, <3>2
  <2>3. QED
    BY <1>1, <2>1, <2>2
<1>5. BackToBack(qs, start)
  BY <1>4 DEF BackToBack
<1>6. QED
  BY <1>3, <1>5 DEF qs

LEMMA EndNat ==
  ASSUME NEW ps \in Seq(PreparedColumns), NEW start, ps # << >> \/ start \in Nat
  PROVE  EndOf(ps, start) \in Nat
<1>1. ASSUME NEW p \in PreparedColumns
      PROVE  ChunkEnd(p) \in Nat
  <2>1. p.dataAt \in Nat /\ p.dictAt \in Nat \cup {NoOffset} /\ p.compressed \in Nat
        /\ p.filterLen \in Nat
    BY DEF PreparedColumns
  <2>2. ChunkStart(p) \in Nat
    BY <2>1 DEF ChunkStart
  <2>3. QED
    BY <2>1, <2>2 DEF ChunkEnd
<1> HIDE DEF PreparedColumns
<1>2. ps # << >> => ps[Len(ps)] \in PreparedColumns
  OBVIOUS
<1>3. QED
  BY <1>1, <1>2 DEF EndOf

-----------------------------------------------------------------------------
(* One lemma per step.                                                     *)

LEMMA InitInv == WriterInit => WInv
<1> SUFFICES ASSUME WriterInit
             PROVE  WInv
  OBVIOUS
<1> USE DEF WriterInit
<1>1. Kinds
  BY EmptyIsSeq DEF Kinds, NoPage, NoOffset
<1>2. Phases
  BY DEF Phases
<1>3. TypeOK
  BY DEF TypeOK
<1>4. ChunksTile
  <2>1. DOMAIN groups = {}
    OBVIOUS
  <2>2. QED
    BY <2>1, TileNone DEF ChunksTile
<1>5. RowsCut
  BY DEF RowsCut
<1>6. QED
  BY <1>1, <1>2, <1>3, <1>4, <1>5 DEF WInv

LEMMA StopInv ==
  ASSUME WInv, NEW r, r # "ok", Stop(r)
  PROVE  WInv'
<1>1. /\ phase' = "done" /\ result' = r /\ call' = call /\ rowStart' = rowStart
      /\ groups' = groups /\ prepared' = prepared /\ dictPage' = dictPage
      /\ out' = out /\ written' = written
  BY DEF Stop
<1>2. Kinds'
  BY <1>1 DEF WInv, Kinds
<1>3. Phases'
  BY <1>1 DEF Phases
<1>4. TypeOK'
  BY <1>1 DEF WInv, TypeOK
<1>5. ChunksTile'
  BY <1>1 DEF WInv, ChunksTile, GroupStart
<1>6. RowsCut'
  BY <1>1 DEF RowsCut
<1>7. QED
  BY <1>2, <1>3, <1>4, <1>5, <1>6 DEF WInv

LEMMA BeginInv ==
  ASSUME WInv, Begin
  PROVE  WInv'
<1>1. /\ phase = "start" /\ Refusal = "none" /\ phase' = "column" /\ call' = call
      /\ rowStart' = rowStart /\ groups' = groups /\ prepared' = prepared
      /\ dictPage' = dictPage /\ result' = result /\ out' = Magic /\ written' = Len(Magic)
  BY DEF Begin
<1>2. IsSeq(Magic) /\ Len(Magic) = 1
  BY PieceSeq DEF Magic
<1>3. /\ groups = << >> /\ prepared = << >> /\ rowStart = 0 /\ dictPage = NoPage
      /\ call \in Calls /\ result = "none"
  BY <1>1 DEF WInv, Kinds, Phases
<1>4. TotalRows \in Nat /\ Len(columns) \in Nat \ {0} /\ call.rowGroupSize \in Nat
  BY <1>1, <1>3, Checked
<1>5. Kinds'
  BY <1>1, <1>2 DEF WInv, Kinds
<1>6. Phases'
  BY <1>1, <1>3 DEF Phases
<1>7. TypeOK'
  BY <1>1, <1>2, <1>3, <1>4, SameCall DEF TypeOK
<1>8. ChunksTile'
  <2>1. DOMAIN groups = {} /\ Len(groups) = 0
    BY <1>3
  <2>2. GroupStart(Len(groups) + 1)' = 1
    BY <1>1, <1>2, <2>1 DEF GroupStart
  <2>3. BackToBack(prepared', 1) /\ EndOf(prepared', 1) = 1
    BY <1>1, <1>3, TileNone
  <2>4. dictPage'.size = 0
    BY <1>1, <1>3 DEF NoPage
  <2>5. QED
    BY <1>1, <1>2, <2>1, <2>2, <2>3, <2>4 DEF ChunksTile
<1>9. RowsCut'
  <2>1. DOMAIN groups = {} /\ Len(groups) * call.rowGroupSize = 0
    BY <1>3, <1>4
  <2>2. Smaller(0, TotalRows) = 0
    BY <1>4 DEF Smaller
  <2>3. QED
    BY <1>1, <1>3, <2>1, <2>2, SameCall DEF RowsCut, GroupsCut
<1>10. QED
  BY <1>5, <1>6, <1>7, <1>8, <1>9 DEF WInv

(* What a step of a column chunk starts from.                              *)
LEMMA InChunk ==
  ASSUME WInv, phase \in {"column", "data"}, Len(prepared) < Len(columns)
  PROVE  /\ call \in Calls /\ Refusal = "none" /\ rowStart \in 0..TotalRows
         /\ written \in Nat /\ IsSeq(out) /\ written = Len(out)
         /\ prepared \in Seq(PreparedColumns)
         /\ col \in DOMAIN columns /\ Slice(col) \in Seq(Int)
         /\ BodyLen(DataPageOf(col, Slice(col))) \in Nat
<1>1. /\ call \in Calls /\ Refusal = "none" /\ rowStart \in 0..TotalRows
      /\ written \in Nat /\ IsSeq(out) /\ written = Len(out)
      /\ prepared \in Seq(PreparedColumns)
  BY DEF WInv, Kinds, TypeOK, ChunksTile
<1>2. col \in DOMAIN columns
  <2>1. columns \in Seq([type : Types, vals : Seq(Int)])
    BY <1>1, CallType
  <2>2. Len(prepared) \in Nat
    BY <1>1
  <2> HIDE DEF columns, Types, PreparedColumns
  <2>3. QED
    BY <2>1, <2>2 DEF col
<1>3. Slice(col) \in Seq(Int)
  BY <1>1, <1>2, SliceSeq
<1>4. QED
  BY <1>1, <1>2, <1>3, DataPageLen

(* The end of the chunks written so far.                                   *)
LEMMA LastEnd ==
  ASSUME WInv
  PROVE  EndOf(prepared, GroupStart(Len(groups) + 1)) \in Nat
<1>1. /\ prepared \in Seq(PreparedColumns) /\ groups \in Seq(Groups)
      /\ \A g \in DOMAIN groups : groups[g].cols # << >>
  BY DEF WInv, Kinds
<1>2. GroupStart(Len(groups) + 1) \in Nat
  <2>1. CASE groups = << >>
    <3>1. Len(Magic) = 1 /\ Len(groups) = 0
      BY <2>1, PieceSeq DEF Magic
    <3>2. QED
      BY <3>1 DEF GroupStart
  <2>2. CASE groups # << >>
    <3>1. Len(groups) \in DOMAIN groups /\ Len(groups) \in Nat \ {0}
      BY <1>1, <2>2
    <3>2. groups[Len(groups)] \in Groups
      <4> HIDE DEF Groups
      <4>1. QED
        BY <1>1, <3>1
    <3>3. groups[Len(groups)].cols \in Seq(PreparedColumns)
      BY <3>2 DEF Groups
    <3>4. EndOf(groups[Len(groups)].cols, NoOffset) \in Nat
      BY <1>1, <3>1, <3>3, EndNat
    <3>5. QED
      BY <3>1, <3>4 DEF GroupStart
  <2>3. QED
    BY <2>1, <2>2
<1>3. QED
  BY <1>1, <1>2, EndNat

LEMMA DictPageInv ==
  ASSUME WInv, WriteDictPage
  PROVE  WInv'
<1> DEFINE page  == DictPageOf(Slice(col))
           units == PageUnits(page, Codec(col), "v1")
           size  == 1 + CompressedLen(BodyLen(page), Codec(col))
<1>1. /\ phase = "column" /\ Len(prepared) < Len(columns) /\ IsDict(col)
      /\ out' = out \o units /\ written' = written + Len(units)
      /\ dictPage' = [at |-> written, raw |-> 1 + BodyLen(page), size |-> size]
      /\ phase' = "data" /\ call' = call /\ rowStart' = rowStart /\ groups' = groups
      /\ prepared' = prepared /\ result' = result
  BY DEF WriteDictPage, CanWrite, InColumn, Emit
<1>2. /\ written \in Nat /\ IsSeq(out) /\ written = Len(out) /\ Slice(col) \in Seq(Int)
      /\ Refusal = "none"
  BY <1>1, InChunk
<1>3. BodyLen(page) \in Nat
  BY <1>2, DictPageLen
<1>4. /\ IsSeq(units) /\ Len(units) = size
      /\ CompressedLen(BodyLen(page), Codec(col)) \in Nat
  BY <1>3, PageLen
<1>5. size \in Nat \ {0}
  BY <1>4
<1>6. IsSeq(out') /\ Len(out') = written'
  BY <1>1, <1>2, <1>4, Concat
<1>7. dictPage = NoPage
  BY <1>1 DEF WInv, TypeOK
<1> HIDE DEF page, units, size
<1>8. Kinds'
  BY <1>1, <1>2, <1>3, <1>5, <1>6 DEF WInv, Kinds
<1>9. Phases'
  BY <1>1, <1>2, <1>4, <1>5, SameCall DEF WInv, Phases
<1>10. TypeOK'
  <2>1. col' = col
    BY <1>1 DEF col
  <2>2. QED
    BY <1>1, <1>2, <1>4, <1>5, <2>1, SameCall DEF WInv, TypeOK
<1>11. ChunksTile'
  <2>1. written = EndOf(prepared, GroupStart(Len(groups) + 1)) + 0
    BY <1>1, <1>7 DEF WInv, ChunksTile, NoPage
  <2>2. \A g : GroupStart(g)' = GroupStart(g)
    BY <1>1 DEF GroupStart
  <2>3. dictPage'.size = Len(units)
    BY <1>1, <1>4
  <2>4. (written = EndOf(prepared, GroupStart(Len(groups) + 1)) + dictPage.size)'
    <3>1. EndOf(prepared, GroupStart(Len(groups) + 1))'
            = EndOf(prepared, GroupStart(Len(groups) + 1))
      BY <1>1, <2>2 DEF EndOf
    <3>2. written = EndOf(prepared, GroupStart(Len(groups) + 1))
      BY <1>2, <2>1, LastEnd
    <3>3. QED
      BY <1>1, <2>3, <3>1, <3>2
  <2>5. QED
    BY <1>1, <1>6, <2>2, <2>4 DEF WInv, ChunksTile
<1>12. RowsCut'
  BY <1>1, SameCall DEF WInv, RowsCut, GroupsCut, TypeOK
<1>13. QED
  BY <1>8, <1>9, <1>10, <1>11, <1>12 DEF WInv

(* The descriptor of a column chunk says where it lies.                    *)
LEMMA DescriptorEnds ==
  ASSUME written \in Nat, dictPage \in [at : Nat \cup {NoOffset}, raw : Nat, size : Nat],
         \/ dictPage = NoPage
         \/ dictPage.at \in Nat /\ dictPage.size > 0 /\ dictPage.at + dictPage.size = written,
         NEW page, BodyLen(page) \in Nat,
         NEW units, Len(units) \in Nat,
         NEW filter, Len(filter) \in Nat, filter = << >> => Len(filter) = 0
  PROVE  LET p == PreparedColumn(page, units, filter)
         IN  /\ p \in PreparedColumns
             /\ ChunkStart(p) + dictPage.size = written /\ ChunkStart(p) \in Nat
             /\ p.filterLen > 0 => p.filterAt = ChunkStart(p) + p.compressed
             /\ ChunkEnd(p) = written + Len(units) + Len(filter)
<1> DEFINE p == PreparedColumn(page, units, filter)
           start == ChunkStart(p)
<1>1. /\ p.dataAt = written /\ p.dictAt = dictPage.at
      /\ p.uncompressed = dictPage.raw + 1 + BodyLen(page)
      /\ p.compressed = dictPage.size + Len(units)
      /\ p.filterAt = IF filter = << >> THEN NoOffset ELSE written + Len(units)
      /\ p.filterLen = Len(filter)
  BY DEF PreparedColumn, Descriptor
<1>2. p \in PreparedColumns
  BY DEF PreparedColumn, Descriptor, PreparedColumns
<1>3. start + dictPage.size = written /\ start \in Nat
  <2>1. CASE dictPage = NoPage
    BY <1>1, <2>1 DEF ChunkStart, NoPage, NoOffset
  <2>2. CASE dictPage.at \in Nat /\ dictPage.size > 0 /\ dictPage.at + dictPage.size = written
    BY <1>1, <2>2 DEF ChunkStart, NoOffset
  <2>3. QED
    BY <2>1, <2>2
<1>4. start + p.compressed = written + Len(units)
  <2>1. dictPage.size \in Nat
    OBVIOUS
  <2> HIDE DEF p, start
  <2>2. QED
    BY <1>1, <1>3, <2>1
<1>5. ChunkEnd(p) = written + Len(units) + Len(filter)
  BY <1>1, <1>4 DEF ChunkEnd
<1>6. p.filterLen > 0 => p.filterAt = start + p.compressed
  BY <1>1, <1>4
<1>7. QED
  BY <1>2, <1>3, <1>5, <1>6

LEMMA DataPageInv ==
  ASSUME WInv, WriteDataPage
  PROVE  WInv'
<1> DEFINE page   == DataPageOf(col, Slice(col))
           units  == PageUnits(page, Codec(col), call.version)
           filter == Filter(col, Slice(col))
           p      == PreparedColumn(page, units, filter)
           start  == GroupStart(Len(groups) + 1)
<1>1. /\ phase \in {"column", "data"} /\ Len(prepared) < Len(columns)
      /\ out' = out \o (units \o filter) /\ written' = written + Len(units \o filter)
      /\ prepared' = Append(prepared, p)
      /\ phase' = "column" /\ dictPage' = NoPage /\ call' = call /\ rowStart' = rowStart
      /\ groups' = groups /\ result' = result
  BY DEF WriteDataPage, CanWrite, InColumn, Emit, WInv, TypeOK
<1>2. /\ written \in Nat /\ IsSeq(out) /\ written = Len(out) /\ Refusal = "none"
      /\ BodyLen(page) \in Nat /\ prepared \in Seq(PreparedColumns)
  BY <1>1, InChunk
<1>3. /\ IsSeq(units) /\ Len(units) \in Nat
  BY <1>2, PageLen
<1>4. /\ IsSeq(filter) /\ Len(filter) \in Nat /\ (filter = << >> => Len(filter) = 0)
  BY FilterSeq
<1>5. /\ dictPage \in [at : Nat \cup {NoOffset}, raw : Nat, size : Nat]
      /\ \/ dictPage = NoPage
         \/ dictPage.at \in Nat /\ dictPage.size > 0 /\ dictPage.at + dictPage.size = written
  BY <1>1 DEF WInv, Kinds, Phases, TypeOK
<1> HIDE DEF page, units, filter
<1>6. /\ p \in PreparedColumns
      /\ ChunkStart(p) + dictPage.size = written /\ ChunkStart(p) \in Nat
      /\ p.filterLen > 0 => p.filterAt = ChunkStart(p) + p.compressed
      /\ ChunkEnd(p) = written + Len(units) + Len(filter)
  BY <1>2, <1>3, <1>4, <1>5, DescriptorEnds
<1>7. IsSeq(units \o filter) /\ Len(units \o filter) = Len(units) + Len(filter)
  BY <1>3, <1>4, Concat
<1>8. IsSeq(out') /\ Len(out') = written' /\ written' = written + Len(units) + Len(filter)
  <2>1. IsSeq(out') /\ Len(out') = Len(out) + Len(units \o filter)
    BY <1>1, <1>2, <1>7, Concat
  <2>2. QED
    BY <1>1, <1>2, <1>3, <1>4, <1>7, <2>1
<1> HIDE DEF p
<1>9. /\ prepared' \in Seq(PreparedColumns) /\ Len(prepared') = Len(prepared) + 1
      /\ Len(prepared) \in Nat
  <2> HIDE DEF PreparedColumns
  <2>1. QED
    BY <1>1, <1>2, <1>6
<1>10. Kinds'
  BY <1>1, <1>8, <1>9 DEF WInv, Kinds, NoPage, NoOffset
<1>11. Phases'
  BY <1>1, SameCall DEF WInv, Phases
<1>12. TypeOK'
  <2>1. written' \in Nat
    BY <1>2, <1>3, <1>4, <1>8
  <2>2. call \in Calls
    BY DEF WInv, Kinds
  <2>3. Len(columns) \in Nat
    BY <1>2, <2>2, Checked
  <2>4. Len(prepared') \in 0..Len(columns)
    BY <1>1, <1>9, <2>3
  <2>5. QED
    BY <1>1, <1>2, <2>1, <2>4, SameCall DEF WInv, TypeOK
<1>13. ChunksTile'
  <2>1. BackToBack(prepared, start) /\ written = EndOf(prepared, start) + dictPage.size
    BY <1>1 DEF WInv, ChunksTile
  <2>2. ChunkStart(p) = EndOf(prepared, start)
    <3>1. EndOf(prepared, start) \in Nat
      BY LastEnd
    <3>2. dictPage.size \in Nat
      BY <1>5
    <3>3. QED
      BY <1>6, <2>1, <3>1, <3>2
  <2>3. BackToBack(prepared', start) /\ EndOf(prepared', start) = ChunkEnd(p)
    BY <1>1, <1>2, <1>6, <2>1, <2>2, TileAppend
  <2>4. (\A g : GroupStart(g)' = GroupStart(g)) /\ start' = start
    BY <1>1 DEF GroupStart
  <2>5. dictPage'.size = 0
    BY <1>1 DEF NoPage
  <2>6. written' = EndOf(prepared', start) + 0
    BY <1>2, <1>3, <1>4, <1>6, <1>8, <2>3
  <2>7. QED
    BY <1>1, <1>8, <2>3, <2>4, <2>5, <2>6 DEF WInv, ChunksTile
<1>14. RowsCut'
  BY <1>1, SameCall DEF WInv, RowsCut, GroupsCut, TypeOK
<1>15. QED
  BY <1>10, <1>11, <1>12, <1>13, <1>14 DEF WInv

(* The cut behind one at m rows, of which it is the first or not the last. *)
LEMMA NextCut ==
  ASSUME NEW m \in Nat, NEW size \in Nat \ {0}, NEW total \in Nat,
         m = 0 \/ Smaller(m, total) < total
  PROVE  /\ Smaller(Smaller(m, total) + size, total) = Smaller(m + size, total)
         /\ Smaller(m + size, total) - Smaller(m, total) = Smaller(size, total - m)
         /\ Smaller(size, total - m) = 0 => total = 0
  BY DEF Smaller

LEMMA Times ==
  ASSUME NEW n \in Nat, NEW size \in Nat
  PROVE  /\ n * size \in Nat /\ (n + 1) * size = n * size + size
         /\ n = 0 => n * size = 0
  OBVIOUS

LEMMA EndGroupInv ==
  ASSUME WInv, EndGroup
  PROVE  WInv'
<1> DEFINE group == [rows |-> chunkRows, cols |-> prepared]
           n     == Len(groups)
<1>1. /\ phase = "column" /\ Len(prepared) = Len(columns) /\ groups' = Append(groups, group)
      /\ prepared' = << >> /\ rowStart' = rowEnd
      /\ phase' = (IF rowEnd < TotalRows THEN "column" ELSE "footer")
      /\ call' = call /\ dictPage' = dictPage /\ out' = out /\ written' = written
      /\ result' = result
  BY DEF EndGroup
<1>2. /\ call \in Calls /\ Refusal = "none" /\ rowStart \in 0..TotalRows
      /\ prepared \in Seq(PreparedColumns) /\ groups \in Seq(Groups)
      /\ \A g \in DOMAIN groups : groups[g].cols # << >>
      /\ dictPage = NoPage /\ result = "none" /\ (groups = << >> \/ rowStart < TotalRows)
  BY <1>1 DEF WInv, Kinds, Phases, TypeOK
<1>3. /\ Len(columns) \in Nat \ {0} /\ call.rowGroupSize \in Nat \ {0} /\ TotalRows \in Nat
  BY <1>2, Checked
<1>4. rowEnd \in rowStart..TotalRows /\ chunkRows \in Nat
  BY <1>2, RowRange
<1>5. group \in Groups /\ prepared # << >>
  <2>1. group \in Groups
    BY <1>2, <1>4 DEF Groups
  <2>2. prepared # << >>
    BY <1>1, <1>3
  <2>3. QED
    BY <2>1, <2>2
<1>6. /\ groups' \in Seq(Groups) /\ Len(groups') = n + 1 /\ n \in Nat
      /\ DOMAIN groups' = 1..(n + 1) /\ DOMAIN groups = 1..n
      /\ groups'[n + 1] = group /\ \A g \in 1..n : groups'[g] = groups[g]
  <2> HIDE DEF Groups, group
  <2>1. QED
    BY <1>1, <1>2, <1>5
<1> HIDE DEF n
<1>7. Kinds'
  <2>1. \A g \in DOMAIN groups' : groups'[g].cols # << >>
    <3>1. ASSUME NEW g \in 1..(n + 1)
          PROVE  groups'[g].cols # << >>
      <4>1. CASE g \in 1..n
        BY <1>2, <1>6, <4>1
      <4>2. CASE g = n + 1
        BY <1>5, <1>6, <4>2
      <4>3. QED
        BY <1>6, <4>1, <4>2
    <3>2. QED
      BY <1>6, <3>1
  <2>2. << >> \in Seq(PreparedColumns)
    OBVIOUS
  <2>3. QED
    BY <1>1, <1>6, <2>1, <2>2 DEF WInv, Kinds
<1>8. Phases'
  BY <1>1, <1>2, SameCall DEF Phases
<1>9. TypeOK'
  <2>1. rowEnd \in 0..TotalRows /\ rowEnd \in Nat
    BY <1>2, <1>3, <1>4
  <2>2. Len(prepared') \in 0..Len(columns)
    BY <1>1, <1>3
  <2>3. QED
    BY <1>1, <1>2, <2>1, <2>2, SameCall DEF WInv, TypeOK
<1>10. ChunksTile'
  <2>1. ASSUME NEW g \in 1..(n + 1)
        PROVE  GroupStart(g)' = GroupStart(g)
    <3>1. g # 1 => g - 1 \in 1..n
      BY <1>6
    <3>2. QED
      BY <1>6, <3>1 DEF GroupStart
  <2>2. BackToBack(groups'[n + 1].cols, GroupStart(n + 1))
    BY <1>6 DEF WInv, ChunksTile, n
  <2>3. \A g \in 1..n : BackToBack(groups'[g].cols, GroupStart(g))
    BY <1>6 DEF WInv, ChunksTile
  <2>4. \A g \in DOMAIN groups' : BackToBack(groups'[g].cols, GroupStart(g)')
    BY <1>6, <2>1, <2>2, <2>3
  <2>5. GroupStart(Len(groups) + 1)' = EndOf(prepared, NoOffset)
    <3>1. Len(groups') + 1 # 1 /\ Len(groups') + 1 - 1 = n + 1
      BY <1>6
    <3>2. groups'[Len(groups') + 1 - 1].cols = prepared
      BY <1>6, <3>1
    <3>3. QED
      BY <3>1, <3>2 DEF GroupStart
  <2>6. EndOf(prepared, NoOffset) = EndOf(prepared, GroupStart(n + 1))
    BY <1>5 DEF EndOf
  <2>7. /\ written = Len(out)
        /\ written = EndOf(prepared, GroupStart(n + 1)) + dictPage.size
    BY <1>1 DEF WInv, ChunksTile, n
  <2>8. EndOf(prepared', GroupStart(Len(groups) + 1)') = EndOf(prepared, GroupStart(n + 1))
    BY <1>1, <2>5, <2>6, TileNone
  <2>9. BackToBack(prepared', GroupStart(Len(groups) + 1)')
    BY <1>1, TileNone
  <2>10. QED
    BY <1>1, <2>4, <2>7, <2>8, <2>9 DEF ChunksTile
<1>11. RowsCut'
  <2>1. GroupsCut
    BY <1>1 DEF WInv, RowsCut
  <2>2. rowStart = Smaller(n * call.rowGroupSize, TotalRows)
    BY <1>1 DEF WInv, RowsCut, n
  <2>3. \A g \in 1..n : /\ groups[g].rows = RowsOfGroup(g).rows
                        /\ groups[g].rows = 0 => TotalRows = 0
    BY <1>6, <2>1 DEF GroupsCut
  <2>4. n = 0 \/ rowStart < TotalRows
    BY <1>2 DEF n
  <2>5. rowStart \in Nat
    BY <1>2
  <2>6. /\ rowEnd = Smaller((n + 1) * call.rowGroupSize, TotalRows)
        /\ chunkRows = Smaller(call.rowGroupSize, TotalRows - n * call.rowGroupSize)
        /\ chunkRows = 0 => TotalRows = 0
    <3> DEFINE size  == call.rowGroupSize
               total == TotalRows
               m     == n * size
    <3>1. m \in Nat /\ (n + 1) * size = m + size /\ (n = 0 => m = 0)
      <4>1. n \in Nat /\ size \in Nat
        BY <1>3, <1>6
      <4> HIDE DEF size
      <4>2. QED
        BY <4>1, Times
    <3>2. rowEnd = Smaller(rowStart + size, total) /\ chunkRows = rowEnd - rowStart
      BY DEF rowEnd, chunkRows
    <3>3. /\ size \in Nat \ {0} /\ total \in Nat /\ rowStart = Smaller(m, total)
          /\ m = 0 \/ rowStart < total
      BY <1>3, <2>2, <2>4, <3>1
    <3> HIDE DEF size, total, m
    <3>4. /\ Smaller(rowStart + size, total) = Smaller(m + size, total)
          /\ Smaller(m + size, total) - rowStart = Smaller(size, total - m)
          /\ Smaller(size, total - m) = 0 => total = 0
      BY <3>1, <3>3, NextCut
    <3>5. /\ rowEnd = Smaller((n + 1) * size, total) /\ chunkRows = Smaller(size, total - m)
          /\ chunkRows = 0 => total = 0
      BY <3>1, <3>2, <3>4
    <3>6. QED
      BY <3>5 DEF size, total, m
  <2>7. group.rows = RowsOfGroup(n + 1).rows
    <3>1. (n + 1) - 1 = n
      BY <1>6
    <3>2. QED
      BY <2>6, <3>1 DEF RowsOfGroup
  <2>8. ASSUME NEW g \in 1..(n + 1)
        PROVE  /\ groups'[g].rows = RowsOfGroup(g).rows
               /\ groups'[g].rows = 0 => TotalRows = 0
    <3>1. CASE g \in 1..n
      BY <1>6, <2>3, <3>1
    <3>2. CASE g = n + 1
      BY <1>6, <2>6, <2>7, <3>2
    <3>3. QED
      BY <1>6, <3>1, <3>2
  <2>9. phase' = "footer" => groups' # << >> /\ rowStart' = TotalRows'
    BY <1>1, <1>3, <1>4, <1>6, SameCall
  <2>10. rowStart' = Smaller(Len(groups') * call'.rowGroupSize, TotalRows')
    BY <1>1, <1>6, <2>6, SameCall
  <2>11. \A g \in DOMAIN groups' : /\ groups'[g].rows = RowsOfGroup(g)'.rows
                                   /\ groups'[g].rows = 0 => TotalRows' = 0
    BY <1>1, <1>6, <2>8, SameCall
  <2>12. result' # "ok"
    BY <1>1, <1>2
  <2>13. GroupsCut'
    BY <2>11 DEF GroupsCut
  <2>14. QED
    BY <2>9, <2>10, <2>12, <2>13 DEF RowsCut
<1>12. QED
  BY <1>7, <1>8, <1>9, <1>10, <1>11 DEF WInv

LEMMA FooterInv ==
  ASSUME WInv, WriteFooter
  PROVE  WInv'
<1>1. /\ phase = "footer" /\ phase' = "done" /\ result' = "ok" /\ call' = call
      /\ rowStart' = rowStart /\ groups' = groups /\ prepared' = prepared
      /\ dictPage' = dictPage /\ written' = written
  BY DEF WriteFooter
<1>2. IsSeq(out')
  <2> DEFINE len == FooterLen(TableFooter)
             end == Piece("footer", TableFooter, len)
  <2>1. out' = out \o end \o Trailer(len)
    BY DEF WriteFooter
  <2>2. len \in Nat
    <3> DEFINE group(g) ==
                 [rows |-> groups[g].rows,
                  cols |-> [c \in DOMAIN columns |-> ColumnMeta(c, groups[g].rows, groups[g].cols[c])]]
    <3>1. TableFooter.groups = [g \in DOMAIN groups |-> group(g)]
      BY DEF TableFooter
    <3> HIDE DEF group
    <3>2. DOMAIN groups = 1..Len(groups) /\ Len(groups) \in Nat
      BY DEF WInv, Kinds
    <3>3. Len([g \in 1..Len(groups) |-> group(g)]) = Len(groups)
      BY <3>2
    <3>4. QED
      BY <3>1, <3>2, <3>3 DEF FooterLen
  <2> HIDE DEF len
  <2>3. IsSeq(end)
    BY <2>2, PieceSeq
  <2>4. IsSeq(Trailer(len))
    BY Concat, PieceSeq DEF Trailer, Magic
  <2>5. IsSeq(out)
    BY DEF WInv, Kinds
  <2> HIDE DEF end
  <2>6. QED
    BY <2>1, <2>3, <2>4, <2>5, Concat
<1>3. Kinds'
  BY <1>1, <1>2 DEF WInv, Kinds
<1>4. Phases'
  BY <1>1 DEF Phases
<1>5. TypeOK'
  BY <1>1 DEF WInv, TypeOK
<1>6. ChunksTile'
  BY <1>1 DEF WInv, ChunksTile, GroupStart
<1>7. RowsCut'
  BY <1>1, SameCall DEF WInv, RowsCut, GroupsCut
<1>8. QED
  BY <1>3, <1>4, <1>5, <1>6, <1>7 DEF WInv

LEMMA StutterInv ==
  ASSUME WInv, UNCHANGED writerVars
  PROVE  WInv'
<1>1. /\ call' = call /\ phase' = phase /\ rowStart' = rowStart /\ groups' = groups
      /\ prepared' = prepared /\ dictPage' = dictPage /\ out' = out /\ written' = written
      /\ result' = result
  BY DEF writerVars
<1>2. Kinds'
  BY <1>1 DEF WInv, Kinds
<1>3. Phases'
  BY <1>1, SameCall DEF WInv, Phases
<1>4. TypeOK'
  <2>1. col' = col
    BY <1>1 DEF col
  <2>2. QED
    BY <1>1, <2>1, SameCall DEF WInv, TypeOK
<1>5. ChunksTile'
  BY <1>1 DEF WInv, ChunksTile, GroupStart
<1>6. RowsCut'
  BY <1>1, SameCall DEF WInv, RowsCut, GroupsCut
<1>7. QED
  BY <1>2, <1>3, <1>4, <1>5, <1>6 DEF WInv

LEMMA NextInv == WInv /\ [WriterNext]_writerVars => WInv'
<1> SUFFICES ASSUME WInv, [WriterNext]_writerVars
             PROVE  WInv'
  OBVIOUS
<1>1. CASE Refuse
  <2>1. Refusal # "ok"
    BY DEF Refusal
  <2>2. QED
    BY <1>1, <2>1, StopInv DEF Refuse
<1>2. CASE Begin
  BY <1>2, BeginInv
<1>3. CASE Panic
  BY <1>3, StopInv DEF Panic
<1>4. CASE RefuseCodec
  BY <1>4, StopInv DEF RefuseCodec
<1>5. CASE WriteDictPage
  BY <1>5, DictPageInv
<1>6. CASE WriteDataPage
  BY <1>6, DataPageInv
<1>7. CASE EndGroup
  BY <1>7, EndGroupInv
<1>8. CASE WriteFooter
  BY <1>8, FooterInv
<1>9. CASE FailWrite
  BY <1>9, StopInv DEF FailWrite
<1>10. CASE Done \/ UNCHANGED writerVars
  BY <1>10, StutterInv DEF Done
<1>11. QED
  BY <1>1, <1>2, <1>3, <1>4, <1>5, <1>6, <1>7, <1>8, <1>9, <1>10 DEF WriterNext

LEMMA Invariance == WriterSpec => []WInv
  BY InitInv, NextInv, PTL DEF WriterSpec

-----------------------------------------------------------------------------
(* The theorems.                                                           *)

(* For every set of calls: a row group never ends with fewer prepared      *)
(* columns than the table has, the row cursor never passes the end of the  *)
(* table, and no dictionary page is left over from one column chunk to the *)
(* next.                                                                   *)
THEOREM WriterTypes == WriterSpec => []TypeOK
<1>1. WInv => TypeOK
  BY DEF WInv
<1>2. QED
  BY <1>1, Invariance, PTL

(* For every table, every row group size and every mix of dictionaries,    *)
(* filters and codecs, and at every write: the chunks and the filters that *)
(* the footer will describe lie back to back from the magic to the end of  *)
(* what has been written.                                                  *)
THEOREM LayoutCorrect == WriterSpec => []ChunksTile
<1>1. WInv => ChunksTile
  BY DEF WInv
<1>2. QED
  BY <1>1, Invariance, PTL

(* For every table and every row group size: the row groups are runs of    *)
(* that many rows, the last one clipped, and end with the table.           *)
THEOREM RowGroupsCut == WriterSpec => []RowsCut
<1>1. WInv => RowsCut
  BY DEF WInv
<1>2. QED
  BY <1>1, Invariance, PTL

-----------------------------------------------------------------------------
(* What has been written stays where it is.                                *)

LEMMA Appended ==
  ASSUME NEW s, NEW t, IsSeq(s), IsSeq(t)
  PROVE  /\ IsSeq(s \o t) /\ Len(s \o t) = Len(s) + Len(t) /\ Len(s) \in Nat /\ Len(t) \in Nat
         /\ \A i \in 1..Len(s) : (s \o t)[i] = s[i]
         /\ \A i \in 1..Len(t) : (s \o t)[Len(s) + i] = t[i]
<1>1. PICK S : s \in Seq(S)
  BY DEF IsSeq
<1>2. PICK T : t \in Seq(T)
  BY DEF IsSeq
<1>3. s \in Seq(S \cup T) /\ t \in Seq(S \cup T)
  BY <1>1, <1>2
<1> QED BY <1>3, Concat

(* A slice, unit by unit.                                                  *)
LEMMA SliceOf ==
  ASSUME NEW s, IsSeq(s), NEW at \in Nat, NEW len \in Nat, at + len <= Len(s)
  PROVE  /\ IsSeq(Bytes(s, at, len)) /\ Len(Bytes(s, at, len)) = len
         /\ \A i \in 1..len : Bytes(s, at, len)[i] = s[at + i]
<1>1. PICK S : s \in Seq(S)
  BY DEF IsSeq
<1>2. at + 1 \in Int /\ at + len \in Int /\ 1 <= at + 1 /\ (at + len) - (at + 1) + 1 = len
  OBVIOUS
<1>3. \A i \in (at + 1)..(at + len) : s[i] \in S
  BY <1>1
<1> DEFINE lo == at + 1
           hi == at + len
<1>4. /\ lo \in Int /\ hi \in Int /\ hi - lo + 1 = len /\ (lo <= hi <=> len # 0)
      /\ \A i \in lo..hi : s[i] \in S
      /\ \A i \in 1..len : lo + i - 1 = at + i
  BY <1>3
<1>5. Bytes(s, at, len) = SubSeq(s, lo, hi)
  BY DEF Bytes
<1> HIDE DEF lo, hi
<1>6. /\ SubSeq(s, lo, hi) \in Seq(S) /\ Len(SubSeq(s, lo, hi)) = IF lo <= hi THEN hi - lo + 1 ELSE 0
      /\ \A i \in 1..(hi - lo + 1) : SubSeq(s, lo, hi)[i] = s[lo + i - 1]
  BY <1>4, SubSeqProperties
<1>7. Len(SubSeq(s, lo, hi)) = len
  <2>1. lo <= hi => Len(SubSeq(s, lo, hi)) = hi - lo + 1
    BY <1>6
  <2>2. ~(lo <= hi) => Len(SubSeq(s, lo, hi)) = 0
    BY <1>6
  <2> QED BY <1>4, <2>1, <2>2
<1>8. ASSUME NEW i \in 1..len PROVE SubSeq(s, lo, hi)[i] = s[at + i]
  BY <1>4, <1>6
<1> QED BY <1>5, <1>6, <1>7, <1>8 DEF IsSeq

(* Two sequences that agree are equal.                                     *)
LEMMA SameUnits ==
  ASSUME NEW s, NEW t, IsSeq(s), IsSeq(t), Len(s) = Len(t), \A i \in 1..Len(s) : s[i] = t[i]
  PROVE  s = t
<1>1. PICK S : s \in Seq(S)
  BY DEF IsSeq
<1>2. PICK T : t \in Seq(T)
  BY DEF IsSeq
<1> QED BY <1>1, <1>2

LEMMA KeepsBytes ==
  ASSUME NEW s, NEW t, IsSeq(s), IsSeq(t), NEW at \in Nat, NEW len \in Nat, at + len <= Len(s)
  PROVE  Bytes(s \o t, at, len) = Bytes(s, at, len)
<1>1. IsSeq(s \o t) /\ at + len <= Len(s \o t) /\ Len(s) \in Nat
      /\ \A i \in 1..Len(s) : (s \o t)[i] = s[i]
  BY Appended
<1>2. /\ IsSeq(Bytes(s \o t, at, len)) /\ Len(Bytes(s \o t, at, len)) = len
      /\ \A i \in 1..len : Bytes(s \o t, at, len)[i] = (s \o t)[at + i]
  BY <1>1, SliceOf
<1>3. /\ IsSeq(Bytes(s, at, len)) /\ Len(Bytes(s, at, len)) = len
      /\ \A i \in 1..len : Bytes(s, at, len)[i] = s[at + i]
  BY SliceOf
<1>4. \A i \in 1..len : at + i \in 1..Len(s)
  BY <1>1
<1> QED BY <1>1, <1>2, <1>3, <1>4, SameUnits

(* What is appended is found at the old end, joined to what was before.    *)
LEMMA JoinsBytes ==
  ASSUME NEW s, NEW t, IsSeq(s), IsSeq(t), NEW at \in Nat, NEW len \in Nat, at + len = Len(s)
  PROVE  Bytes(s \o t, at, len + Len(t)) = Bytes(s, at, len) \o t
<1>1. /\ IsSeq(s \o t) /\ Len(s \o t) = Len(s) + Len(t) /\ Len(s) \in Nat /\ Len(t) \in Nat
      /\ \A i \in 1..Len(s) : (s \o t)[i] = s[i]
      /\ \A i \in 1..Len(t) : (s \o t)[Len(s) + i] = t[i]
  BY Appended
<1>2. /\ IsSeq(Bytes(s, at, len)) /\ Len(Bytes(s, at, len)) = len
      /\ \A i \in 1..len : Bytes(s, at, len)[i] = s[at + i]
  BY SliceOf
<1> DEFINE b == Bytes(s, at, len)
           n == len + Len(t)
           u == s \o t
           j == Bytes(u, at, n)
<1>3. /\ n \in Nat /\ at + n <= Len(u) /\ IsSeq(u) /\ n = len + Len(t)
      /\ \A i \in 1..Len(s) : u[i] = s[i]
      /\ \A i \in 1..Len(t) : u[Len(s) + i] = t[i]
  BY <1>1
<1>0. IsSeq(b) /\ Len(b) = len /\ \A i \in 1..len : b[i] = s[at + i]
  BY <1>2
<1> HIDE DEF b, n, u
<1>4. /\ IsSeq(j) /\ Len(j) = n /\ \A i \in 1..n : j[i] = u[at + i]
  BY <1>3, SliceOf
<1>5. /\ IsSeq(b \o t) /\ Len(b \o t) = n
      /\ \A i \in 1..len : (b \o t)[i] = s[at + i]
      /\ \A i \in 1..Len(t) : (b \o t)[len + i] = t[i]
  <2>1. /\ IsSeq(b \o t) /\ Len(b \o t) = Len(b) + Len(t)
        /\ \A i \in 1..Len(b) : (b \o t)[i] = b[i]
        /\ \A i \in 1..Len(t) : (b \o t)[Len(b) + i] = t[i]
    BY <1>0, Appended
  <2> QED BY <1>0, <1>3, <2>1
<1>6. ASSUME NEW i \in 1..n PROVE j[i] = (b \o t)[i]
  <2>1. CASE i <= len
    <3>1. i \in 1..len /\ at + i \in 1..Len(s)
      BY <1>1, <1>3, <2>1
    <3> QED BY <1>3, <1>4, <1>5, <3>1
  <2>2. CASE ~(i <= len)
    <3> DEFINE k == i - len
    <3>1. k \in 1..Len(t) /\ len + k = i /\ Len(s) + k = at + i
      <4> DEFINE ls == Len(s)
                 lt == Len(t)
      <4>1. ls \in Nat /\ lt \in Nat /\ at + len = ls /\ n = len + lt
        BY <1>1, <1>3
      <4> HIDE DEF ls, lt
      <4>2. k \in 1..lt /\ len + k = i /\ ls + k = at + i
        BY <2>2, <4>1
      <4> QED BY <4>2 DEF ls, lt
    <3> HIDE DEF k
    <3>2. (b \o t)[len + k] = t[k] /\ u[Len(s) + k] = t[k]
      <4>1. u[Len(s) + k] = t[k]
        BY <1>3, <3>1
      <4>2. (b \o t)[len + k] = t[k]
        BY <1>5, <3>1
      <4> QED BY <4>1, <4>2
    <3> QED BY <1>4, <3>1, <3>2
  <2> QED BY <2>1, <2>2
<1> HIDE DEF j
<1>7. j = b \o t
  BY <1>4, <1>5, <1>6, SameUnits
<1> QED BY <1>7 DEF j, b, n, u

LEMMA FindsBytes ==
  ASSUME NEW s, NEW t, IsSeq(s), IsSeq(t)
  PROVE  Bytes(s \o t, Len(s), Len(t)) = t
<1>1. Len(s) \in Nat /\ Len(t) \in Nat /\ Len(s) + 0 = Len(s) /\ 0 + Len(t) = Len(t)
  BY Appended
<1>2. Bytes(s \o t, Len(s), 0 + Len(t)) = Bytes(s, Len(s), 0) \o t
  BY <1>1, JoinsBytes
<1>3. IsSeq(Bytes(s, Len(s), 0)) /\ Len(Bytes(s, Len(s), 0)) = 0
  BY <1>1, SliceOf
<1> DEFINE e == Bytes(s, Len(s), 0)
<1> HIDE DEF e
<1>4. e \o t = t
  <2>1. PICK S : e \in Seq(S)
    BY <1>3 DEF IsSeq, e
  <2>2. PICK T : t \in Seq(T)
    BY DEF IsSeq
  <2>3. e = << >>
    BY <1>3, <2>1 DEF e
  <2> QED BY <2>2, <2>3
<1> QED BY <1>1, <1>2, <1>4 DEF e

-----------------------------------------------------------------------------
(* The bytes of a chunk, once written, stay the bytes of that chunk.       *)

(* What a column chunk should hold.                                        *)
Wanted(c, vals) ==
  [units  |-> (IF IsDict(c) THEN PageUnits(DictPageOf(vals), Codec(c), "v1") ELSE << >>)
                \o PageUnits(DataPageOf(c, vals), Codec(c), call.version),
   first  |-> PageUnits(DataPageOf(c, vals), Codec(c), call.version)[1],
   filter |-> Filter(c, vals)]

HoldsIn(f, p, w) ==
  /\ Bytes(f, ChunkStart(p), p.compressed) = w.units
  /\ f[p.dataAt + 1] = w.first
  /\ p.filterAt # NoOffset <=> w.filter # << >>
  /\ p.filterAt # NoOffset => Bytes(f, p.filterAt, p.filterLen) = w.filter

KeptIn(f, p, w) ==
  /\ HoldsIn(f, p, w) /\ p \in PreparedColumns
  /\ ChunkStart(p) \in Nat /\ ChunkStart(p) + p.compressed <= Len(f) /\ p.dataAt < Len(f)
  /\ p.filterAt # NoOffset => p.filterAt + p.filterLen <= Len(f)

Held ==
  /\ \A g \in DOMAIN groups :
       /\ DOMAIN groups[g].cols = DOMAIN columns
       /\ \A c \in DOMAIN columns : KeptIn(out, groups[g].cols[c], Wanted(c, Rows(c, g)))
  /\ \A c \in DOMAIN prepared : KeptIn(out, prepared[c], Wanted(c, Slice(c)))
  /\ phase = "data" => Bytes(out, dictPage.at, dictPage.size) =
                         PageUnits(DictPageOf(Slice(col)), Codec(col), "v1")

HInv == WInv /\ Held

LEMMA KeptGrows ==
  ASSUME NEW s, NEW t, IsSeq(s), IsSeq(t), NEW p, NEW w, KeptIn(s, p, w)
  PROVE  KeptIn(s \o t, p, w)
<1>1. /\ p.dataAt \in Nat /\ p.compressed \in Nat /\ p.filterLen \in Nat
      /\ p.filterAt \in Nat \cup {NoOffset} /\ ChunkStart(p) \in Nat
  BY DEF KeptIn, PreparedColumns
<1>2. /\ Len(s \o t) = Len(s) + Len(t) /\ Len(s) \in Nat /\ Len(t) \in Nat
      /\ \A i \in 1..Len(s) : (s \o t)[i] = s[i]
  BY Appended
<1>3. Bytes(s \o t, ChunkStart(p), p.compressed) = Bytes(s, ChunkStart(p), p.compressed)
  BY <1>1, KeepsBytes DEF KeptIn
<1>4. (s \o t)[p.dataAt + 1] = s[p.dataAt + 1]
  <2>1. p.dataAt + 1 \in 1..Len(s)
    BY <1>1, <1>2 DEF KeptIn
  <2> QED BY <1>2, <2>1
<1>5. p.filterAt # NoOffset =>
        Bytes(s \o t, p.filterAt, p.filterLen) = Bytes(s, p.filterAt, p.filterLen)
  BY <1>1, KeepsBytes DEF KeptIn
<1>6. /\ ChunkStart(p) + p.compressed <= Len(s \o t) /\ p.dataAt < Len(s \o t)
      /\ p.filterAt # NoOffset => p.filterAt + p.filterLen <= Len(s \o t)
  <2> DEFINE len == Len(s \o t)
             start == ChunkStart(p)
  <2>1. len >= Len(s) /\ len \in Nat
    BY <1>2
  <2>2. /\ start + p.compressed <= Len(s) /\ p.dataAt < Len(s)
        /\ p.filterAt # NoOffset => p.filterAt + p.filterLen <= Len(s)
    BY DEF KeptIn
  <2>3. start \in Nat
    BY <1>1
  <2> HIDE DEF len, start
  <2>4. /\ start + p.compressed <= len /\ p.dataAt < len
        /\ p.filterAt # NoOffset => p.filterAt + p.filterLen <= len
    BY <1>1, <1>2, <2>1, <2>2, <2>3
  <2> QED BY <2>4 DEF len, start
<1> QED BY <1>3, <1>4, <1>5, <1>6 DEF KeptIn, HoldsIn

(* What a chunk should hold is settled by the call.                        *)
LEMMA SameWanted ==
  ASSUME call' = call
  PROVE  /\ \A c, g : Wanted(c, Rows(c, g))' = Wanted(c, Rows(c, g))
         /\ \A c, vals : Wanted(c, vals)' = Wanted(c, vals)
         /\ \A c : Codec(c)' = Codec(c)
<1>1. columns' = columns /\ \A g : RowsOfGroup(g)' = RowsOfGroup(g)
  BY SameCall
<1>2. /\ \A c : IsDict(c)' = IsDict(c) /\ Codec(c)' = Codec(c)
      /\ \A c, vals : DataPageOf(c, vals)' = DataPageOf(c, vals) /\ Filter(c, vals)' = Filter(c, vals)
  BY SameCall DEF Codec, DataPageOf, Filter, IsDict
<1>3. \A c, vals : Wanted(c, vals)' = Wanted(c, vals)
  BY <1>2 DEF Wanted
<1>4. \A c, g : Rows(c, g)' = Rows(c, g)
  BY <1>1 DEF Rows
<1> QED BY <1>2, <1>3, <1>4

LEMMA HeldHolds == ASSUME Held PROVE ChunksHold
  BY DEF Held, KeptIn, HoldsIn, Wanted, ChunksHold, Holds

(* Writing behind what is there keeps it.                                  *)
LEMMA HeldGrows ==
  ASSUME HInv, NEW t, IsSeq(t), out' = out \o t, call' = call, rowStart' = rowStart,
         groups' = groups
  PROVE  /\ \A g \in DOMAIN groups' :
              /\ DOMAIN groups'[g].cols = DOMAIN columns'
              /\ \A c \in DOMAIN columns' : KeptIn(out', groups'[g].cols[c], Wanted(c, Rows(c, g))')
         /\ \A c \in DOMAIN prepared : KeptIn(out', prepared[c], Wanted(c, Slice(c))')
<1>1. IsSeq(out)
  BY DEF HInv, WInv, Kinds
<1>2. columns' = columns /\ TotalRows' = TotalRows
  BY SameCall
<1>3. \A c, g : Wanted(c, Rows(c, g))' = Wanted(c, Rows(c, g))
  BY SameWanted
<1>4. \A c : Slice(c)' = Slice(c)
  BY <1>2 DEF Slice, rowEnd
<1>5. \A c : Wanted(c, Slice(c))' = Wanted(c, Slice(c))
  BY <1>4, SameWanted
<1>6. ASSUME NEW g \in DOMAIN groups
      PROVE  /\ DOMAIN groups[g].cols = DOMAIN columns
             /\ \A c \in DOMAIN columns : KeptIn(out \o t, groups[g].cols[c], Wanted(c, Rows(c, g)))
  BY <1>1, KeptGrows DEF HInv, Held
<1>7. \A c \in DOMAIN prepared : KeptIn(out \o t, prepared[c], Wanted(c, Slice(c)))
  BY <1>1, KeptGrows DEF HInv, Held
<1> QED BY <1>2, <1>3, <1>5, <1>6, <1>7

LEMMA HeldStays ==
  ASSUME HInv, UNCHANGED <<call, rowStart, groups, prepared, dictPage, out>>,
         phase' = phase \/ phase' # "data"
  PROVE  Held'
<1>2. columns' = columns /\ TotalRows' = TotalRows
  BY SameCall
<1>3. \A c, g : Wanted(c, Rows(c, g))' = Wanted(c, Rows(c, g))
  BY SameWanted
<1>4. \A c : Slice(c)' = Slice(c) /\ Codec(c)' = Codec(c)
  BY <1>2, SameWanted DEF Slice, rowEnd
<1>5. \A c : Wanted(c, Slice(c))' = Wanted(c, Slice(c))
  BY <1>4, SameWanted
<1>6. col' = col /\ Slice(col)' = Slice(col) /\ Codec(col)' = Codec(col)
  BY <1>4 DEF col
<1> QED BY <1>2, <1>3, <1>5, <1>6 DEF HInv, Held

LEMMA DictPageHeld == ASSUME HInv, WriteDictPage PROVE Held'
<1> DEFINE page  == DictPageOf(Slice(col))
           units == PageUnits(page, Codec(col), "v1")
           size  == 1 + CompressedLen(BodyLen(page), Codec(col))
<1>1. /\ phase = "column" /\ Len(prepared) < Len(columns) /\ IsDict(col)
      /\ out' = out \o units
      /\ dictPage' = [at |-> written, raw |-> 1 + BodyLen(page), size |-> size]
      /\ call' = call /\ rowStart' = rowStart /\ groups' = groups /\ prepared' = prepared
  BY DEF WriteDictPage, CanWrite, InColumn, Emit
<1>2. written \in Nat /\ IsSeq(out) /\ written = Len(out) /\ Slice(col) \in Seq(Int)
  BY <1>1, InChunk DEF HInv
<1>3. IsSeq(units) /\ Len(units) = size
  BY <1>2, DictPageLen, PageLen
<1> HIDE DEF units, size
<1>4. Bytes(out', dictPage'.at, dictPage'.size) = units
  BY <1>1, <1>2, <1>3, FindsBytes
<1>5. columns' = columns /\ TotalRows' = TotalRows
  BY <1>1, SameCall
<1>6. \A c : Slice(c)' = Slice(c) /\ Codec(c)' = Codec(c)
  BY <1>1, <1>5, SameWanted DEF Slice, rowEnd
<1>7. PageUnits(DictPageOf(Slice(col)), Codec(col), "v1")' = units
  BY <1>1, <1>6 DEF col, units
<1>8. /\ \A g \in DOMAIN groups' :
           /\ DOMAIN groups'[g].cols = DOMAIN columns'
           /\ \A c \in DOMAIN columns' : KeptIn(out', groups'[g].cols[c], Wanted(c, Rows(c, g))')
      /\ \A c \in DOMAIN prepared : KeptIn(out', prepared[c], Wanted(c, Slice(c))')
  BY <1>1, <1>3, HeldGrows
<1>9. \A c \in DOMAIN prepared' : KeptIn(out', prepared'[c], Wanted(c, Slice(c))')
  BY <1>1, <1>8
<1> QED BY <1>4, <1>7, <1>8, <1>9 DEF Held

LEMMA DataPageHeld == ASSUME HInv, WriteDataPage PROVE Held'
<1> DEFINE page   == DataPageOf(col, Slice(col))
           units  == PageUnits(page, Codec(col), call.version)
           filter == Filter(col, Slice(col))
           p      == PreparedColumn(page, units, filter)
           w      == Wanted(col, Slice(col))
           dict   == IF IsDict(col) THEN PageUnits(DictPageOf(Slice(col)), Codec(col), "v1") ELSE << >>
<1>1. /\ phase \in {"column", "data"} /\ Len(prepared) < Len(columns)
      /\ out' = out \o (units \o filter)
      /\ prepared' = Append(prepared, p)
      /\ phase' = "column" /\ call' = call /\ rowStart' = rowStart /\ groups' = groups
  BY DEF WriteDataPage, CanWrite, InColumn, Emit, HInv, WInv, TypeOK
<1>2. /\ written \in Nat /\ IsSeq(out) /\ written = Len(out)
      /\ BodyLen(page) \in Nat /\ prepared \in Seq(PreparedColumns) /\ Slice(col) \in Seq(Int)
  BY <1>1, InChunk DEF HInv
<1>3. /\ IsSeq(units) /\ Len(units) \in Nat /\ Len(units) = 1 + CompressedLen(BodyLen(page), Codec(col))
      /\ CompressedLen(BodyLen(page), Codec(col)) \in Nat
  BY <1>2, PageLen
<1>4. /\ IsSeq(filter) /\ Len(filter) \in Nat /\ (filter = << >> => Len(filter) = 0)
  BY FilterSeq
<1>5. /\ dictPage \in [at : Nat \cup {NoOffset}, raw : Nat, size : Nat]
      /\ \/ dictPage = NoPage /\ ~IsDict(col)
         \/ /\ dictPage.at \in Nat /\ dictPage.size > 0 /\ dictPage.at + dictPage.size = written
            /\ IsDict(col) /\ phase = "data"
  <2>1. CASE phase = "column"
    <3>1. ~IsDict(col)
      BY <2>1 DEF WriteDataPage
    <3> QED BY <2>1, <3>1 DEF HInv, WInv, Kinds, Phases, TypeOK
  <2>2. CASE phase = "data"
    BY <2>2 DEF HInv, WInv, Kinds, Phases, TypeOK
  <2> QED BY <1>1, <2>1, <2>2
<1>6. w = [units |-> dict \o units, first |-> units[1], filter |-> filter]
  BY DEF Wanted
<1> HIDE DEF page, units, filter, w
<1>7. /\ p \in PreparedColumns
      /\ ChunkStart(p) + dictPage.size = written /\ ChunkStart(p) \in Nat
  BY <1>2, <1>3, <1>4, <1>5, DescriptorEnds
<1>8. /\ p.dataAt = written /\ p.compressed = dictPage.size + Len(units)
      /\ p.filterAt = IF filter = << >> THEN NoOffset ELSE written + Len(units)
      /\ p.filterLen = Len(filter)
  BY DEF PreparedColumn, Descriptor
<1>9. IsSeq(units \o filter) /\ Len(units \o filter) = Len(units) + Len(filter)
  BY <1>3, <1>4, Concat
<1> HIDE DEF p
<1>10. Bytes(out, ChunkStart(p), dictPage.size) = dict
  <2>1. CASE dictPage = NoPage /\ ~IsDict(col)
    <3>1. dictPage.size = 0 /\ ChunkStart(p) = Len(out) /\ dict = << >>
      BY <1>2, <1>7, <2>1 DEF NoPage
    <3>2. IsSeq(Bytes(out, Len(out), 0)) /\ Len(Bytes(out, Len(out), 0)) = 0
      BY <1>2, SliceOf
    <3>3. Bytes(out, Len(out), 0) = << >>
      BY <3>2, SameUnits, EmptyIsSeq
    <3> QED BY <3>1, <3>3
  <2>2. CASE /\ dictPage.at \in Nat /\ dictPage.size > 0 /\ dictPage.at + dictPage.size = written
             /\ IsDict(col) /\ phase = "data"
    <3>1. ChunkStart(p) = dictPage.at
      BY <1>2, <1>5, <1>7, <2>2
    <3>2. Bytes(out, dictPage.at, dictPage.size) = PageUnits(DictPageOf(Slice(col)), Codec(col), "v1")
      BY <2>2 DEF HInv, Held
    <3> QED BY <2>2, <3>1, <3>2
  <2> QED BY <1>5, <2>1, <2>2
<1> DEFINE mid == out \o units
<1>11. IsSeq(mid) /\ Len(mid) = Len(out) + Len(units) /\ out' = mid \o filter
  <2>1. PICK S : out \in Seq(S)
    BY <1>2 DEF IsSeq
  <2>2. PICK T : units \in Seq(T)
    BY <1>3 DEF IsSeq
  <2>3. PICK R : filter \in Seq(R)
    BY <1>4 DEF IsSeq
  <2> DEFINE A == S \cup T \cup R
  <2>4. out \in Seq(A) /\ units \in Seq(A) /\ filter \in Seq(A)
    BY <2>1, <2>2, <2>3
  <2>5. out \o (units \o filter) = (out \o units) \o filter
    BY <2>4
  <2> QED BY <1>1, <1>2, <1>3, <2>5, Concat
<1>12. Bytes(mid, ChunkStart(p), p.compressed) = dict \o units
  <2>1. ChunkStart(p) + dictPage.size = Len(out) /\ ChunkStart(p) \in Nat /\ dictPage.size \in Nat
    BY <1>2, <1>5, <1>7
  <2>2. Bytes(out \o units, ChunkStart(p), dictPage.size + Len(units))
          = Bytes(out, ChunkStart(p), dictPage.size) \o units
    BY <1>2, <1>3, <2>1, JoinsBytes
  <2> HIDE DEF dict
  <2> QED BY <1>8, <1>10, <2>2
<1>13. mid[p.dataAt + 1] = units[1]
  <2>1. \A i \in 1..Len(units) : mid[Len(out) + i] = units[i]
    BY <1>2, <1>3, Appended
  <2>2. 1 \in 1..Len(units)
    BY <1>3
  <2> QED BY <1>2, <1>8, <2>1, <2>2
<1> HIDE DEF mid
<1>14. KeptIn(out', p, w)
  <2>1. Bytes(out', ChunkStart(p), p.compressed) = dict \o units
        /\ ChunkStart(p) + p.compressed = Len(mid) /\ p.compressed \in Nat
    <3>1. ChunkStart(p) + p.compressed = Len(mid) /\ p.compressed \in Nat
      <4> DEFINE cs == ChunkStart(p)
                 lu == Len(units)
                 lo == Len(out)
                 lm == Len(mid)
      <4>1. /\ cs + dictPage.size = lo /\ p.compressed = dictPage.size + lu /\ lm = lo + lu
            /\ cs \in Nat /\ dictPage.size \in Nat /\ lu \in Nat /\ lo \in Nat
        BY <1>2, <1>3, <1>5, <1>7, <1>8, <1>11
      <4> HIDE DEF cs, lu, lo, lm
      <4>2. cs + p.compressed = lm /\ p.compressed \in Nat
        BY <4>1
      <4> QED BY <4>2 DEF cs, lm
    <3>2. ChunkStart(p) + p.compressed <= Len(mid)
      BY <1>2, <1>3, <1>11, <3>1
    <3> QED BY <1>4, <1>7, <1>11, <1>12, <3>1, <3>2, KeepsBytes
  <2>2. out'[p.dataAt + 1] = units[1] /\ p.dataAt < Len(out')
    <3>1. p.dataAt + 1 \in 1..Len(mid)
      BY <1>2, <1>3, <1>8, <1>11
    <3>2. out'[p.dataAt + 1] = mid[p.dataAt + 1] /\ Len(out') = Len(mid) + Len(filter)
      BY <1>4, <1>11, <3>1, Appended
    <3> QED BY <1>2, <1>3, <1>4, <1>8, <1>11, <1>13, <3>2
  <2>3. p.filterAt # NoOffset => Bytes(out', p.filterAt, p.filterLen) = filter
        /\ p.filterAt + p.filterLen = Len(out')
    <3>1. Bytes(out', Len(mid), Len(filter)) = filter /\ Len(out') = Len(mid) + Len(filter)
      BY <1>4, <1>11, FindsBytes, Appended
    <3> QED BY <1>2, <1>3, <1>8, <1>11, <3>1
  <2>4. p.filterAt # NoOffset <=> filter # << >>
    BY <1>2, <1>3, <1>8 DEF NoOffset
  <2>5. ChunkStart(p) + p.compressed <= Len(out')
    <3>1. Len(out') = Len(mid) + Len(filter) /\ Len(mid) \in Nat
      BY <1>4, <1>11, Appended
    <3> QED BY <1>4, <2>1, <3>1
  <2>6. p.filterAt # NoOffset => p.filterAt + p.filterLen <= Len(out')
    <3>1. Len(out') \in Nat
      BY <1>4, <1>11, Appended
    <3> QED BY <2>3, <3>1
  <2> QED BY <1>6, <1>7, <2>1, <2>2, <2>3, <2>4, <2>5, <2>6 DEF KeptIn, HoldsIn
<1>15. /\ \A g \in DOMAIN groups' :
            /\ DOMAIN groups'[g].cols = DOMAIN columns'
            /\ \A c \in DOMAIN columns' : KeptIn(out', groups'[g].cols[c], Wanted(c, Rows(c, g))')
       /\ \A c \in DOMAIN prepared : KeptIn(out', prepared[c], Wanted(c, Slice(c))')
  BY <1>1, <1>9, HeldGrows
<1>16. \A c : c = col => Wanted(c, Slice(c))' = w
  <2>1. columns' = columns /\ TotalRows' = TotalRows
    BY <1>1, SameCall
  <2>2. \A c : Slice(c)' = Slice(c)
    BY <1>1, <2>1 DEF Slice, rowEnd
  <2>3. \A c : Wanted(c, Slice(c))' = Wanted(c, Slice(c))
    BY <1>1, <2>2, SameWanted
  <2> QED BY <2>3 DEF w
<1>17. ASSUME NEW c \in DOMAIN prepared' PROVE KeptIn(out', prepared'[c], Wanted(c, Slice(c))')
  <2>1. /\ DOMAIN prepared' = 1..(Len(prepared) + 1) /\ prepared'[Len(prepared) + 1] = p
        /\ \A i \in 1..Len(prepared) : prepared'[i] = prepared[i] /\ i \in DOMAIN prepared
        /\ Len(prepared) \in Nat
    <3> HIDE DEF PreparedColumns
    <3> QED BY <1>1, <1>2, <1>7
  <2>2. CASE c \in 1..Len(prepared)
    BY <1>15, <2>1, <2>2
  <2>3. CASE c = Len(prepared) + 1
    <3>1. c = col
      BY <2>3 DEF col
    <3> QED BY <1>14, <1>16, <2>1, <2>3, <3>1
  <2> QED BY <2>1, <2>2, <2>3
<1> QED BY <1>1, <1>15, <1>17 DEF Held

(* The row group that ends is the one the cursor was in.                   *)
LEMMA GroupRows ==
  ASSUME WInv, EndGroup
  PROVE  \A c : Rows(c, Len(groups) + 1) = Slice(c)
<1> DEFINE n     == Len(groups)
           size  == call.rowGroupSize
           total == TotalRows
           m     == n * size
<1>1. /\ phase = "column" /\ call \in Calls /\ Refusal = "none" /\ rowStart \in 0..total
      /\ n \in Nat /\ (groups = << >> \/ rowStart < total)
      /\ rowStart = Smaller(m, total)
  BY DEF EndGroup, WInv, Kinds, Phases, TypeOK, RowsCut
<1>2. size \in Nat \ {0} /\ total \in Nat
  BY <1>1, Checked
<1>3. n = 0 \/ rowStart < total
  BY <1>1
<1> HIDE DEF size, total
<1>4. m \in Nat /\ (n = 0 => m = 0)
  <2> HIDE DEF n
  <2> QED BY <1>1, <1>2, Times
<1>5. (n + 1) - 1 = n
  BY <1>1
<1> HIDE DEF n, m
<1>6. rowStart = m
  BY <1>1, <1>2, <1>3, <1>4 DEF Smaller
<1>7. rowEnd = Smaller(m + size, total)
  BY <1>6 DEF rowEnd, size, total
<1>8. m + Smaller(size, total - m) = Smaller(m + size, total)
  BY <1>2, <1>4 DEF Smaller
<1>9. RowsOfGroup(n + 1) = [first |-> m, rows |-> Smaller(size, total - m)]
  BY <1>5 DEF RowsOfGroup, m, n, size, total
<1>10. /\ RowsOfGroup(n + 1).first = rowStart
       /\ RowsOfGroup(n + 1).first + RowsOfGroup(n + 1).rows = rowEnd
  BY <1>6, <1>7, <1>8, <1>9
<1>11. \A c : Rows(c, n + 1) = Slice(c)
  BY <1>10 DEF Rows, Slice
<1> QED BY <1>11 DEF n

LEMMA EndGroupHeld == ASSUME HInv, EndGroup PROVE Held'
<1> DEFINE group == [rows |-> chunkRows, cols |-> prepared]
           n     == Len(groups)
<1>1. /\ phase = "column" /\ Len(prepared) = Len(columns) /\ groups' = Append(groups, group)
      /\ prepared' = << >> /\ phase' # "data"
      /\ call' = call /\ out' = out /\ groups \in Seq(Groups) /\ prepared \in Seq(PreparedColumns)
      /\ call \in Calls
  BY DEF EndGroup, HInv, WInv, Kinds
<1>2. /\ DOMAIN groups' = 1..(n + 1) /\ DOMAIN groups = 1..n /\ n \in Nat
      /\ groups'[n + 1] = group /\ \A g \in 1..n : groups'[g] = groups[g]
  <2> HIDE DEF Groups, group
  <2> QED BY <1>1
<1>3. DOMAIN prepared = DOMAIN columns
  <2>1. columns \in Seq([type : Types, vals : Seq(Int)])
    BY <1>1, CallType
  <2> HIDE DEF columns, Types, PreparedColumns
  <2> QED BY <1>1, <2>1
<1>4. columns' = columns /\ \A c, g : Wanted(c, Rows(c, g))' = Wanted(c, Rows(c, g))
  BY <1>1, SameCall, SameWanted
<1>5. ASSUME NEW g \in DOMAIN groups'
      PROVE  /\ DOMAIN groups'[g].cols = DOMAIN columns'
             /\ \A c \in DOMAIN columns' : KeptIn(out', groups'[g].cols[c], Wanted(c, Rows(c, g))')
  <2>1. CASE g \in 1..n
    BY <1>1, <1>2, <1>4, <2>1 DEF HInv, Held
  <2>2. CASE g = n + 1
    <3>1. \A c : Rows(c, g) = Slice(c)
      BY <2>2, GroupRows DEF HInv
    <3>2. groups'[g].cols = prepared
      BY <1>2, <2>2
    <3>3. \A c \in DOMAIN prepared : KeptIn(out, prepared[c], Wanted(c, Rows(c, g)))
      BY <3>1 DEF HInv, Held
    <3> QED BY <1>1, <1>3, <1>4, <3>2, <3>3
  <2> QED BY <1>2, <2>1, <2>2
<1>6. DOMAIN prepared' = {}
  BY <1>1
<1> QED BY <1>1, <1>5, <1>6 DEF Held

LEMMA FooterLenNat == ASSUME WInv PROVE FooterLen(TableFooter) \in Nat \ {0}
<1> DEFINE group(g) ==
             [rows |-> groups[g].rows,
              cols |-> [c \in DOMAIN columns |-> ColumnMeta(c, groups[g].rows, groups[g].cols[c])]]
<1>1. TableFooter.groups = [g \in DOMAIN groups |-> group(g)]
  BY DEF TableFooter
<1> HIDE DEF group
<1>2. DOMAIN groups = 1..Len(groups) /\ Len(groups) \in Nat
  BY DEF WInv, Kinds
<1>3. Len([g \in 1..Len(groups) |-> group(g)]) = Len(groups)
  BY <1>2
<1> QED BY <1>1, <1>2, <1>3 DEF FooterLen

(* The end of the file.                                                    *)
LEMMA FooterWritten ==
  ASSUME WInv, WriteFooter
  PROVE  LET m == FooterLen(TableFooter)
             end == Piece("footer", TableFooter, m) \o Trailer(m)
         IN  /\ out' = out \o end /\ IsSeq(end) /\ Len(end) = m + 2 /\ m \in Nat \ {0}
             /\ \A i \in 1..m : end[i].piece = "footer" /\ end[i].of = TableFooter
                                /\ end[i].at = i /\ end[i].len = m
             /\ end[m + 1].piece = "length" /\ end[m + 1].of = m
             /\ end[m + 2].piece = "magic"
<1> DEFINE m == FooterLen(TableFooter)
           body == Piece("footer", TableFooter, m)
           end == body \o Trailer(m)
<1>1. m \in Nat \ {0}
  BY FooterLenNat
<1>2. out' = out \o body \o Trailer(m)
  BY DEF WriteFooter
<1> HIDE DEF m
<1>3. IsSeq(out)
  BY DEF WInv, Kinds
<1>4. IsSeq(body) /\ Len(body) = m
  BY <1>1, PieceSeq
<1>5. \A i \in 1..m : body[i].piece = "footer" /\ body[i].of = TableFooter /\ body[i].at = i
                      /\ body[i].len = m
  BY <1>1 DEF Piece
<1> HIDE DEF body
<1>6. /\ IsSeq(Trailer(m)) /\ Len(Trailer(m)) = 2
      /\ Trailer(m)[1].piece = "length" /\ Trailer(m)[1].of = m /\ Trailer(m)[2].piece = "magic"
  <2> DEFINE a == Piece("length", m, 1)
  <2>1. /\ IsSeq(a) /\ Len(a) = 1 /\ IsSeq(Magic) /\ Len(Magic) = 1
        /\ a[1].piece = "length" /\ a[1].of = m /\ Magic[1].piece = "magic"
    <3>1. IsSeq(a) /\ Len(a) = 1 /\ IsSeq(Magic) /\ Len(Magic) = 1
      BY PieceSeq DEF Magic
    <3> QED BY <3>1 DEF Piece, Magic
  <2> HIDE DEF a
  <2>2. /\ IsSeq(a \o Magic) /\ Len(a \o Magic) = Len(a) + Len(Magic)
        /\ \A i \in 1..Len(a) : (a \o Magic)[i] = a[i]
        /\ \A i \in 1..Len(Magic) : (a \o Magic)[Len(a) + i] = Magic[i]
    <3>1. IsSeq(a) /\ IsSeq(Magic)
      BY <2>1
    <3> QED BY <3>1, Appended
  <2>3. Len(a \o Magic) = 2 /\ (a \o Magic)[1] = a[1] /\ (a \o Magic)[2] = Magic[1]
    <3>1. 1 \in 1..Len(a) /\ 1 \in 1..Len(Magic) /\ Len(a) + 1 = 2 /\ Len(a) + Len(Magic) = 2
      BY <2>1
    <3>2. (a \o Magic)[Len(a) + 1] = Magic[1]
      BY <2>2, <3>1
    <3> QED BY <2>2, <3>1, <3>2
  <2> QED BY <2>1, <2>2, <2>3 DEF Trailer, a
<1>7. out' = out \o end
  <2>1. PICK S : out \in Seq(S)
    BY <1>3 DEF IsSeq
  <2>2. PICK T : body \in Seq(T)
    BY <1>4 DEF IsSeq
  <2>3. PICK R : Trailer(m) \in Seq(R)
    BY <1>6 DEF IsSeq
  <2> DEFINE A == S \cup T \cup R
             t == Trailer(m)
  <2>4. out \in Seq(A) /\ body \in Seq(A) /\ t \in Seq(A)
    BY <2>1, <2>2, <2>3
  <2> HIDE DEF A, t
  <2>5. out \o (body \o t) = (out \o body) \o t
    BY <2>4
  <2> QED BY <1>2, <2>5 DEF t
<1>8. /\ IsSeq(end) /\ Len(end) = Len(body) + Len(Trailer(m))
      /\ \A i \in 1..Len(body) : end[i] = body[i]
      /\ \A i \in 1..Len(Trailer(m)) : end[Len(body) + i] = Trailer(m)[i]
  <2>1. IsSeq(body) /\ IsSeq(Trailer(m))
    BY <1>4, <1>6
  <2> QED BY <2>1, Appended
<1> HIDE DEF end
<1>9. /\ Len(end) = m + 2 /\ \A i \in 1..m : end[i] = body[i]
      /\ end[m + 1] = Trailer(m)[1] /\ end[m + 2] = Trailer(m)[2]
  <2>1. 1 \in 1..Len(Trailer(m)) /\ 2 \in 1..Len(Trailer(m))
    BY <1>6
  <2>2. end[Len(body) + 1] = Trailer(m)[1] /\ end[Len(body) + 2] = Trailer(m)[2]
    BY <1>8, <2>1
  <2> QED BY <1>4, <1>6, <1>8, <2>2
<1> QED BY <1>1, <1>5, <1>6, <1>7, <1>8, <1>9 DEF m, body, end

LEMMA FooterHeld == ASSUME HInv, WriteFooter PROVE Held'
<1>1. /\ phase' # "data" /\ call' = call /\ rowStart' = rowStart /\ groups' = groups
      /\ prepared' = prepared
  BY DEF WriteFooter
<1>2. PICK end : out' = out \o end /\ IsSeq(end)
  BY FooterWritten DEF HInv
<1>3. /\ \A g \in DOMAIN groups' :
           /\ DOMAIN groups'[g].cols = DOMAIN columns'
           /\ \A c \in DOMAIN columns' : KeptIn(out', groups'[g].cols[c], Wanted(c, Rows(c, g))')
      /\ \A c \in DOMAIN prepared : KeptIn(out', prepared[c], Wanted(c, Slice(c))')
  BY <1>1, <1>2, HeldGrows
<1> QED BY <1>1, <1>3 DEF Held

LEMMA HInit == WriterInit => HInv
<1> SUFFICES ASSUME WriterInit PROVE HInv OBVIOUS
<1>1. DOMAIN groups = {} /\ DOMAIN prepared = {} /\ phase # "data"
  BY DEF WriterInit
<1> QED BY <1>1, InitInv DEF HInv, Held

LEMMA HNext == HInv /\ [WriterNext]_writerVars => HInv'
<1> SUFFICES ASSUME HInv, [WriterNext]_writerVars PROVE HInv' OBVIOUS
<1>1. WInv'
  BY NextInv DEF HInv
<1>2. CASE Begin
  <2>1. groups' = << >> /\ prepared' = << >> /\ phase' # "data"
    BY <1>2 DEF Begin, HInv, WInv, Phases
  <2>2. DOMAIN groups' = {} /\ DOMAIN prepared' = {}
    BY <2>1
  <2>3. Held'
    BY <2>1, <2>2 DEF Held
  <2> QED BY <1>1, <2>3 DEF HInv
<1>3. CASE WriteDictPage BY <1>1, <1>3, DictPageHeld DEF HInv
<1>4. CASE WriteDataPage BY <1>1, <1>4, DataPageHeld DEF HInv
<1>5. CASE EndGroup BY <1>1, <1>5, EndGroupHeld DEF HInv
<1>6. CASE WriteFooter BY <1>1, <1>6, FooterHeld DEF HInv
<1>7. CASE UNCHANGED writerVars \/ \E r : Stop(r)
  <2>1. UNCHANGED <<call, rowStart, groups, prepared, dictPage, out>>
        /\ (phase' = phase \/ phase' # "data")
    BY <1>7 DEF writerVars, Stop
  <2> QED BY <1>1, <2>1, HeldStays DEF HInv
<1> QED BY <1>2, <1>3, <1>4, <1>5, <1>6, <1>7
        DEF WriterNext, Refuse, Panic, RefuseCodec, FailWrite, Done

(* At every write, for every table and mix of dictionaries, filters,       *)
(* codecs and page versions: the bytes between the offsets recorded for a  *)
(* chunk are the pages and the filter of its rows.                         *)
THEOREM ChunksAreHeld == WriterSpec => []ChunksHold
<1>1. HInv => ChunksHold
  BY HeldHolds DEF HInv
<1> QED BY HInit, HNext, <1>1, PTL DEF WriterSpec

-----------------------------------------------------------------------------
(* The magic is the first unit, and the last of a complete file.           *)

Sealed ==
  /\ phase \in {"column", "data", "footer"} => Len(out) >= 1 /\ out[1].piece = "magic"
  /\ \A i \in 2..Len(out) : out[i].piece = "magic" => result = "ok" /\ i = Len(out)
  /\ result = "ok" => Opens(out)

NoMagic(units) == \A i \in 1..Len(units) : units[i].piece # "magic"

LEMMA NoMagicJoin ==
  ASSUME NEW s, NEW t, IsSeq(s), IsSeq(t), NoMagic(s), NoMagic(t) PROVE NoMagic(s \o t)
<1> DEFINE u == s \o t
<1>1. /\ Len(u) = Len(s) + Len(t) /\ Len(s) \in Nat /\ Len(t) \in Nat
      /\ \A i \in 1..Len(s) : u[i] = s[i]
      /\ \A i \in 1..Len(t) : u[Len(s) + i] = t[i]
  BY Appended
<1> HIDE DEF u
<1> SUFFICES ASSUME NEW i \in 1..Len(u) PROVE u[i].piece # "magic"
  BY DEF NoMagic, u
<1>2. CASE i \in 1..Len(s)
  BY <1>1, <1>2 DEF NoMagic
<1>3. CASE ~(i \in 1..Len(s))
  <2> DEFINE k == i - Len(s)
  <2>1. k \in 1..Len(t) /\ Len(s) + k = i
    <3> DEFINE ls == Len(s)
               lt == Len(t)
    <3>1. ls \in Nat /\ lt \in Nat /\ i \in 1..(ls + lt) /\ ~(i \in 1..ls)
      BY <1>1, <1>3
    <3> HIDE DEF ls, lt
    <3>2. i - ls \in 1..lt /\ ls + (i - ls) = i
      BY <3>1
    <3> QED BY <3>2 DEF ls, lt
  <2> HIDE DEF k
  <2>2. u[Len(s) + k] = t[k]
    BY <1>1, <2>1
  <2> QED BY <2>1, <2>2 DEF NoMagic
<1> QED BY <1>2, <1>3

LEMMA NoMagicPiece ==
  ASSUME NEW kind, kind # "magic", NEW of, NEW len \in Nat PROVE NoMagic(Piece(kind, of, len))
<1>1. Len(Piece(kind, of, len)) = len
  BY PieceSeq
<1>2. \A i \in 1..len : Piece(kind, of, len)[i].piece = kind
  BY DEF Piece
<1> QED BY <1>1, <1>2 DEF NoMagic

LEMMA NoMagicPage ==
  ASSUME NEW page, BodyLen(page) \in Nat, NEW codec, NEW version
  PROVE  NoMagic(PageUnits(page, codec, version))
<1> DEFINE size == CompressedLen(BodyLen(page), codec)
<1>1. size \in Nat
  BY CompressedNat
<1>2. PICK head, body :
        PageUnits(page, codec, version) = Piece("header", head, 1) \o Piece("body", body, size)
  BY PageParts
<1> HIDE DEF size
<1>3. /\ IsSeq(Piece("header", head, 1)) /\ IsSeq(Piece("body", body, size))
      /\ NoMagic(Piece("header", head, 1)) /\ NoMagic(Piece("body", body, size))
  BY <1>1, PieceSeq, NoMagicPiece
<1> QED BY <1>2, <1>3, NoMagicJoin

LEMMA NoMagicFilter == ASSUME NEW c, NEW vals PROVE NoMagic(Filter(c, vals))
<1>1. NoMagic(<< >>)
  BY DEF NoMagic
<1> QED BY <1>1, NoMagicPiece DEF Filter

LEMMA SealGrows ==
  ASSUME WInv, Sealed, phase \in {"column", "data", "footer"},
         NEW t, IsSeq(t), NoMagic(t), out' = out \o t, result' = result
  PROVE  Sealed'
<1>1. IsSeq(out) /\ result = "none"
  BY DEF WInv, Kinds, Phases
<1>2. /\ Len(out') = Len(out) + Len(t) /\ Len(out) \in Nat /\ Len(t) \in Nat
      /\ \A i \in 1..Len(out) : out'[i] = out[i]
      /\ \A i \in 1..Len(t) : out'[Len(out) + i] = t[i]
  BY <1>1, Appended
<1>3. Len(out) >= 1 /\ out[1].piece = "magic" /\ \A i \in 2..Len(out) : out[i].piece # "magic"
  BY <1>1 DEF Sealed
<1>4. Len(out') >= 1 /\ out'[1].piece = "magic"
  <2>1. 1 \in 1..Len(out)
    BY <1>2, <1>3
  <2> QED BY <1>2, <1>3, <2>1
<1>5. ASSUME NEW i \in 2..Len(out') PROVE out'[i].piece # "magic"
  <2>1. CASE i \in 1..Len(out)
    <3>1. i \in 2..Len(out)
      BY <1>2, <2>1
    <3> QED BY <1>2, <1>3, <2>1, <3>1
  <2>2. CASE ~(i \in 1..Len(out))
    <3> DEFINE k == i - Len(out)
    <3>1. k \in 1..Len(t) /\ Len(out) + k = i
      BY <1>2, <2>2
    <3> HIDE DEF k
    <3>2. out'[Len(out) + k] = t[k]
      BY <1>2, <3>1
    <3> QED BY <3>1, <3>2 DEF NoMagic
  <2> QED BY <2>1, <2>2
<1> QED BY <1>1, <1>4, <1>5 DEF Sealed

LEMMA WholeHolds ==
  ASSUME NEW bytes, IsSeq(bytes), Len(bytes) >= 1, IsWhole(bytes, "footer")
  PROVE  HoldsFooter(bytes)
<1>1. PICK S : bytes \in Seq(S)
  BY DEF IsSeq
<1>2. SubSeq(bytes, 1, Len(bytes)) = bytes /\ Len(bytes) \in 1..Len(bytes)
  BY <1>1, SubSeqFull
<1> QED BY <1>2 DEF HoldsFooter

LEMMA FooterSeals == ASSUME WInv, Sealed, WriteFooter PROVE Sealed'
<1> DEFINE m == FooterLen(TableFooter)
           end == Piece("footer", TableFooter, m) \o Trailer(m)
           L   == Len(out)
<1>1. /\ out' = out \o end /\ IsSeq(end) /\ Len(end) = m + 2 /\ m \in Nat \ {0}
      /\ \A i \in 1..m : end[i].piece = "footer" /\ end[i].of = TableFooter /\ end[i].at = i
                         /\ end[i].len = m
      /\ end[m + 1].piece = "length" /\ end[m + 1].of = m
      /\ end[m + 2].piece = "magic"
  BY FooterWritten
<1>2. /\ phase = "footer" /\ result' = "ok" /\ phase' = "done" /\ IsSeq(out)
  BY DEF WriteFooter, WInv, Kinds
<1>3. L >= 1 /\ out[1].piece = "magic" /\ \A i \in 2..L : out[i].piece # "magic"
  BY <1>2 DEF Sealed, WInv, Phases
<1> HIDE DEF m, end
<1>11. IsSeq(end) /\ IsSeq(out) /\ out' = out \o end
  BY <1>1, <1>2
<1>12. Len(end) = m + 2 /\ m \in Nat /\ m >= 1
  BY <1>1
<1>13. \A i \in 1..m : end[i].piece = "footer" /\ end[i].of = TableFooter /\ end[i].at = i
                       /\ end[i].len = m
  BY <1>1
<1>14. \A i \in 1..m : end[i].piece = "footer"
  BY <1>13
<1>4. /\ IsSeq(out') /\ Len(out') = L + Len(end) /\ L \in Nat
      /\ \A i \in 1..L : out'[i] = out[i]
      /\ \A i \in 1..Len(end) : out'[L + i] = end[i]
  BY <1>11, Appended
<1> HIDE DEF L
<1>5. /\ Len(out') = L + m + 2 /\ m \in Nat /\ m >= 1
      /\ \A i \in 1..(m + 2) : out'[L + i] = end[i]
  BY <1>4, <1>12
<1>6. out'[Len(out')].piece = "magic" /\ out'[Len(out') - 1].piece = "length"
      /\ out'[Len(out') - 1].of = m
  <2>1. out'[L + (m + 2)] = end[m + 2] /\ out'[L + (m + 1)] = end[m + 1]
    <3>1. m + 2 \in 1..(m + 2) /\ m + 1 \in 1..(m + 2)
      BY <1>5
    <3> DEFINE a == m + 2
               b == m + 1
    <3>2. a \in 1..(m + 2) /\ b \in 1..(m + 2)
      BY <3>1
    <3> HIDE DEF a, b
    <3>3. out'[L + a] = end[a] /\ out'[L + b] = end[b]
      BY <1>5, <3>2
    <3> QED BY <3>3 DEF a, b
  <2>2. Len(out') = L + (m + 2) /\ Len(out') - 1 = L + (m + 1)
    BY <1>4, <1>5
  <2> QED BY <1>1, <2>1, <2>2
<1>7. out'[1].piece = "magic" /\ Len(out') >= 3 /\ m <= Len(out') - 3
  <2>1. 1 \in 1..L
    BY <1>3, <1>4
  <2> QED BY <1>3, <1>4, <1>5, <2>1
<1>8. HoldsFooter(Bytes(out', Len(out') - 2 - m, m))
  <2> DEFINE bytes == Bytes(out', L, m)
  <2>1. Len(out') - 2 - m = L /\ L + m <= Len(out')
    BY <1>4, <1>5
  <2>2. IsSeq(bytes) /\ Len(bytes) = m /\ \A i \in 1..m : bytes[i] = out'[L + i]
    BY <1>4, <1>5, <2>1, SliceOf
  <2> HIDE DEF bytes
  <2>3. \A i \in 1..m : bytes[i].piece = "footer" /\ bytes[i].of = TableFooter
                        /\ bytes[i].at = i /\ bytes[i].len = m
    BY <1>5, <1>13, <2>2
  <2>4. DOMAIN bytes = 1..m /\ bytes # << >> /\ 1 \in 1..m
    <3>1. PICK S : bytes \in Seq(S)
      BY <2>2 DEF IsSeq
    <3> QED BY <1>5, <2>2, <3>1
  <2>5. IsWhole(bytes, "footer")
    BY <2>2, <2>3, <2>4 DEF IsWhole
  <2> QED BY <2>1, <2>2, <2>5, <1>5, WholeHolds DEF bytes
<1>9. Opens(out')
  BY <1>6, <1>7, <1>8 DEF Opens, FooterSize
<1>10. ASSUME NEW i \in 2..Len(out'), out'[i].piece = "magic" PROVE i = Len(out')
  <2>1. CASE i \in 1..L
    <3>1. i \in 2..L
      BY <1>4, <2>1
    <3> QED BY <1>3, <1>4, <1>10, <2>1, <3>1
  <2>2. CASE ~(i \in 1..L)
    <3> DEFINE k == i - L
    <3>1. k \in 1..(m + 2) /\ L + k = i
      BY <1>4, <1>5, <2>2
    <3> HIDE DEF k
    <3>2. end[k].piece = "magic"
      BY <1>5, <1>10, <3>1
    <3>3. k = m + 2
      <4>2. k \notin 1..m /\ k # m + 1
        BY <1>1, <1>14, <3>2
      <4> QED BY <1>5, <3>1, <4>2
    <3> QED BY <1>4, <1>5, <3>1, <3>3
  <2> QED BY <2>1, <2>2
<1> QED BY <1>2, <1>9, <1>10 DEF Sealed

LEMMA SealNext == HInv /\ Sealed /\ [WriterNext]_writerVars => Sealed'
<1> SUFFICES ASSUME HInv, Sealed, [WriterNext]_writerVars PROVE Sealed' OBVIOUS
<1>0. WInv
  BY DEF HInv
<1>1. CASE Begin
  <2>1. out' = Magic /\ result' = result /\ result = "none"
    BY <1>0, <1>1 DEF Begin, WInv, Phases
  <2>2. Len(Magic) = 1 /\ Magic[1].piece = "magic"
    <3>1. Len(Magic) = 1
      BY PieceSeq DEF Magic
    <3> QED BY <3>1 DEF Magic, Piece
  <2> QED BY <2>1, <2>2 DEF Sealed
<1>2. CASE WriteDictPage
  <2> DEFINE units == PageUnits(DictPageOf(Slice(col)), Codec(col), "v1")
  <2>1. phase = "column" /\ out' = out \o units /\ result' = result /\ Len(prepared) < Len(columns)
    BY <1>2 DEF WriteDictPage, CanWrite, InColumn, Emit
  <2>2. Slice(col) \in Seq(Int)
    BY <1>0, <2>1, InChunk
  <2>3. IsSeq(units) /\ NoMagic(units)
    BY <2>2, DictPageLen, PageLen, NoMagicPage
  <2> QED BY <1>0, <2>1, <2>3, SealGrows
<1>3. CASE WriteDataPage
  <2> DEFINE page   == DataPageOf(col, Slice(col))
             units  == PageUnits(page, Codec(col), call.version)
             filter == Filter(col, Slice(col))
  <2>1. /\ phase \in {"column", "data"} /\ Len(prepared) < Len(columns)
        /\ out' = out \o (units \o filter) /\ result' = result
    BY <1>0, <1>3 DEF WriteDataPage, CanWrite, InColumn, Emit, WInv, TypeOK
  <2>2. BodyLen(page) \in Nat
    BY <1>0, <2>1, InChunk
  <2>3. IsSeq(units) /\ NoMagic(units) /\ IsSeq(filter) /\ NoMagic(filter)
    BY <2>2, PageLen, NoMagicPage, FilterSeq, NoMagicFilter
  <2> HIDE DEF units, filter
  <2>4. IsSeq(units \o filter) /\ NoMagic(units \o filter)
    BY <2>3, Concat, NoMagicJoin
  <2> QED BY <1>0, <2>1, <2>4, SealGrows
<1>4. CASE WriteFooter BY <1>0, <1>4, FooterSeals
<1>5. CASE EndGroup
  <2>1. out' = out /\ result' = result /\ phase = "column"
    BY <1>5 DEF EndGroup
  <2> QED BY <2>1 DEF Sealed
<1>6. CASE UNCHANGED writerVars
  BY <1>6 DEF Sealed, writerVars
<1>7. CASE phase # "done" /\ \E r : r # "ok" /\ Stop(r)
  <2>1. out' = out /\ phase' = "done" /\ result' # "ok" /\ result = "none"
    BY <1>0, <1>7 DEF Stop, WInv, Phases
  <2> QED BY <2>1 DEF Sealed
<1>8. Refusal # "ok"
  BY DEF Refusal
<1> QED BY <1>1, <1>2, <1>3, <1>4, <1>5, <1>6, <1>7, <1>8
        DEF WriterNext, Refuse, Panic, RefuseCodec, FailWrite, Done, InColumn

(* No prefix of a file opens but the whole of one that was finished: at    *)
(* every write, for every call.                                            *)
THEOREM OnlyCompleteOpens == WriterSpec => []OpensIffComplete
<1>1. WriterInit => HInv /\ Sealed
  <2> SUFFICES ASSUME WriterInit PROVE HInv /\ Sealed OBVIOUS
  <2>1. out = << >> /\ Len(<< >>) = 0 /\ phase = "start" /\ result = "none"
    BY DEF WriterInit
  <2> QED BY <2>1, HInit DEF Sealed
<1>2. HInv /\ Sealed => OpensIffComplete
  <2> SUFFICES ASSUME HInv, Sealed, NEW n \in 0..Len(out)
               PROVE  Opens(SubSeq(out, 1, n)) <=> result = "ok" /\ n = Len(out)
    BY DEF OpensIffComplete
  <2> DEFINE q == Bytes(out, 0, n)
  <2>1. IsSeq(out) /\ Len(out) \in Nat /\ n \in Nat
    BY Appended DEF HInv, WInv, Kinds
  <2>2. IsSeq(q) /\ Len(q) = n /\ \A i \in 1..n : q[i] = out[0 + i]
    BY <2>1, SliceOf
  <2>3. SubSeq(out, 1, n) = q
    BY <2>1 DEF Bytes
  <2> HIDE DEF q
  <2>4. \A i \in 1..n : q[i] = out[i]
    BY <2>2
  <2>5. ASSUME Opens(q) PROVE result = "ok" /\ n = Len(out)
    <3>1. n >= 3 /\ q[n].piece = "magic"
      BY <2>2, <2>5 DEF Opens
    <3>2. n \in 1..n /\ n \in 2..Len(out)
      BY <2>1, <3>1
    <3>3. out[n].piece = "magic"
      BY <2>4, <3>1, <3>2
    <3> QED BY <3>2, <3>3 DEF Sealed
  <2>6. ASSUME result = "ok", n = Len(out) PROVE Opens(q)
    <3>1. q = out
      BY <2>1, <2>2, <2>4, <2>6, SameUnits
    <3> QED BY <2>6, <3>1 DEF Sealed
  <2> QED BY <2>3, <2>5, <2>6
<1> QED BY <1>1, HNext, SealNext, <1>2, PTL DEF WriterSpec

-----------------------------------------------------------------------------
(* Dictionaries.                                                           *)

Rank(F, k) == Cardinality(F \cap (1..k))

(* Ranks of first occurrences run through 1..Cardinality(F), each once.    *)
LEMMA Ranks ==
  ASSUME NEW n \in Nat, NEW F \in SUBSET (1..n)
  PROVE  /\ Cardinality(F) \in Nat
         /\ \A k \in F : Rank(F, k) \in 1..Cardinality(F)
         /\ \A a, b \in F : Rank(F, a) = Rank(F, b) => a = b
         /\ \A e \in 1..Cardinality(F) : \E k \in F : Rank(F, k) = e
<1>1. IsFiniteSet(1..n)
  BY FS_Interval
<1>2. ASSUME NEW S \in SUBSET (1..n)
      PROVE  IsFiniteSet(S) /\ Cardinality(S) \in Nat
  BY <1>1, FS_Subset, FS_CardinalityType
<1>3. ASSUME NEW S \in SUBSET (1..n), NEW T \in SUBSET S
      PROVE  Cardinality(T) <= Cardinality(S)
  BY <1>2, FS_Subset
<1>4. \A k : Rank(F, k) \in Nat /\ Rank(F, k) <= Cardinality(F)
  <2> SUFFICES ASSUME NEW k PROVE Rank(F, k) \in Nat /\ Rank(F, k) <= Cardinality(F)
    OBVIOUS
  <2>1. F \cap (1..k) \in SUBSET F /\ F \cap (1..k) \in SUBSET (1..n)
    OBVIOUS
  <2> QED BY <2>1, <1>2, <1>3 DEF Rank
<1>5. ASSUME NEW k \in 1..n
      PROVE  Rank(F, k) = IF k \in F THEN Rank(F, k - 1) + 1 ELSE Rank(F, k - 1)
  <2> DEFINE P == F \cap (1..(k - 1))
  <2>1. P \in SUBSET (1..n) /\ k \notin P
    OBVIOUS
  <2>2. F \cap (1..k) = IF k \in F THEN P \cup {k} ELSE P
    OBVIOUS
  <2> HIDE DEF P
  <2>3. Cardinality(P \cup {k}) = Cardinality(P) + 1
    BY <2>1, <1>2, FS_AddElement
  <2> QED BY <2>2, <2>3 DEF Rank, P
<1>6. \A a, b \in F : a < b => Rank(F, a) < Rank(F, b)
  <2> SUFFICES ASSUME NEW a \in F, NEW b \in F, a < b PROVE Rank(F, a) < Rank(F, b)
    OBVIOUS
  <2>1. F \cap (1..a) \in SUBSET (F \cap (1..(b - 1))) /\ F \cap (1..(b - 1)) \in SUBSET (1..n)
    OBVIOUS
  <2>2. Rank(F, a) <= Rank(F, b - 1)
    BY <2>1, <1>3 DEF Rank
  <2>3. Rank(F, b) = Rank(F, b - 1) + 1
    BY <1>5
  <2> QED BY <2>2, <2>3, <1>4
<1>7. \A a, b \in F : Rank(F, a) = Rank(F, b) => a = b
  <2> SUFFICES ASSUME NEW a \in F, NEW b \in F, Rank(F, a) = Rank(F, b), a # b PROVE FALSE
    OBVIOUS
  <2>1. (a < b \/ b < a) /\ Rank(F, a) \in Nat /\ Rank(F, b) \in Nat
    BY <1>4
  <2> QED BY <2>1, <1>6
<1>8. ASSUME NEW e \in 1..Cardinality(F) PROVE \E k \in F : Rank(F, k) = e
  <2> DEFINE T == {k \in 0..n : Rank(F, k) >= e}
  <2>1. Rank(F, 0) = 0
    <3>1. F \cap (1..0) = {}
      OBVIOUS
    <3> QED BY <3>1, FS_EmptySet DEF Rank
  <2>2. n \in T
    <3>1. F \cap (1..n) = F
      OBVIOUS
    <3> QED BY <3>1, <1>2 DEF Rank
  <2>3. PICK k \in T : \A j \in T : k <= j
    <3>1. T \in SUBSET Nat /\ T # {}
      BY <2>2
    <3> QED BY <3>1, LeastNat
  <2>4. k \in 1..n
    BY <2>1, <2>3
  <2>5. Rank(F, k - 1) < e
    <3>1. k - 1 \in 0..n /\ k - 1 \notin T
      BY <2>3, <2>4
    <3> QED BY <3>1, <1>4
  <2>6. Rank(F, k) >= e /\ Rank(F, k) \in Nat /\ Rank(F, k - 1) \in Nat /\ e \in Nat
    BY <2>3, <1>4
  <2>7. k \in F
    BY <1>5, <2>4, <2>5, <2>6
  <2>8. Rank(F, k) = Rank(F, k - 1) + 1
    BY <1>5, <2>4, <2>7
  <2> QED BY <2>5, <2>6, <2>7, <2>8
<1>9. \A k \in F : Rank(F, k) >= 1
  <2> SUFFICES ASSUME NEW k \in F PROVE Rank(F, k) >= 1
    OBVIOUS
  <2>1. k \in 1..n /\ Rank(F, k) = Rank(F, k - 1) + 1
    BY <1>5
  <2> QED BY <2>1, <1>4
<1>10. Cardinality(F) \in Nat
  BY <1>2
<1>11. \A k \in F : Rank(F, k) \in 1..Cardinality(F)
  BY <1>4, <1>9, <1>10
<1>12. \A e \in 1..Cardinality(F) : \E k \in F : Rank(F, k) = e
  BY <1>8
<1> QED BY <1>7, <1>10, <1>11, <1>12

(* What the dictionary page and the page of indices spell.                 *)
LEMMA DictionarySpells ==
  ASSUME NEW vals \in Seq(Int)
  PROVE  /\ Dictionary(vals) \in Seq(Int) /\ Indices(vals) \in Seq(Int)
         /\ Len(Indices(vals)) = Len(vals)
         /\ \A k \in 1..Len(vals) :
              /\ Indices(vals)[k] \in 0..(Len(Dictionary(vals)) - 1)
              /\ Dictionary(vals)[Indices(vals)[k] + 1] = vals[k]
<1> DEFINE n == Len(vals)
           F == Firsts(vals)
           m == Cardinality(F)
           D == Dictionary(vals)
           at(e) == CHOOSE k \in F : Rank(F, k) = e
<1>1. n \in Nat /\ F \in SUBSET (1..n)
  BY DEF Firsts
<1>2. ASSUME NEW j \in 1..n PROVE \E k \in F : vals[k] = vals[j]
  <2> DEFINE T == {k \in 1..n : vals[k] = vals[j]}
  <2>1. T \in SUBSET Nat /\ T # {}
    BY <1>1
  <2>2. PICK k \in T : \A y \in T : k <= y
    BY <2>1, LeastNat
  <2>3. ASSUME NEW i \in 1..(k - 1) PROVE vals[i] # vals[k]
    <3>1. i \in 1..n /\ ~(k <= i)
      BY <1>1, <2>2
    <3>2. i \notin T
      BY <2>2, <3>1
    <3> QED BY <2>2, <3>1, <3>2
  <2> QED BY <2>2, <2>3 DEF Firsts
<1> HIDE DEF F, n
<1>3. /\ m \in Nat
      /\ \A k \in F : Rank(F, k) \in 1..m
      /\ \A a, b \in F : Rank(F, a) = Rank(F, b) => a = b
      /\ \A e \in 1..m : \E k \in F : Rank(F, k) = e
  BY <1>1, Ranks
<1> HIDE DEF m
<1>4. D = [e \in 1..m |-> vals[at(e)]]
  BY DEF Dictionary, F, m, Rank
<1>5. \A e \in 1..m : at(e) \in F /\ Rank(F, at(e)) = e
  BY <1>3
<1>6. \A k \in F : at(Rank(F, k)) = k
  BY <1>3, <1>5
<1> HIDE DEF at, D
<1>7. \A k \in 1..n : vals[k] \in Int
  BY DEF n
<1>8. D \in Seq(Int) /\ Len(D) = m /\ DOMAIN D = 1..m
  <2>1. \A e \in 1..m : vals[at(e)] \in Int
    BY <1>1, <1>5, <1>7
  <2>2. D \in [1..m -> Int]
    BY <1>4, <2>1
  <2> QED BY <1>3, <2>2
<1>9. ASSUME NEW k \in 1..n PROVE \E e \in DOMAIN D : D[e] = vals[k]
  <2>1. PICK j \in F : vals[j] = vals[k]
    BY <1>2
  <2>2. Rank(F, j) \in 1..m
    BY <1>3
  <2> QED BY <1>4, <1>6, <1>8, <2>1, <2>2
<1> DEFINE code(k) == CHOOSE e \in DOMAIN D : D[e] = vals[k]
<1>10. Indices(vals) = [k \in 1..n |-> code(k) - 1]
  BY DEF Indices, D, n
<1>11. \A k \in 1..n : code(k) \in 1..m /\ D[code(k)] = vals[k]
  BY <1>8, <1>9
<1> HIDE DEF code
<1>12. \A k \in 1..n : code(k) - 1 \in 0..(m - 1) /\ (code(k) - 1) + 1 = code(k)
  BY <1>3, <1>11
<1>13. Indices(vals) \in Seq(Int) /\ Len(Indices(vals)) = n
  BY <1>1, <1>10, <1>12
<1> QED BY <1>8, <1>10, <1>11, <1>12, <1>13 DEF D, n

-----------------------------------------------------------------------------
(* A page, written and walked.                                             *)

LEMMA AsSigned ==
  /\ \A n \in Nat : AsI32(n) \in Int
  /\ \A n \in Nat : n < PageCap => AsI32(n) = n
  /\ \A n \in Nat : PageCap <= n => AsI32(n) < n
  /\ \A n \in Nat : PageCap <= n /\ n < 2 * PageCap => AsI32(n) < 0
<1>1. PageCap \in Nat /\ PageCap >= 3 /\ 2 * PageCap \in Nat /\ 2 * PageCap > 0
  BY PageCapAssumption
<1>2. ASSUME NEW n \in Nat
      PROVE  /\ (n + PageCap) % (2 * PageCap) \in 0..(2 * PageCap - 1)
             /\ n < PageCap => (n + PageCap) % (2 * PageCap) = n + PageCap
             /\ PageCap <= n /\ n < 2 * PageCap =>
                  (n + PageCap) % (2 * PageCap) = n + PageCap - 2 * PageCap
  BY <1>1
<1> QED BY <1>1, <1>2 DEF AsI32

LEMMA CompressedIs ==
  ASSUME NEW n \in Nat, NEW codec
  PROVE  /\ CompressedLen(n, codec) \in Nat
         /\ CompressedLen(n, codec) = 0 => n = 0 /\ codec = "plain"
         /\ CompressedLen(n, codec) < PageCap => n < 2 * PageCap
         /\ n <= 1 => CompressedLen(n, codec) < PageCap
  BY PageCapAssumption DEF CompressedLen

(* The units of a page.                                                    *)
LEMMA UnitsOfPage ==
  ASSUME NEW page, BodyLen(page) \in Nat, NEW codec, NEW version
  PROVE  LET u == PageUnits(page, codec, version)
             size == CompressedLen(BodyLen(page), codec)
         IN  /\ IsSeq(u) /\ Len(u) = 1 + size /\ size \in Nat
             /\ u[1].piece = "header" /\ u[1].of.kind = page.kind
             /\ u[1].of.compressed = AsI32(size) /\ u[1].of.uncompressed = AsI32(BodyLen(page))
             /\ u[1].of.packed = (version = "v1" \/ codec # "plain")
             /\ u[1].of.count = AsI32(Len(page.vals))
             /\ \A k \in 1..size :
                  /\ u[1 + k].piece = "body" /\ u[1 + k].at = k /\ u[1 + k].len = size
                  /\ u[1 + k].of = [page |-> page, behind |-> BadPage, codec |-> codec]
<1> DEFINE size == CompressedLen(BodyLen(page), codec)
           head == [kind |-> page.kind, uncompressed |-> AsI32(BodyLen(page)),
                    compressed |-> AsI32(size), count |-> AsI32(Len(page.vals)),
                    v1 |-> version = "v1", packed |-> version = "v1" \/ codec # "plain"]
           body == [page |-> page, behind |-> BadPage, codec |-> codec]
           a == Piece("header", head, 1)
           b == Piece("body", body, size)
           u == PageUnits(page, codec, version)
<1>1. size \in Nat
  BY CompressedNat
<1>2. u = a \o b
  BY DEF PageUnits
<1> HIDE DEF size
<1>5. /\ head.kind = page.kind /\ head.uncompressed = AsI32(BodyLen(page))
      /\ head.compressed = AsI32(size) /\ head.packed = (version = "v1" \/ codec # "plain")
      /\ head.count = AsI32(Len(page.vals))
  OBVIOUS
<1> HIDE DEF head, body
<1>3. /\ IsSeq(a) /\ Len(a) = 1 /\ IsSeq(b) /\ Len(b) = size
  BY <1>1, PieceSeq
<1>4. /\ a[1].piece = "header" /\ a[1].of = head
      /\ \A k \in 1..size : /\ b[k].piece = "body" /\ b[k].at = k /\ b[k].len = size
                            /\ b[k].of = body
  BY <1>1 DEF Piece
<1> HIDE DEF a, b, u
<1>6. /\ IsSeq(a \o b) /\ Len(a \o b) = 1 + size
      /\ (a \o b)[1] = a[1]
      /\ \A k \in 1..size : (a \o b)[1 + k] = b[k]
  <2>1. /\ IsSeq(a \o b) /\ Len(a \o b) = Len(a) + Len(b)
        /\ \A i \in 1..Len(a) : (a \o b)[i] = a[i]
        /\ \A i \in 1..Len(b) : (a \o b)[Len(a) + i] = b[i]
    <3>1. IsSeq(a) /\ IsSeq(b)
      BY <1>3
    <3> QED BY <3>1, Appended
  <2>2. 1 \in 1..Len(a)
    BY <1>3
  <2> QED BY <1>3, <2>1, <2>2
<1>7. /\ IsSeq(u) /\ Len(u) = 1 + size /\ u[1].piece = "header" /\ u[1].of = head
      /\ \A k \in 1..size : /\ u[1 + k].piece = "body" /\ u[1 + k].at = k /\ u[1 + k].len = size
                            /\ u[1 + k].of = body
  <2>1. IsSeq(u) /\ Len(u) = 1 + size /\ u[1] = a[1] /\ \A k \in 1..size : u[1 + k] = b[k]
    BY <1>2, <1>6
  <2> QED BY <1>4, <2>1
<1> QED BY <1>1, <1>5, <1>7 DEF size, body, u

(* Where a page lies in a chunk.                                           *)
LiesAt(bytes, pos, units) ==
  /\ pos + Len(units) <= Len(bytes)
  /\ \A i \in 1..Len(units) : bytes[pos + i] = units[i]

(* What a page reads as, by the count in its header.                       *)
AsRead(page) ==
  IF page.kind # "coded" THEN page
  ELSE IF AsI32(Len(page.vals)) \in 0..Len(page.vals)
       THEN [kind |-> "coded", vals |-> SubSeq(page.vals, 1, AsI32(Len(page.vals)))]
  ELSE BadPage

(* The reader of this writer's columns has no levels to look for.          *)
NoStrip == FALSE

LEMMA DecodeBare ==
  ASSUME NEW h, NEW body, NEW codec
  PROVE  DecodePage(h, body, codec, NoStrip) =
           IF h.uncompressed < 0 THEN BadPage
           ELSE IF body = << >>
             THEN IF h.kind = "coded" THEN BadPage ELSE [kind |-> h.kind, vals |-> << >>]
           ELSE IF IsWhole(body, "body") /\ body[1].of.codec = IF h.packed THEN codec ELSE "plain"
             THEN Counted(h, body[1].of.page)
           ELSE BadPage
<1>1. ~(NoStrip /\ h.v1 /\ IsData(h))
  BY DEF NoStrip
<1> QED BY <1>1 DEF DecodePage

(* A page whose sizes its header can state is walked, as many of its       *)
(* indices as the header says; any other is refused, or taken for an empty *)
(* one before a page that is refused.                                      *)
LEMMA WalkPage ==
  ASSUME NEW page \in Page, BodyLen(page) \in Nat, NEW codec, NEW version,
         NEW bytes, IsSeq(bytes), NEW pos \in Nat,
         LiesAt(bytes, pos, PageUnits(page, codec, version))
  PROVE  /\ Statable(page, codec) =>
              /\ Takes(bytes, pos) /\ PageAt(bytes, pos, codec, NoStrip) = AsRead(page)
              /\ PageEnd(bytes, pos) = pos + Len(PageUnits(page, codec, version))
         /\ ~Statable(page, codec) =>
              \/ ~Takes(bytes, pos)
              \/ PageAt(bytes, pos, codec, NoStrip) = BadPage
              \/ /\ PageAt(bytes, pos, codec, NoStrip) = [kind |-> page.kind, vals |-> << >>]
                 /\ PageEnd(bytes, pos) = pos + 1 /\ pos + 1 < Len(bytes)
                 /\ ~Takes(bytes, pos + 1)
<1> DEFINE u    == PageUnits(page, codec, version)
           raw  == BodyLen(page)
           size == CompressedLen(raw, codec)
           n    == Len(bytes)
           h    == bytes[pos + 1].of
           c    == AsI32(size)
           body == SubSeq(bytes, pos + 2, PageEnd(bytes, pos))
           of   == [page |-> page, behind |-> BadPage, codec |-> codec]
           rows == AsI32(Len(page.vals))
<1>1. /\ Len(u) = 1 + size /\ size \in Nat /\ raw \in Nat
      /\ u[1].piece = "header" /\ u[1].of.kind = page.kind
      /\ u[1].of.compressed = c /\ u[1].of.uncompressed = AsI32(raw)
      /\ u[1].of.packed = (version = "v1" \/ codec # "plain") /\ u[1].of.count = rows
      /\ \A k \in 1..size : /\ u[1 + k].piece = "body" /\ u[1 + k].at = k
                            /\ u[1 + k].len = size /\ u[1 + k].of = of
  BY UnitsOfPage
<1>2. n \in Nat /\ pos + 1 + size <= n /\ \A i \in 1..(1 + size) : bytes[pos + i] = u[i]
  <2>1. n \in Nat
    BY DEF IsSeq
  <2> HIDE DEF size, u
  <2> QED BY <1>1, <2>1 DEF LiesAt, u
<1>3. /\ size < PageCap => c = size
      /\ PageCap <= size => c < size
      /\ c \in Int
      /\ raw < PageCap => AsI32(raw) = raw
      /\ AsI32(raw) \in Int
      /\ PageCap <= raw /\ raw < 2 * PageCap => AsI32(raw) < 0
  BY <1>1, AsSigned
<1>4. /\ size = 0 => raw = 0
      /\ size < PageCap => raw < 2 * PageCap
  BY <1>1, CompressedIs
<1>15. page.kind = "coded" => raw >= 1
  <2>1. Len(page.vals) \in Nat
    BY PageIs
  <2> QED BY <2>1, RunsCounted DEF raw, BodyLen
<1>16. rows \in Int
  BY PageIs, AsSigned
<1> HIDE DEF u, raw, size, n, c, of, rows
<1>5. /\ bytes[pos + 1].piece = "header" /\ h.kind = page.kind
      /\ h.compressed = c /\ h.uncompressed = AsI32(raw)
      /\ h.packed = (version = "v1" \/ codec # "plain") /\ h.count = rows
      /\ \A k \in 1..size : /\ bytes[pos + 1 + k].piece = "body" /\ bytes[pos + 1 + k].at = k
                            /\ bytes[pos + 1 + k].len = size /\ bytes[pos + 1 + k].of = of
  <2>1. 1 \in 1..(1 + size) /\ bytes[pos + 1] = u[1]
    BY <1>1, <1>2
  <2>2. ASSUME NEW k \in 1..size PROVE bytes[pos + 1 + k] = u[1 + k]
    <3>1. 1 + k \in 1..(1 + size) /\ pos + (1 + k) = pos + 1 + k
      BY <1>1
    <3> QED BY <1>2, <3>1
  <2> QED BY <1>1, <2>1, <2>2
<1>6. PageEnd(bytes, pos) = pos + 1 + c
  BY <1>5 DEF PageEnd
<1>7. Takes(bytes, pos) <=> c >= 0 /\ pos + 1 + c <= n
  BY <1>5, <1>6 DEF Takes, n
<1>8. ASSUME c >= 0, c <= size
      PROVE  /\ Takes(bytes, pos) /\ IsSeq(body) /\ Len(body) = c
             /\ \A k \in 1..c : /\ body[k].piece = "body" /\ body[k].at = k
                                /\ body[k].len = size /\ body[k].of = of
  <2>1. Takes(bytes, pos)
    BY <1>1, <1>2, <1>3, <1>7, <1>8
  <2>2. /\ pos + 1 \in Nat /\ c \in Nat /\ (pos + 1) + 1 = pos + 2 /\ (pos + 1) + c <= Len(bytes)
    BY <1>1, <1>2, <1>3, <1>8 DEF n
  <2>3. body = Bytes(bytes, pos + 1, c)
    BY <1>6, <2>2 DEF Bytes
  <2> HIDE DEF body
  <2>4. /\ IsSeq(body) /\ Len(body) = c
        /\ \A k \in 1..c : body[k] = bytes[pos + 1 + k]
    <3> DEFINE at == pos + 1
    <3>1. at \in Nat /\ c \in Nat /\ at + c <= Len(bytes) /\ IsSeq(bytes)
      BY <2>2
    <3> HIDE DEF at
    <3>2. /\ IsSeq(Bytes(bytes, at, c)) /\ Len(Bytes(bytes, at, c)) = c
          /\ \A k \in 1..c : Bytes(bytes, at, c)[k] = bytes[at + k]
      BY <3>1, SliceOf
    <3> QED BY <2>3, <3>2 DEF at
  <2>5. \A k \in 1..c : k \in 1..size
    BY <1>1, <1>3, <1>8
  <2>6. ASSUME NEW k \in 1..c
        PROVE  body[k].piece = "body" /\ body[k].at = k /\ body[k].len = size /\ body[k].of = of
    <3>1. body[k] = bytes[pos + 1 + k] /\ k \in 1..size
      BY <2>4, <2>5
    <3> QED BY <1>5, <3>1
  <2> QED BY <2>1, <2>4, <2>6
<1>9. PageAt(bytes, pos, codec, NoStrip) = DecodePage(h, body, codec, NoStrip)
  BY DEF PageAt
<1> HIDE DEF h, body
<1>10. ASSUME AsI32(raw) < 0 PROVE PageAt(bytes, pos, codec, NoStrip) = BadPage
  BY <1>3, <1>5, <1>9, <1>10, DecodeBare
<1>11. ASSUME AsI32(raw) >= 0, c = 0, 0 <= size
       PROVE  PageAt(bytes, pos, codec, NoStrip) =
                IF page.kind = "coded" THEN BadPage ELSE [kind |-> page.kind, vals |-> << >>]
  <2>1. body = << >>
    BY <1>8, <1>11 DEF IsSeq
  <2> QED BY <1>3, <1>5, <1>9, <1>11, <2>1, DecodeBare
<1>12. ASSUME AsI32(raw) >= 0, 0 < c, c <= size
       PROVE  PageAt(bytes, pos, codec, NoStrip) = IF c = size THEN AsRead(page) ELSE BadPage
  <2>1. body # << >> /\ 1 \in 1..c /\ DOMAIN body = 1..c /\ Len(body) = c
    <3>1. PICK S : body \in Seq(S)
      BY <1>3, <1>8, <1>12 DEF IsSeq
    <3> QED BY <1>3, <1>8, <1>12, <3>1
  <2>2. /\ \A k \in 1..c : /\ body[k].piece = "body" /\ body[k].at = k
                           /\ body[k].len = size /\ body[k].of = of
    BY <1>3, <1>8, <1>12
  <2>3. IsWhole(body, "body") <=> size = c
    BY <2>1, <2>2 DEF IsWhole
  <2>4. body[1].of.page = page /\ body[1].of.codec = codec
    BY <2>1, <2>2 DEF of
  <2>5. (IF h.packed THEN codec ELSE "plain") = codec
    BY <1>5
  <2>6. Counted(h, page) = AsRead(page)
    BY <1>5, <1>16, CountedIs DEF AsRead, rows
  <2> QED BY <1>3, <1>5, <1>9, <1>12, <2>1, <2>3, <2>4, <2>5, <2>6, DecodeBare
<1>13. ASSUME Statable(page, codec)
       PROVE  /\ Takes(bytes, pos) /\ PageAt(bytes, pos, codec, NoStrip) = AsRead(page)
              /\ PageEnd(bytes, pos) = pos + Len(u)
  <2>1. raw < PageCap /\ size < PageCap /\ c = size /\ AsI32(raw) = raw
    BY <1>3, <1>13 DEF Statable, raw, size
  <2>2. Takes(bytes, pos)
    BY <1>1, <1>8, <2>1
  <2>3. CASE size = 0
    <3>1. raw = 0
      BY <1>4, <2>3
    <3>2. page = [kind |-> page.kind, vals |-> << >>] /\ page.kind # "coded"
      <4>1. page.vals \in Seq(Int) /\ page = [kind |-> page.kind, vals |-> page.vals]
        BY DEF Page
      <4>2. Len(page.vals) = 0
        BY <1>15, <3>1, <4>1 DEF raw, BodyLen
      <4> QED BY <1>15, <3>1, <4>1, <4>2
    <3>3. PageAt(bytes, pos, codec, NoStrip) = [kind |-> page.kind, vals |-> << >>]
      BY <1>11, <2>1, <2>3, <3>1, <3>2
    <3> QED BY <1>1, <1>6, <2>1, <2>2, <3>2, <3>3 DEF AsRead
  <2>4. CASE size > 0
    <3>1. PageAt(bytes, pos, codec, NoStrip) = AsRead(page)
      BY <1>1, <1>12, <2>1, <2>4
    <3> QED BY <1>1, <1>6, <2>1, <2>2, <3>1
  <2> QED BY <1>1, <2>3, <2>4
<1>14. ASSUME ~Statable(page, codec), Takes(bytes, pos), PageAt(bytes, pos, codec, NoStrip) # BadPage
       PROVE  /\ PageAt(bytes, pos, codec, NoStrip) = [kind |-> page.kind, vals |-> << >>]
              /\ PageEnd(bytes, pos) = pos + 1 /\ pos + 1 < n
              /\ ~Takes(bytes, pos + 1)
  <2>1. AsI32(raw) >= 0 /\ c >= 0
    BY <1>3, <1>7, <1>10, <1>14
  <2>2. ~(size < PageCap)
    <3>1. ASSUME size < PageCap PROVE FALSE
      <4>1. ~(raw < PageCap) /\ raw < 2 * PageCap
        BY <1>4, <1>14, <3>1 DEF Statable, raw, size
      <4>2. PageCap <= raw
        BY <1>1, <4>1, PageCapAssumption
      <4> QED BY <1>3, <2>1, <4>1, <4>2
    <3> QED BY <3>1
  <2>3. PageCap <= size /\ c < size
    BY <1>1, <1>3, <2>2, PageCapAssumption
  <2>4. c = 0
    BY <1>1, <1>3, <1>12, <1>14, <2>1, <2>3
  <2>5. size >= 1 /\ bytes[pos + 1 + 1].piece = "body" /\ pos + 1 < n
    BY <1>1, <1>2, <1>5, <2>3, PageCapAssumption
  <2>6. ~Takes(bytes, pos + 1)
    BY <2>5 DEF Takes
  <2>7. PageAt(bytes, pos, codec, NoStrip) = [kind |-> page.kind, vals |-> << >>]
    <3>1. PageAt(bytes, pos, codec, NoStrip) =
            IF page.kind = "coded" THEN BadPage ELSE [kind |-> page.kind, vals |-> << >>]
      BY <1>1, <1>11, <2>1, <2>4
    <3> QED BY <1>14, <3>1
  <2>8. PageEnd(bytes, pos) = pos + 1
    BY <1>6, <2>4
  <2> QED BY <2>5, <2>6, <2>7, <2>8
<1> QED BY <1>13, <1>14 DEF u, n

-----------------------------------------------------------------------------
(* The one-shot reader.                                                    *)

(* Once it is done, or has failed, it stays as it is.                      *)
LEMMA Settled ==
  ASSUME NEW pages, IntPages(pages), NEW total \in Int, NEW j \in 0..Len(pages),
         After(pages, total)[j].err \/ After(pages, total)[j].done
  PROVE  OneShot(pages, total) = After(pages, total)[j]
<1> DEFINE n == Len(pages)
           h == After(pages, total)
           P == {k \in 0..n : k < j \/ h[k] = h[j]}
<1>1. n \in Nat /\ j \in 0..n /\ \A k \in 1..n : h[k] = ReadPage(h[k - 1], pages[k], total)
  BY AfterPages DEF IntPages
<1> HIDE DEF n, h
<1>2. 0 \in P
  BY <1>1
<1>3. ASSUME NEW k \in 0..(n - 1), k \in P PROVE k + 1 \in P
  <2>1. k + 1 \in 1..n /\ (k + 1) - 1 = k
    BY <1>1
  <2>2. h[k + 1] = ReadPage(h[k], pages[k + 1], total)
    BY <1>1, <2>1
  <2>3. CASE k >= j
    <3>1. h[k] = h[j]
      BY <1>1, <1>3, <2>3
    <3>2. h[k + 1] = h[k]
      BY <2>2, <3>1 DEF ReadPage, h
    <3> QED BY <2>1, <3>1, <3>2
  <2>4. CASE ~(k >= j)
    <3>1. k + 1 < j \/ k + 1 = j
      BY <1>1, <2>4
    <3> QED BY <2>1, <3>1
  <2> QED BY <2>3, <2>4
<1> HIDE DEF P
<1>4. n \in P
  <2>1. \A k \in 0..(n - 1) : k \in P => k + 1 \in P
    BY <1>3
  <2>2. n \in Nat /\ n \in 0..n
    BY <1>1
  <2> HIDE DEF n
  <2>3. \A k \in 0..n : k \in P
    BY <1>2, <2>1, <2>2, Climb
  <2> QED BY <2>2, <2>3
<1>5. h[n] = h[j]
  BY <1>1, <1>4 DEF P
<1> QED BY <1>5 DEF OneShot, n, h

(* Pages that bring no row.                                                *)
Barren(page) == page.kind = "dict" \/ page.vals = << >>

(* A chunk whose first page with a row, if there is one, comes behind a    *)
(* page that cannot be decoded.                                            *)
Lost(pages) ==
  \E j \in 1..Len(pages) : /\ pages[j].kind = "bad"
                          /\ \A i \in 1..(j - 1) : Barren(pages[i])

LEMMA BarrenReads ==
  ASSUME NEW s \in ReaderStates, ~s.done, s.out = << >>, NEW page \in Page, Barren(page),
         NEW total \in Nat \ {0}
  PROVE  ~ReadPage(s, page, total).done /\ ReadPage(s, page, total).out = << >>
<1> DEFINE ok  == IsData(page) => Decodable(page, s.dict)
           got == IF IsData(page) /\ ok THEN s.out \o PageRows(page, s.dict) ELSE s.out
<1>1. page.vals \in Seq(Int) /\ s.dict \in Seq(Int)
  BY DEF ReaderStates, Page
<1>2. got = << >>
  <2>1. CASE IsData(page) /\ ok
    <3>1. page.vals = << >>
      BY <2>1 DEF IsData, Barren
    <3>2. PageRows(page, s.dict) \in Seq(Int) /\ Len(PageRows(page, s.dict)) = Len(page.vals)
      BY <1>1, <2>1, PageRowsType
    <3>3. PageRows(page, s.dict) = << >>
      BY <3>1, <3>2
    <3> QED BY <2>1, <3>3
  <2> QED BY <2>1
<1>3. CASE s.err
  BY <1>3 DEF ReadPage
<1>4. CASE ~s.err
  <2>1. /\ ReadPage(s, page, total).out = got
        /\ ReadPage(s, page, total).done = (Len(got) >= total)
    BY <1>4 DEF ReadPage
  <2>2. ~(Len(got) >= total)
    BY <1>2
  <2> QED BY <1>2, <2>1, <2>2
<1> QED BY <1>3, <1>4

(* Reading such a chunk is an error, unless it is to have no rows.         *)
LEMMA LostFails ==
  ASSUME NEW pages \in Seq(Page), Lost(pages), NEW total \in Nat \ {0}
  PROVE  OneShot(pages, total).err
<1> DEFINE n == Len(pages)
           h == After(pages, total)
<1>1. PICK j \in 1..n : pages[j].kind = "bad" /\ \A i \in 1..(j - 1) : Barren(pages[i])
  BY DEF Lost
<1> DEFINE P == {k \in 0..(j - 1) : ~h[k].done /\ h[k].out = << >>}
<1>2. /\ n \in Nat /\ h \in [0..n -> ReaderStates] /\ h[0] = Opening
      /\ \A k \in 1..n : h[k] = ReadPage(h[k - 1], pages[k], total)
  BY PagesAreInt, AfterPages
<1>3. \A k \in 1..n : pages[k] \in Page
  OBVIOUS
<1> HIDE DEF n, h
<1>4. 0 \in P
  BY <1>2 DEF Opening
<1>5. ASSUME NEW k \in 0..((j - 1) - 1), k \in P PROVE k + 1 \in P
  <2>1. k + 1 \in 1..n /\ (k + 1) - 1 = k /\ k + 1 \in 1..(j - 1) /\ k \in 0..n
    BY <1>2
  <2>2. h[k + 1] = ReadPage(h[k], pages[k + 1], total) /\ h[k] \in ReaderStates
    BY <1>2, <2>1
  <2>3. Barren(pages[k + 1]) /\ pages[k + 1] \in Page
    BY <1>1, <1>3, <2>1
  <2>4. ~h[k].done /\ h[k].out = << >>
    BY <1>5
  <2>5. ~h[k + 1].done /\ h[k + 1].out = << >>
    BY <2>2, <2>3, <2>4, BarrenReads
  <2> QED BY <2>1, <2>5
<1> HIDE DEF P
<1>6. j - 1 \in P
  <2> DEFINE m == j - 1
  <2>1. m \in Nat /\ m \in 0..m
    BY <1>2
  <2>2. \A k \in 0..(m - 1) : k \in P => k + 1 \in P
    BY <1>5
  <2> HIDE DEF m
  <2>3. \A k \in 0..m : k \in P
    BY <1>4, <2>1, <2>2, Climb
  <2> QED BY <2>1, <2>3 DEF m
<1>7. ~h[j - 1].done
  BY <1>6 DEF P
<1>8. h[j] = ReadPage(h[j - 1], pages[j], total) /\ j \in 0..n
  BY <1>2
<1>9. h[j].err
  <2>1. \A s, p : p.kind = "bad" /\ ~s.done => ReadPage(s, p, total).err
    BY DEF ReadPage
  <2> QED BY <1>1, <1>7, <1>8, <2>1
<1> QED BY <1>8, <1>9, PagesAreInt, Settled DEF h, n

LEMMA LostHere ==
  ASSUME NEW r \in Seq(Page)
  PROVE  Lost(<<BadPage>> \o r)
<1>1. /\ (<<BadPage>> \o r)[1] = BadPage /\ 1 \in 1..Len(<<BadPage>> \o r)
      /\ \A i \in 1..(1 - 1) : FALSE
  BY BadIsPage
<1> QED BY <1>1 DEF Lost, BadPage

LEMMA LostBehind ==
  ASSUME NEW r \in Seq(Page), Lost(r), NEW page \in Page, Barren(page)
  PROVE  Lost(<<page>> \o r)
<1> DEFINE u == <<page>> \o r
           n == Len(r)
<1>1. PICK j \in 1..n : r[j].kind = "bad" /\ \A i \in 1..(j - 1) : Barren(r[i])
  BY DEF Lost
<1>2. n \in Nat /\ Len(u) = 1 + n /\ u[1] = page /\ \A i \in 1..n : u[i + 1] = r[i]
  OBVIOUS
<1> HIDE DEF u, n
<1>3. j + 1 \in 1..Len(u) /\ u[j + 1].kind = "bad"
  BY <1>1, <1>2
<1>4. ASSUME NEW i \in 1..((j + 1) - 1) PROVE Barren(u[i])
  <2>1. CASE i = 1
    BY <1>2, <2>1
  <2>2. CASE i # 1
    <3>1. i - 1 \in 1..(j - 1) /\ i - 1 \in 1..n /\ (i - 1) + 1 = i
      BY <1>2, <2>2
    <3>2. u[(i - 1) + 1] = r[i - 1]
      BY <1>2, <3>1
    <3> QED BY <1>1, <3>1, <3>2
  <2> QED BY <2>1, <2>2
<1> QED BY <1>3, <1>4 DEF Lost, u

(* The walk from an outgrown page on.                                      *)
LEMMA WalkLost ==
  ASSUME NEW page \in Page, BodyLen(page) \in Nat, NEW codec, NEW version,
         NEW bytes, IsSeq(bytes), IsUnits(bytes), NEW pos \in 0..(Len(bytes) - 1),
         LiesAt(bytes, pos, PageUnits(page, codec, version)), ~Statable(page, codec)
  PROVE  Lost(PagesFrom(bytes, codec, NoStrip)[pos])
<1> DEFINE f == PagesFrom(bytes, codec, NoStrip)
           n == Len(bytes)
<1>1. bytes = [i \in 1..Len(bytes) |-> bytes[i]]
  BY DEF IsSeq
<1>2. /\ f \in [0..n -> Seq(Page)] /\ n \in Nat
      /\ \A p \in 0..(n - 1) :
           /\ ~Takes(bytes, p) => f[p] = <<BadPage>>
           /\ Takes(bytes, p) => /\ PageEnd(bytes, p) \in (p + 1)..n
                                /\ PageAt(bytes, p, codec, NoStrip) \in Page
                                /\ f[p] = <<PageAt(bytes, p, codec, NoStrip)>> \o f[PageEnd(bytes, p)]
  BY <1>1, WalkPages DEF IsUnits
<1>3. \/ ~Takes(bytes, pos)
      \/ PageAt(bytes, pos, codec, NoStrip) = BadPage
      \/ /\ PageAt(bytes, pos, codec, NoStrip) = [kind |-> page.kind, vals |-> << >>]
         /\ PageEnd(bytes, pos) = pos + 1 /\ pos + 1 < n
         /\ ~Takes(bytes, pos + 1)
  <2>1. pos \in Nat
    BY <1>2
  <2> QED BY <2>1, WalkPage
<1> HIDE DEF f, n
<1>4. << >> \in Seq(Page) /\ <<BadPage>> = <<BadPage>> \o << >>
  BY BadIsPage
<1>5. Lost(<<BadPage>>)
  BY <1>4, LostHere
<1>6. CASE ~Takes(bytes, pos)
  BY <1>2, <1>5, <1>6 DEF n, f
<1>7. ASSUME Takes(bytes, pos)
      PROVE  /\ f[pos] = <<PageAt(bytes, pos, codec, NoStrip)>> \o f[PageEnd(bytes, pos)]
             /\ f[PageEnd(bytes, pos)] \in Seq(Page) /\ PageAt(bytes, pos, codec, NoStrip) \in Page
  <2>1. pos \in 0..(n - 1)
    BY DEF n
  <2>2. PageEnd(bytes, pos) \in 0..n
    <3>1. PageEnd(bytes, pos) \in (pos + 1)..n
      BY <1>2, <1>7, <2>1
    <3> DEFINE e == PageEnd(bytes, pos)
    <3> HIDE DEF e
    <3>2. e \in (pos + 1)..n => e \in 0..n
      BY <1>2, <2>1
    <3> QED BY <3>1, <3>2 DEF e
  <2> QED BY <1>2, <1>7, <2>1, <2>2
<1>8. CASE Takes(bytes, pos) /\ PageAt(bytes, pos, codec, NoStrip) = BadPage
  BY <1>7, <1>8, LostHere DEF f
<1>9. CASE /\ Takes(bytes, pos) /\ PageAt(bytes, pos, codec, NoStrip) = [kind |-> page.kind, vals |-> << >>]
           /\ PageEnd(bytes, pos) = pos + 1 /\ pos + 1 < n
           /\ ~Takes(bytes, pos + 1)
  <2>1. pos + 1 \in 0..(n - 1)
    BY <1>2, <1>9 DEF n
  <2>2. f[pos + 1] = <<BadPage>>
    BY <1>2, <1>9, <2>1
  <2>3. Barren(PageAt(bytes, pos, codec, NoStrip))
    BY <1>9 DEF Barren
  <2>4. Lost(f[PageEnd(bytes, pos)])
    BY <1>5, <1>9, <2>2
  <2>5. Lost(<<PageAt(bytes, pos, codec, NoStrip)>> \o f[PageEnd(bytes, pos)])
    BY <1>7, <1>9, <2>3, <2>4, LostBehind
  <2> QED BY <1>7, <1>9, <2>5 DEF f
<1> QED BY <1>3, <1>6, <1>8, <1>9

-----------------------------------------------------------------------------
(* Reading a chunk as it was written.                                      *)

LEMMA ReadPlain ==
  ASSUME NEW vals \in Seq(Int), NEW pages, pages = <<[kind |-> "plain", vals |-> vals]>>
  PROVE  OneShot(pages, Len(vals)).out = vals /\ ~OneShot(pages, Len(vals)).err
<1> DEFINE page == [kind |-> "plain", vals |-> vals]
           total == Len(vals)
           h == After(pages, total)
<1>1. /\ pages = <<page>> /\ Len(pages) = 1 /\ pages[1] = page /\ page \in Page
      /\ pages \in Seq(Page) /\ total \in Nat
  BY DEF Page, PageKinds
<1>2. h[0] = Opening /\ h[1] = ReadPage(h[1 - 1], pages[1], total)
  <2> HIDE DEF page, total, h
  <2>1. 1 \in 1..Len(pages) /\ pages \in Seq(Page) /\ total \in Int
    BY <1>1
  <2>2. IntPages(pages)
    BY <2>1, PagesAreInt
  <2>3. /\ After(pages, total)[0] = Opening
        /\ \A k \in 1..Len(pages) :
             After(pages, total)[k] = ReadPage(After(pages, total)[k - 1], pages[k], total)
    BY <2>1, <2>2, AfterPages
  <2> QED BY <2>1, <2>3 DEF h
<1>3. h[1] = ReadPage(Opening, page, total)
  BY <1>1, <1>2
<1>4. << >> \o vals = vals
  OBVIOUS
<1>5. /\ ~Opening.err /\ ~Opening.done /\ Opening.out = << >> /\ page.kind = "plain"
      /\ page.vals = vals
  BY DEF Opening
<1>6. IsData(page) /\ Decodable(page, Opening.dict) /\ PageRows(page, Opening.dict) = vals
  BY <1>5 DEF IsData, Decodable, PageRows
<1> HIDE DEF page
<1>7. ReadPage(Opening, page, total).out = vals /\ ~ReadPage(Opening, page, total).err
  BY <1>4, <1>5, <1>6 DEF ReadPage
<1> QED BY <1>1, <1>3, <1>7 DEF OneShot

LEMMA ReadCoded ==
  ASSUME NEW vals \in Seq(Int), NEW n \in 0..Len(vals), NEW pages,
         pages = <<DictPageOf(vals), [kind |-> "coded", vals |-> SubSeq(Indices(vals), 1, n)]>>
  PROVE  /\ OneShot(pages, Len(vals)).out = SubSeq(vals, 1, n)
         /\ ~OneShot(pages, Len(vals)).err
<1> DEFINE D == Dictionary(vals)
           X == Indices(vals)
           Y == SubSeq(X, 1, n)
           first == SubSeq(vals, 1, n)
           dict == [kind |-> "dict", vals |-> D]
           data == [kind |-> "coded", vals |-> Y]
           total == Len(vals)
           h == After(pages, total)
<1>1. /\ D \in Seq(Int) /\ X \in Seq(Int) /\ Len(X) = total /\ total \in Nat
      /\ \A k \in 1..total : X[k] \in 0..(Len(D) - 1) /\ D[X[k] + 1] = vals[k]
  BY DictionarySpells
<1> HIDE DEF D, X
<1>12. Y \in Seq(Int) /\ Len(Y) = n /\ \A k \in 1..n : Y[k] = X[k]
  <2>1. \A k \in 1..n : X[k] \in Int
    BY <1>1
  <2> QED BY <1>1, <2>1, SubSeqProperties
<1>14. n \in 0..total
  OBVIOUS
<1>13. first = [i \in 1..n |-> vals[i]] /\ n \in Nat /\ (total = 0 => n = 0)
  <2>1. \A k \in 1..n : vals[k] \in Int
    BY <1>1
  <2>2. first \in Seq(Int) /\ Len(first) = n /\ \A k \in 1..n : first[k] = vals[k]
    BY <1>1, <2>1, SubSeqProperties
  <2> HIDE DEF first
  <2> QED BY <1>1, <2>2
<1> HIDE DEF total, Y, first
<1>2. /\ dict.kind = "dict" /\ dict.vals = D /\ data.kind = "coded" /\ data.vals = Y
      /\ dict \in Page /\ data \in Page
  BY <1>1, <1>12 DEF Page, PageKinds
<1>3. pages = <<dict, data>>
  BY DEF DictPageOf, D, X, Y
<1> HIDE DEF dict, data
<1>4. /\ Len(pages) = 2 /\ pages[1] = dict /\ pages[2] = data /\ pages \in Seq(Page)
  BY <1>2, <1>3
<1>5. /\ h[0] = Opening
      /\ \A k \in 1..Len(pages) : h[k] = ReadPage(h[k - 1], pages[k], total)
  <2> HIDE DEF h
  <2>1. pages \in Seq(Page) /\ total \in Int
    BY <1>1, <1>4
  <2>2. IntPages(pages)
    BY <2>1, PagesAreInt
  <2>3. /\ After(pages, total)[0] = Opening
        /\ \A k \in 1..Len(pages) :
             After(pages, total)[k] = ReadPage(After(pages, total)[k - 1], pages[k], total)
    BY <2>1, <2>2, AfterPages
  <2> QED BY <2>3 DEF h
<1>6. h[1] = ReadPage(Opening, dict, total) /\ h[2] = ReadPage(h[1], data, total)
  <2>1. 1 \in 1..Len(pages) /\ 2 \in 1..Len(pages) /\ 1 - 1 = 0 /\ 2 - 1 = 1
    BY <1>4
  <2>2. h[1] = ReadPage(h[1 - 1], pages[1], total) /\ h[2] = ReadPage(h[2 - 1], pages[2], total)
    BY <1>5, <2>1
  <2> QED BY <1>4, <1>5, <2>1, <2>2
<1>7. /\ ~Opening.err /\ ~Opening.done /\ Opening.out = << >> /\ ~IsData(dict)
  BY <1>2 DEF Opening, IsData
<1>8. /\ h[1].out = << >> /\ h[1].dict = D /\ h[1].err = FALSE
      /\ h[1].done = (Len(<< >>) >= total)
  <2>1. ReadPage(Opening, dict, total) =
          [out |-> << >>, dict |-> D, err |-> FALSE, done |-> Len(<< >>) >= total]
    BY <1>2, <1>7 DEF ReadPage
  <2> DEFINE r == [out |-> << >>, dict |-> D, err |-> FALSE, done |-> Len(<< >>) >= total]
  <2>2. /\ r.out = << >> /\ r.dict = D /\ r.err = FALSE
        /\ r.done = (Len(<< >>) >= total)
    OBVIOUS
  <2> HIDE DEF r, h
  <2>3. h[1] = r
    BY <1>6, <2>1 DEF r
  <2> QED BY <2>2, <2>3
<1> HIDE DEF h
<1>9. OneShot(pages, total) = h[2]
  BY <1>4 DEF OneShot, h
<1>10. CASE total = 0
  <2>1. h[1].done
    <3>1. Len(<< >>) >= total
      BY <1>10
    <3> QED BY <1>8, <3>1
  <2>2. h[2] = h[1]
    BY <1>6, <2>1 DEF ReadPage
  <2>3. first = << >>
    BY <1>10, <1>13
  <2> QED BY <1>8, <1>9, <2>2, <2>3 DEF total, first
<1>11. CASE total # 0
  <2>1. ~h[1].done /\ ~h[1].err
    <3>1. ~(Len(<< >>) >= total)
      BY <1>1, <1>11
    <3> QED BY <1>8, <3>1
  <2>2. Decodable(data, h[1].dict) /\ IsData(data)
    <3>1. 1 \in 1..total /\ X[1] \in 0..(Len(D) - 1)
      BY <1>1, <1>11
    <3>2. D # << >>
      BY <1>1, <3>1
    <3>3. \A k \in 1..Len(Y) : Y[k] \in 0..(Len(D) - 1)
      BY <1>1, <1>12, <1>14
    <3> QED BY <1>2, <1>8, <3>2, <3>3 DEF Decodable, IsData
  <2>3. PageRows(data, h[1].dict) = first
    <3>1. PageRows(data, D) = [i \in 1..n |-> D[Y[i] + 1]]
      BY <1>2, <1>12 DEF PageRows
    <3>2. ASSUME NEW i \in 1..n PROVE D[Y[i] + 1] = vals[i]
      <4>1. i \in 1..total /\ Y[i] = X[i]
        BY <1>1, <1>12, <1>14
      <4> QED BY <1>1, <4>1
    <3> QED BY <1>8, <1>13, <3>1, <3>2
  <2>4. << >> \o first = first
    <3>1. first \in Seq(Int)
      <4>1. \A k \in 1..n : vals[k] \in Int
        BY <1>1 DEF total
      <4> QED BY <1>13, <4>1
    <3> QED BY <3>1
  <2>5. h[2].out = first /\ ~h[2].err
    <3> DEFINE s == h[1]
    <3>1. /\ ~s.done /\ ~s.err /\ s.out = << >> /\ IsData(data) /\ Decodable(data, s.dict)
          /\ PageRows(data, s.dict) = first /\ data.kind # "bad"
      BY <1>2, <1>8, <2>1, <2>2, <2>3
    <3>2. h[2] = ReadPage(s, data, total)
      BY <1>6
    <3> HIDE DEF s
    <3>3. ReadPage(s, data, total).out = first /\ ~ReadPage(s, data, total).err
      BY <2>4, <3>1 DEF ReadPage
    <3> QED BY <3>2, <3>3
  <2> QED BY <1>9, <2>5 DEF total, first
<1> QED BY <1>10, <1>11

(* The pages of a column chunk.                                            *)
LEMMA PagesTyped ==
  ASSUME NEW c, NEW vals \in Seq(Int)
  PROVE  /\ DictPageOf(vals) \in Page /\ DataPageOf(c, vals) \in Page
         /\ BodyLen(DictPageOf(vals)) \in Nat /\ BodyLen(DataPageOf(c, vals)) \in Nat
         /\ vals = << >> => BodyLen(DictPageOf(vals)) = 0 /\ BodyLen(DataPageOf(c, vals)) <= 1
<1>1. /\ Dictionary(vals) \in Seq(Int) /\ Indices(vals) \in Seq(Int)
      /\ Len(Indices(vals)) = Len(vals)
  BY DictionarySpells
<1>2. DictPageOf(vals) \in Page /\ DataPageOf(c, vals) \in Page
  BY <1>1 DEF DictPageOf, DataPageOf, Page, PageKinds
<1>3. /\ BodyLen(DictPageOf(vals)) = Len(Dictionary(vals))
      /\ BodyLen(DataPageOf(c, vals)) =
           IF IsDict(c) THEN 1 + Cardinality(Runs(Indices(vals))) ELSE Len(vals)
  BY <1>1 DEF BodyLen, DictPageOf, DataPageOf
<1>6. Cardinality(Runs(Indices(vals))) \in 0..Len(vals)
  BY <1>1, RunsCounted
<1>4. vals = << >> => Len(Dictionary(vals)) = 0
  <2> SUFFICES ASSUME vals = << >> PROVE Len(Dictionary(vals)) = 0
    OBVIOUS
  <2>1. Firsts(vals) = {}
    BY DEF Firsts
  <2>2. Cardinality(Firsts(vals)) = 0
    BY <2>1, FS_EmptySet
  <2> DEFINE entry(e) == vals[CHOOSE k \in Firsts(vals) : Cardinality(Firsts(vals) \cap (1..k)) = e]
  <2>3. Dictionary(vals) = [e \in 1..0 |-> entry(e)]
    BY <2>2 DEF Dictionary
  <2> HIDE DEF entry
  <2>4. Dictionary(vals) = << >>
    BY <2>3
  <2> QED BY <2>4
<1>5. Len(Dictionary(vals)) \in Nat /\ Len(vals) \in Nat /\ (vals = << >> => Len(vals) = 0)
  BY <1>1
<1> QED BY <1>2, <1>3, <1>4, <1>5, <1>6

LEMMA UnitsTyped ==
  ASSUME NEW page \in Page, BodyLen(page) \in Nat, NEW codec, NEW version
  PROVE  IsUnits(PageUnits(page, codec, version))
<1> DEFINE u == PageUnits(page, codec, version)
           raw == BodyLen(page)
           size == CompressedLen(raw, codec)
<1>1. /\ Len(u) = 1 + size /\ size \in Nat /\ raw \in Nat
      /\ u[1].piece = "header" /\ u[1].of.kind = page.kind
      /\ u[1].of.compressed = AsI32(size) /\ u[1].of.uncompressed = AsI32(raw)
      /\ u[1].of.count = AsI32(Len(page.vals))
      /\ \A k \in 1..size : /\ u[1 + k].piece = "body"
                            /\ u[1 + k].of = [page |-> page, behind |-> BadPage, codec |-> codec]
  BY UnitsOfPage
<1>2. AsI32(size) \in Int /\ AsI32(raw) \in Int /\ page.kind \in PageKinds
      /\ AsI32(Len(page.vals)) \in Int
  BY <1>1, PageIs, AsSigned
<1> HIDE DEF u, raw, size
<1>3. ASSUME NEW i \in 1..Len(u)
      PROVE  /\ u[i].piece = "header" => /\ u[i].of.kind \in PageKinds
                                         /\ u[i].of.compressed \in Int
                                         /\ u[i].of.uncompressed \in Int
                                         /\ u[i].of.count \in Int
             /\ u[i].piece = "body" => u[i].of.page \in Page /\ u[i].of.behind \in Page
  <2>1. CASE i = 1
    BY <1>1, <1>2, <2>1
  <2>2. CASE i # 1
    <3>1. i - 1 \in 1..size /\ 1 + (i - 1) = i
      BY <1>1, <2>2
    <3>2. /\ u[1 + (i - 1)].piece = "body"
          /\ u[1 + (i - 1)].of = [page |-> page, behind |-> BadPage, codec |-> codec]
      BY <1>1, <3>1
    <3> QED BY <3>1, <3>2, BadIsPage
  <2> QED BY <2>1, <2>2
<1>4. Len(u) \in Nat
  BY <1>1
<1>5. IsUnits(u)
  BY <1>3, <1>4 DEF IsUnits
<1> QED BY <1>5 DEF u

LEMMA UnitsJoin ==
  ASSUME NEW a, NEW b, IsSeq(a), IsSeq(b), IsUnits(a), IsUnits(b)
  PROVE  /\ IsUnits(a \o b) /\ IsSeq(a \o b) /\ Len(a \o b) = Len(a) + Len(b)
         /\ Len(a) \in Nat /\ Len(b) \in Nat
         /\ LiesAt(a \o b, 0, a) /\ LiesAt(a \o b, Len(a), b)
<1> DEFINE u == a \o b
           la == Len(a)
           lb == Len(b)
<1>1. /\ IsSeq(u) /\ Len(u) = la + lb /\ la \in Nat /\ lb \in Nat
      /\ \A i \in 1..la : u[i] = a[i]
      /\ \A i \in 1..lb : u[la + i] = b[i]
  BY Appended
<1> HIDE DEF u
<1>2. ASSUME NEW i \in 1..Len(u)
      PROVE  \/ \E k \in 1..la : u[i] = a[k]
             \/ \E k \in 1..lb : u[i] = b[k]
  <2> HIDE DEF la, lb
  <2>1. CASE i <= la
    BY <1>1, <2>1
  <2>2. CASE ~(i <= la)
    <3>1. i - la \in 1..lb /\ la + (i - la) = i
      BY <1>1, <2>2
    <3> QED BY <1>1, <3>1
  <2> QED BY <2>1, <2>2
<1>3. IsUnits(u)
  <2>1. ASSUME NEW i \in 1..Len(u)
        PROVE  /\ u[i].piece = "header" => /\ u[i].of.kind \in PageKinds
                                           /\ u[i].of.compressed \in Int
                                           /\ u[i].of.uncompressed \in Int
                                           /\ u[i].of.count \in Int
               /\ u[i].piece = "body" => u[i].of.page \in Page /\ u[i].of.behind \in Page
    <3>1. CASE \E k \in 1..la : u[i] = a[k]
      BY <3>1 DEF IsUnits
    <3>2. CASE \E k \in 1..lb : u[i] = b[k]
      BY <3>2 DEF IsUnits
    <3> QED BY <1>2, <3>1, <3>2
  <2> QED BY <1>1, <2>1 DEF IsUnits
<1>4. LiesAt(u, 0, a)
  <2>1. \A i \in 1..la : 0 + i = i
    BY <1>1
  <2> HIDE DEF la, lb
  <2>2. 0 + la <= Len(u)
    BY <1>1
  <2> QED BY <1>1, <2>1, <2>2 DEF LiesAt, la
<1>5. LiesAt(u, la, b)
  <2> HIDE DEF la, lb
  <2>1. la + lb <= Len(u)
    BY <1>1
  <2> QED BY <1>1, <2>1 DEF LiesAt, lb
<1> QED BY <1>1, <1>3, <1>4, <1>5 DEF u

PagesOf(c, vals) == {DataPageOf(c, vals)} \cup (IF IsDict(c) THEN {DictPageOf(vals)} ELSE {})

(* A chunk whose page headers can state every size; one of which they      *)
(* cannot state the number of rows.                                        *)
AllStatable(c, vals) == \A page \in PagesOf(c, vals) : Statable(page, Codec(c))
Uncounted(c, vals) == IsDict(c) /\ Len(vals) >= PageCap

LEMMA AsReadIs == ASSUME NEW page \in Page PROVE AsRead(page) \in Page
<1>1. AsI32(Len(page.vals)) \in Int
  BY PageIs, AsSigned
<1> DEFINE h == [count |-> AsI32(Len(page.vals))]
<1>2. h.count = AsI32(Len(page.vals))
  OBVIOUS
<1> HIDE DEF h
<1>3. Counted(h, page) \in Page /\ Counted(h, page) = AsRead(page)
  BY <1>1, <1>2, CountedIs DEF AsRead
<1> QED BY <1>3

LEMMA PairOf == ASSUME NEW x, NEW y PROVE <<x>> \o <<y>> = <<x, y>>
<1> DEFINE S == {x, y}
<1>1. <<x>> \in Seq(S) /\ <<y>> \in Seq(S) /\ <<x, y>> \in Seq(S)
  OBVIOUS
<1> HIDE DEF S
<1>2. /\ <<x>> \o <<y>> \in Seq(S) /\ Len(<<x>> \o <<y>>) = 2
      /\ (<<x>> \o <<y>>)[1] = x /\ (<<x>> \o <<y>>)[2] = y
  BY <1>1
<1>3. Len(<<x, y>>) = 2 /\ <<x, y>>[1] = x /\ <<x, y>>[2] = y
  OBVIOUS
<1>4. \A i \in 1..2 : (<<x>> \o <<y>>)[i] = <<x, y>>[i]
  BY <1>2, <1>3
<1>5. \A s, t \in Seq(S) : Len(s) = Len(t) /\ (\A i \in 1..Len(s) : s[i] = t[i]) => s = t
  BY SeqEqual
<1> QED BY <1>1, <1>2, <1>3, <1>4, <1>5

(* What the units of a chunk read as.                                      *)
LEMMA ChunkReads ==
  ASSUME NEW c, NEW vals \in Seq(Int)
  PROVE  LET r == OneShot(Walk(Wanted(c, vals).units, Codec(c), NoStrip), Len(vals))
         IN  /\ r \in ReaderStates
             /\ ~AllStatable(c, vals) => r.err
             /\ AllStatable(c, vals) /\ ~Uncounted(c, vals) => r.out = vals /\ ~r.err
             /\ AllStatable(c, vals) /\ Uncounted(c, vals) =>
                  \/ r.err
                  \/ \E n \in 0..(Len(vals) - 1) : r.out = SubSeq(vals, 1, n) /\ ~r.err
<1> DEFINE codec == Codec(c)
           dict  == DictPageOf(vals)
           data  == DataPageOf(c, vals)
           a     == IF IsDict(c) THEN PageUnits(dict, codec, "v1") ELSE << >>
           b     == PageUnits(data, codec, call.version)
           u     == a \o b
           la    == Len(a)
           f     == PagesFrom(u, codec, NoStrip)
           total == Len(vals)
           r     == OneShot(Walk(u, codec, NoStrip), total)
<1>1. /\ dict \in Page /\ data \in Page /\ BodyLen(dict) \in Nat /\ BodyLen(data) \in Nat
      /\ total \in Nat
      /\ vals = << >> => BodyLen(dict) <= 1 /\ BodyLen(data) <= 1
  BY PagesTyped
<1>2. Wanted(c, vals).units = u
  BY DEF Wanted
<1>3. data = IF IsDict(c) THEN [kind |-> "coded", vals |-> Indices(vals)]
             ELSE [kind |-> "plain", vals |-> vals]
  BY DEF DataPageOf
<1> HIDE DEF dict, data, codec, a, b, u, la, f, total, r
<1>4. IsSeq(a) /\ IsUnits(a) /\ IsSeq(b) /\ IsUnits(b) /\ Len(b) \in Nat \ {0}
  <2>1. IsSeq(b) /\ IsUnits(b) /\ Len(b) \in Nat \ {0}
    <3>1. Len(b) = 1 + CompressedLen(BodyLen(data), codec) /\ IsSeq(b)
          /\ CompressedLen(BodyLen(data), codec) \in Nat
      BY <1>1, PageLen DEF b
    <3>2. IsUnits(b)
      BY <1>1, UnitsTyped DEF b
    <3> QED BY <3>1, <3>2
  <2>2. IsSeq(a) /\ IsUnits(a)
    <3>1. CASE IsDict(c)
      BY <1>1, <3>1, PageLen, UnitsTyped DEF a
    <3>2. CASE ~IsDict(c)
      <4>1. IsUnits(<< >>)
        BY DEF IsUnits
      <4> QED BY <3>2, <4>1, EmptyIsSeq DEF a
    <3> QED BY <3>1, <3>2
  <2> QED BY <2>1, <2>2
<1>5. /\ IsSeq(u) /\ IsUnits(u) /\ Len(u) = la + Len(b) /\ la \in Nat
      /\ LiesAt(u, 0, a) /\ LiesAt(u, la, b)
  BY <1>4, UnitsJoin DEF u, la
<1>6. u = [i \in 1..Len(u) |-> u[i]]
  BY <1>5 DEF IsSeq
<1>7. /\ f \in [0..Len(u) -> Seq(Page)] /\ f[Len(u)] = << >>
      /\ \A p \in 0..(Len(u) - 1) :
           Takes(u, p) => f[p] = <<PageAt(u, p, codec, NoStrip)>> \o f[PageEnd(u, p)]
  <2> HIDE DEF f
  <2>1. /\ IsUnits(u)
        /\ u = [i \in 1..Len(u) |-> u[i]]
    BY <1>5, <1>6
  <2>2. /\ PagesFrom(u, codec, NoStrip) \in [0..Len(u) -> Seq(Page)]
        /\ PagesFrom(u, codec, NoStrip)[Len(u)] = << >>
        /\ \A pos \in 0..(Len(u) - 1) :
             /\ ~Takes(u, pos) => PagesFrom(u, codec, NoStrip)[pos] = <<BadPage>>
             /\ Takes(u, pos) =>
                  /\ PageEnd(u, pos) \in (pos + 1)..Len(u)
                  /\ PageAt(u, pos, codec, NoStrip) \in Page
                  /\ PagesFrom(u, codec, NoStrip)[pos] =
                       <<PageAt(u, pos, codec, NoStrip)>> \o PagesFrom(u, codec, NoStrip)[PageEnd(u, pos)]
    BY ONLY <2>1, WalkPages
  <2> QED BY <2>2 DEF f
<1>8. 0 \in 0..(Len(u) - 1) /\ la \in 0..(Len(u) - 1) /\ 0 \in 0..Len(u) /\ la \in 0..Len(u)
  BY <1>4, <1>5
<1>9. f[0] \in Seq(Page) /\ f[la] \in Seq(Page) /\ r = OneShot(f[0], total)
  BY <1>7, <1>8 DEF r, f, Walk
<1>10. r \in ReaderStates
  BY <1>1, <1>9, PagesAreInt, OneShotType
(* The data page, last.                                                    *)
<1>11. Statable(data, codec) => f[la] = <<AsRead(data)>>
  <2> SUFFICES ASSUME Statable(data, codec) PROVE f[la] = <<AsRead(data)>>
    OBVIOUS
  <2>1. LiesAt(u, la, PageUnits(data, codec, call.version)) /\ la \in Nat /\ IsSeq(u)
    BY <1>5 DEF b
  <2>2. /\ Takes(u, la) /\ PageAt(u, la, codec, NoStrip) = AsRead(data)
        /\ PageEnd(u, la) = la + Len(PageUnits(data, codec, call.version))
    BY <1>1, <2>1, WalkPage
  <2>3. PageEnd(u, la) = Len(u)
    BY <1>5, <2>2 DEF b
  <2>4. f[la] = <<AsRead(data)>> \o << >>
    BY <1>7, <1>8, <2>2, <2>3
  <2>5. AsRead(data) \in Page
    BY <1>1, AsReadIs
  <2> HIDE DEF AsRead
  <2> QED BY <2>4, <2>5
<1>12. ~Statable(data, codec) => Lost(f[la])
  <2>1. LiesAt(u, la, PageUnits(data, codec, call.version))
    BY <1>5 DEF b
  <2> QED BY <1>1, <1>5, <1>8, <2>1, WalkLost DEF f
(* The dictionary page before it.                                          *)
<1>13. IsDict(c) /\ Statable(dict, codec) => f[0] = <<dict>> \o f[la]
  <2> SUFFICES ASSUME IsDict(c), Statable(dict, codec) PROVE f[0] = <<dict>> \o f[la]
    OBVIOUS
  <2>1. LiesAt(u, 0, PageUnits(dict, codec, "v1")) /\ 0 \in Nat /\ IsSeq(u)
    BY <1>5 DEF a
  <2>4. AsRead(dict) = dict
    BY DEF AsRead, dict, DictPageOf
  <2>2. /\ Takes(u, 0) /\ PageAt(u, 0, codec, NoStrip) = dict
        /\ PageEnd(u, 0) = 0 + Len(PageUnits(dict, codec, "v1"))
    BY <1>1, <2>1, <2>4, WalkPage
  <2>3. PageEnd(u, 0) = la
    BY <1>5, <2>2 DEF a, la
  <2> QED BY <1>7, <1>8, <2>2, <2>3
<1>14. IsDict(c) /\ ~Statable(dict, codec) => Lost(f[0])
  <2> SUFFICES ASSUME IsDict(c), ~Statable(dict, codec) PROVE Lost(f[0])
    OBVIOUS
  <2>1. LiesAt(u, 0, PageUnits(dict, codec, "v1"))
    BY <1>5 DEF a
  <2> QED BY <1>1, <1>5, <1>8, <2>1, WalkLost DEF f
<1>15. ~IsDict(c) => la = 0
  BY DEF la, a
<1>16. ~IsDict(c) /\ Statable(data, codec) => r.out = vals /\ ~r.err
  <2> SUFFICES ASSUME ~IsDict(c), Statable(data, codec) PROVE r.out = vals /\ ~r.err
    OBVIOUS
  <2>1. f[0] = <<[kind |-> "plain", vals |-> vals]>>
    BY <1>3, <1>11, <1>15 DEF AsRead
  <2> QED BY <1>9, <2>1, ReadPlain DEF total
(* The indices, as many as the header counts.                              *)
<1>17. ASSUME IsDict(c), Statable(dict, codec), Statable(data, codec), NEW n \in 0..total,
              AsRead(data) = [kind |-> "coded", vals |-> SubSeq(Indices(vals), 1, n)]
       PROVE  r.out = SubSeq(vals, 1, n) /\ ~r.err
  <2>1. f[0] = <<dict>> \o <<AsRead(data)>>
    BY <1>11, <1>13, <1>17
  <2>2. <<dict>> \o <<AsRead(data)>> = <<dict, AsRead(data)>>
    BY PairOf
  <2>3. f[0] = <<DictPageOf(vals), [kind |-> "coded", vals |-> SubSeq(Indices(vals), 1, n)]>>
    BY <1>17, <2>1, <2>2 DEF dict
  <2>4. n \in 0..Len(vals)
    BY DEF total
  <2> QED BY <1>9, <2>3, <2>4, ReadCoded DEF total
<1>22. ASSUME IsDict(c)
       PROVE  /\ total < PageCap => AsRead(data) =
                   [kind |-> "coded", vals |-> SubSeq(Indices(vals), 1, total)]
              /\ PageCap <= total => \/ AsRead(data) = BadPage
                                     \/ \E n \in 0..(total - 1) : AsRead(data) =
                                          [kind |-> "coded", vals |-> SubSeq(Indices(vals), 1, n)]
  <2>1. data.kind = "coded" /\ data.vals = Indices(vals) /\ Len(data.vals) = total
    BY <1>3, <1>22, DictionarySpells DEF total
  <2>2. AsRead(data) = IF AsI32(total) \in 0..total
                       THEN [kind |-> "coded", vals |-> SubSeq(Indices(vals), 1, AsI32(total))]
                       ELSE BadPage
    BY <2>1 DEF AsRead
  <2>3. total < PageCap => AsI32(total) = total
    BY <1>1, AsSigned
  <2>4. PageCap <= total => AsI32(total) < total
    BY <1>1, AsSigned
  <2>5. ASSUME total < PageCap
        PROVE  AsRead(data) = [kind |-> "coded", vals |-> SubSeq(Indices(vals), 1, total)]
    <3>1. AsI32(total) = total /\ total \in 0..total
      BY <1>1, <2>3, <2>5
    <3> QED BY <2>2, <3>1
  <2>6. ASSUME PageCap <= total, AsRead(data) # BadPage
        PROVE  \E n \in 0..(total - 1) : AsRead(data) =
                 [kind |-> "coded", vals |-> SubSeq(Indices(vals), 1, n)]
    <3> DEFINE n == AsI32(total)
    <3>1. n < total /\ n \in 0..total
      BY <2>2, <2>4, <2>6
    <3>2. AsRead(data) = [kind |-> "coded", vals |-> SubSeq(Indices(vals), 1, n)]
      BY <2>2, <3>1
    <3>3. n \in 0..(total - 1)
      BY <1>1, <3>1
    <3> HIDE DEF n
    <3> QED BY <3>2, <3>3
  <2> QED BY <2>5, <2>6
(* A page too large.                                                       *)
<1>18. vals = << >> => Statable(dict, codec) /\ Statable(data, codec)
  <2> SUFFICES ASSUME vals = << >> PROVE Statable(dict, codec) /\ Statable(data, codec)
    OBVIOUS
  <2>1. \A n \in Nat : n <= 1 => n < PageCap /\ CompressedLen(n, codec) < PageCap
    BY CompressedIs, PageCapAssumption
  <2> QED BY <1>1, <2>1 DEF Statable
<1>19. ~Statable(data, codec) \/ (IsDict(c) /\ ~Statable(dict, codec)) => Lost(f[0])
  <2>1. CASE IsDict(c) /\ ~Statable(dict, codec)
    BY <1>14, <2>1
  <2>2. CASE IsDict(c) /\ Statable(dict, codec) /\ ~Statable(data, codec)
    <3>1. f[0] = <<dict>> \o f[la] /\ Lost(f[la])
      BY <1>12, <1>13, <2>2
    <3>2. Barren(dict)
      BY DEF Barren, dict, DictPageOf
    <3>3. Lost(<<dict>> \o f[la])
      BY <1>1, <1>9, <3>1, <3>2, LostBehind
    <3> QED BY <3>1, <3>3
  <2>3. CASE ~IsDict(c) /\ ~Statable(data, codec)
    BY <1>12, <1>15, <2>3
  <2> QED BY <2>1, <2>2, <2>3
<1>20. ~Statable(data, codec) \/ (IsDict(c) /\ ~Statable(dict, codec)) => r.err
  <2> SUFFICES ASSUME ~Statable(data, codec) \/ (IsDict(c) /\ ~Statable(dict, codec))
               PROVE  r.err
    OBVIOUS
  <2>1. total \in Nat \ {0}
    BY <1>1, <1>18 DEF total
  <2> QED BY <1>9, <1>19, <2>1, LostFails
<1>23. ASSUME IsDict(c), Statable(dict, codec), Statable(data, codec), PageCap <= total,
              AsRead(data) = BadPage
       PROVE  r.err
  <2>1. f[la] = <<BadPage>> /\ f[0] = <<dict>> \o f[la]
    BY <1>11, <1>13, <1>23
  <2>2. Lost(f[la])
    <3>1. <<BadPage>> = <<BadPage>> \o << >> /\ << >> \in Seq(Page)
      BY BadIsPage
    <3> QED BY <2>1, <3>1, LostHere
  <2>3. Barren(dict)
    BY DEF Barren, dict, DictPageOf
  <2>4. Lost(f[0])
    BY <1>1, <1>9, <2>1, <2>2, <2>3, LostBehind
  <2>5. total \in Nat \ {0}
    BY <1>1, <1>23, PageCapAssumption
  <2> QED BY <1>9, <2>4, <2>5, LostFails
<1>21. AllStatable(c, vals) <=> Statable(data, codec) /\ (IsDict(c) => Statable(dict, codec))
  BY DEF AllStatable, PagesOf, dict, data, codec
<1>24. Uncounted(c, vals) <=> IsDict(c) /\ PageCap <= total
  BY <1>1, PageCapAssumption DEF Uncounted, total
<1>25. CASE ~AllStatable(c, vals)
  <2>1. r.err
    BY <1>20, <1>21, <1>25
  <2> QED BY <1>2, <1>10, <1>25, <2>1 DEF r, total, codec
<1>26. CASE AllStatable(c, vals) /\ ~Uncounted(c, vals)
  <2>1. r.out = vals /\ ~r.err
    <3>1. CASE ~IsDict(c)
      BY <1>16, <1>21, <1>26, <3>1
    <3>2. CASE IsDict(c)
      <4>1. total < PageCap /\ total \in 0..total
        BY <1>1, <1>24, <1>26, <3>2, PageCapAssumption
      <4>2. AsRead(data) = [kind |-> "coded", vals |-> SubSeq(Indices(vals), 1, total)]
        BY <1>22, <3>2, <4>1
      <4>3. r.out = SubSeq(vals, 1, total) /\ ~r.err
        BY <1>17, <1>21, <1>26, <3>2, <4>1, <4>2
      <4>4. SubSeq(vals, 1, total) = vals
        BY SubSeqFull DEF total
      <4> QED BY <4>3, <4>4
    <3> QED BY <3>1, <3>2
  <2> QED BY <1>2, <1>10, <1>26, <2>1 DEF r, total, codec
<1>27. CASE AllStatable(c, vals) /\ Uncounted(c, vals)
  <2>1. r.err \/ \E n \in 0..(total - 1) : r.out = SubSeq(vals, 1, n) /\ ~r.err
    <3>1. CASE AsRead(data) = BadPage
      BY <1>21, <1>23, <1>24, <1>27, <3>1
    <3>2. CASE AsRead(data) # BadPage
      <4>1. PICK n \in 0..(total - 1) :
              AsRead(data) = [kind |-> "coded", vals |-> SubSeq(Indices(vals), 1, n)]
        BY <1>22, <1>24, <1>27, <3>2
      <4>2. n \in 0..total
        BY <1>1
      <4>3. r.out = SubSeq(vals, 1, n) /\ ~r.err
        BY <1>17, <1>21, <1>24, <1>27, <4>1, <4>2
      <4> QED BY <4>3
    <3> QED BY <3>1, <3>2
  <2> QED BY <1>2, <1>10, <1>27, <2>1 DEF r, total, codec
<1> QED BY <1>25, <1>26, <1>27

-----------------------------------------------------------------------------
(* The whole table.                                                        *)

(* A call that returned Ok passed the checks, and the footer its file ends *)
(* with is the one of its row groups.                                      *)
Footed == result = "ok" => Refusal = "none" /\ Footer(out) = TableFooter

LEMMA FooterStays ==
  ASSUME call' = call, groups' = groups
  PROVE  TableFooter' = TableFooter
<1>1. TotalRows' = TotalRows /\ columns' = columns /\ \A c : Codec(c)' = Codec(c)
  BY SameCall DEF Codec
<1>2. \A c, rows, p : ColumnMeta(c, rows, p)' = ColumnMeta(c, rows, p)
  BY <1>1 DEF ColumnMeta
<1>3. groups' = groups
  OBVIOUS
<1>4. [g \in DOMAIN groups |->
         [rows |-> groups[g].rows,
          cols |-> [c \in DOMAIN columns |-> ColumnMeta(c, groups[g].rows, groups[g].cols[c])]]]'
      = [g \in DOMAIN groups |->
         [rows |-> groups[g].rows,
          cols |-> [c \in DOMAIN columns |-> ColumnMeta(c, groups[g].rows, groups[g].cols[c])]]]
  <2> SUFFICES ASSUME NEW g \in DOMAIN groups
               PROVE  [c \in DOMAIN columns |-> ColumnMeta(c, groups[g].rows, groups[g].cols[c])']
                      = [c \in DOMAIN columns |-> ColumnMeta(c, groups[g].rows, groups[g].cols[c])]
    BY <1>1, <1>3
  <2> QED BY <1>1, <1>2, <1>3
<1> QED BY <1>1, <1>4 DEF TableFooter

LEMMA FooterFooted == ASSUME HInv, WriteFooter PROVE Footed'
<1> DEFINE m   == FooterLen(TableFooter)
           end == Piece("footer", TableFooter, m) \o Trailer(m)
<1>1. /\ out' = out \o end /\ IsSeq(end) /\ Len(end) = m + 2 /\ m \in Nat \ {0}
      /\ \A i \in 1..m : end[i].of = TableFooter
      /\ end[m + 1].of = m
  BY FooterWritten DEF HInv
<1>2. IsSeq(out) /\ Refusal = "none" /\ call' = call /\ groups' = groups
  BY DEF HInv, WInv, Kinds, TypeOK, WriteFooter
<1> HIDE DEF m, end
<1>3. /\ Len(out') = Len(out) + Len(end) /\ Len(out) \in Nat
      /\ \A i \in 1..Len(end) : out'[Len(out) + i] = end[i]
  <2>1. IsSeq(out) /\ IsSeq(end)
    BY <1>1, <1>2
  <2>2. /\ Len(out \o end) = Len(out) + Len(end) /\ Len(out) \in Nat
        /\ \A i \in 1..Len(end) : (out \o end)[Len(out) + i] = end[i]
    BY <2>1, Appended
  <2> QED BY <1>1, <2>2
<1>4. /\ 1 \in 1..Len(end) /\ 1 \in 1..m /\ m + 1 \in 1..Len(end)
      /\ Len(out') - 1 = Len(out) + (m + 1) /\ Len(out') - 1 - m = Len(out) + 1
  <2> DEFINE le == Len(end)
             lo == Len(out)
  <2>1. le = m + 2 /\ lo \in Nat /\ Len(out') = lo + le
    BY <1>1, <1>3
  <2> HIDE DEF le, lo
  <2>2. /\ 1 \in 1..le /\ 1 \in 1..m /\ m + 1 \in 1..le
        /\ (lo + le) - 1 = lo + (m + 1) /\ (lo + le) - 1 - m = lo + 1
    BY <1>1, <2>1
  <2> QED BY <2>1, <2>2 DEF le, lo
<1>5. Footer(out)' = TableFooter
  <2> DEFINE k == m + 1
  <2>1. k \in 1..Len(end)
    BY <1>4
  <2> HIDE DEF k
  <2>2. out'[Len(out) + k] = end[k] /\ out'[Len(out) + 1] = end[1]
    BY <1>3, <1>4, <2>1
  <2>3. out'[Len(out') - 1].of = m
    BY <1>1, <1>4, <2>2 DEF k
  <2>4. Footer(out)' = out'[Len(out') - 1 - m].of
    BY <2>3 DEF Footer, FooterSize
  <2> QED BY <1>1, <1>4, <2>2, <2>4
<1>6. TableFooter' = TableFooter
  <2>1. call' = call /\ groups' = groups
    BY <1>2
  <2> QED BY <2>1, FooterStays
<1>7. Refusal' = Refusal
  <2>1. call' = call
    BY <1>2
  <2> QED BY <2>1, SameCall
<1> QED BY <1>2, <1>5, <1>6, <1>7 DEF Footed

LEMMA FootedNext == HInv /\ Footed /\ [WriterNext]_writerVars => Footed'
<1> SUFFICES ASSUME HInv, Footed, [WriterNext]_writerVars PROVE Footed' OBVIOUS
<1>1. phase # "done" => result = "none"
  BY DEF HInv, WInv, Phases
<1>2. CASE Refuse \/ Panic \/ RefuseCodec \/ FailWrite
  <2>1. result' # "ok"
    BY <1>2 DEF Refuse, Panic, RefuseCodec, FailWrite, Stop, Refusal
  <2> QED BY <2>1 DEF Footed
<1>3. CASE Begin \/ WriteDictPage \/ WriteDataPage \/ EndGroup
  <2>1. result' = result /\ phase # "done"
    BY <1>3 DEF Begin, WriteDictPage, WriteDataPage, EndGroup, CanWrite, InColumn
  <2> QED BY <1>1, <2>1 DEF Footed
<1>4. CASE WriteFooter BY <1>4, FooterFooted
<1>5. CASE Done \/ UNCHANGED writerVars
  <2>1. call' = call /\ groups' = groups /\ out' = out /\ result' = result
    BY <1>5 DEF Done, writerVars
  <2>2. Refusal' = Refusal
    <3>1. call' = call
      BY <2>1
    <3> QED BY <3>1, SameCall
  <2>3. TableFooter' = TableFooter
    <3>1. call' = call /\ groups' = groups
      BY <2>1
    <3> QED BY <3>1, FooterStays
  <2>4. Footer(out)' = Footer(out)
    BY <2>1 DEF Footer, FooterSize
  <2> QED BY <2>1, <2>2, <2>3, <2>4 DEF Footed
<1> QED BY <1>2, <1>3, <1>4, <1>5 DEF WriterNext

LEMMA RowsTyped ==
  ASSUME WInv, Refusal = "none", result = "ok", NEW g \in DOMAIN groups, NEW c \in DOMAIN columns
  PROVE  Rows(c, g) \in Seq(Int) /\ Len(Rows(c, g)) = groups[g].rows
<1> DEFINE vals  == columns[c].vals
           size  == call.rowGroupSize
           total == TotalRows
           first == RowsOfGroup(g).first
           rows  == RowsOfGroup(g).rows
           lo    == first + 1
           hi    == first + rows
<1>1. /\ size \in Nat \ {0} /\ total \in Nat /\ vals \in Seq(Int) /\ Len(vals) = total
  BY Checked, CallType DEF WInv, Kinds
<1>2. groups \in Seq(Groups) /\ groups[g].rows = rows
  BY DEF WInv, Kinds, RowsCut, GroupsCut
<1>3. groups[g].rows \in Nat /\ g \in Nat \ {0}
  <2>1. groups[g] \in Groups /\ g \in Nat \ {0}
    <3> HIDE DEF Groups
    <3> QED BY <1>2
  <2> QED BY <2>1 DEF Groups
<1>4. rows = Smaller(size, total - first) /\ first = (g - 1) * size
  BY DEF RowsOfGroup
<1>5. first \in Nat
  BY <1>1, <1>3, <1>4, Times
<1> HIDE DEF vals, size, total, first, rows
<1>6. hi <= total /\ lo \in Int /\ hi \in Int /\ 1 <= lo /\ hi - lo + 1 = rows
      /\ (lo <= hi <=> rows # 0) /\ rows \in Nat
  <2>1. rows \in Nat
    BY <1>2, <1>3
  <2>2. rows <= total - first
    BY <1>1, <1>4, <1>5 DEF Smaller
  <2> QED BY <1>1, <1>5, <2>1, <2>2 DEF lo, hi
<1>7. \A i \in lo..hi : vals[i] \in Int
  BY <1>1, <1>6
<1> HIDE DEF lo, hi
<1>8. /\ SubSeq(vals, lo, hi) \in Seq(Int)
      /\ Len(SubSeq(vals, lo, hi)) = IF lo <= hi THEN hi - lo + 1 ELSE 0
  BY <1>6, <1>7, SubSeqProperties
<1>9. Len(SubSeq(vals, lo, hi)) = rows
  <2>1. CASE lo <= hi
    BY <1>6, <1>8, <2>1
  <2>2. CASE ~(lo <= hi)
    BY <1>6, <1>8, <2>2
  <2> QED BY <2>1, <2>2
<1> QED BY <1>2, <1>8, <1>9 DEF Rows, vals, lo, hi, first, rows

LEMMA AllReadBack == ASSUME HInv, Footed PROVE ReadBack
<1> SUFFICES ASSUME result = "ok", NEW g \in DOMAIN Footer(out).groups, NEW c \in DOMAIN columns
             PROVE  LET vals  == Rows(c, g)
                        pages == {DataPageOf(c, vals)} \cup (IF IsDict(c) THEN {DictPageOf(vals)} ELSE {})
                        read  == ReadChunk(out, Footer(out).groups[g].cols[c])
                    IN  IF \E page \in pages : ~Statable(page, Codec(c)) THEN read.err
                        ELSE IF IsDict(c) /\ Len(vals) >= PageCap
                        THEN \/ read.err
                             \/ \E n \in 0..(Len(vals) - 1) :
                                  read = [out |-> SubSeq(vals, 1, n), err |-> FALSE]
                        ELSE read = [out |-> vals, err |-> FALSE]
  BY DEF ReadBack
<1> DEFINE vals == Rows(c, g)
           p    == groups[g].cols[c]
           cm   == Footer(out).groups[g].cols[c]
           u    == Wanted(c, vals).units
           r    == OneShot(Walk(u, Codec(c), NoStrip), Len(vals))
<1>1. Refusal = "none" /\ Footer(out) = TableFooter /\ WInv
  BY DEF Footed, HInv
<1>2. g \in DOMAIN groups /\ cm = ColumnMeta(c, groups[g].rows, p)
  BY <1>1 DEF TableFooter
<1>3. KeptIn(out, p, Wanted(c, vals))
  BY <1>2 DEF HInv, Held
<1>4. vals \in Seq(Int) /\ Len(vals) = groups[g].rows
  BY <1>1, <1>2, RowsTyped
<1>5. /\ cm.dataAt = p.dataAt /\ cm.dictAt = p.dictAt /\ cm.compressed = p.compressed
      /\ cm.rows = Len(vals) /\ cm.codec = Codec(c) /\ cm.levels = NoStrip
  BY <1>2, <1>4 DEF ColumnMeta, NoStrip
<1> HIDE DEF vals, p, cm
<1>6. ChunkStart(cm) = ChunkStart(p)
  BY <1>5 DEF ChunkStart
<1>7. Bytes(out, ChunkStart(cm), cm.compressed) = u /\ InFile(out, ChunkStart(cm), cm.compressed)
  BY <1>3, <1>5, <1>6 DEF KeptIn, HoldsIn, InFile
<1>8. ReadChunk(out, cm) = [out |-> r.out, err |-> r.err]
  BY <1>5, <1>7 DEF ReadChunk
<1>9. /\ r \in ReaderStates
      /\ ~AllStatable(c, vals) => r.err
      /\ AllStatable(c, vals) /\ ~Uncounted(c, vals) => r.out = vals /\ ~r.err
      /\ AllStatable(c, vals) /\ Uncounted(c, vals) =>
           \/ r.err
           \/ \E n \in 0..(Len(vals) - 1) : r.out = SubSeq(vals, 1, n) /\ ~r.err
  BY <1>4, ChunkReads
<1>10. r.err \in BOOLEAN
  BY <1>9 DEF ReaderStates
<1> HIDE DEF r
<1>11. r.err = TRUE => ReadChunk(out, cm).err
  BY <1>8
<1>12. ASSUME NEW rows, r.out = rows, ~r.err PROVE ReadChunk(out, cm) = [out |-> rows, err |-> FALSE]
  <2>1. r.err = FALSE
    BY <1>10, <1>12
  <2> QED BY <1>8, <1>12, <2>1
<1>13. CASE ~AllStatable(c, vals)
  <2>1. r.err = TRUE
    BY <1>9, <1>10, <1>13
  <2>2. ReadChunk(out, cm).err
    BY <1>11, <2>1
  <2> QED BY <1>13, <2>2 DEF AllStatable, PagesOf, vals, cm
<1>14. CASE AllStatable(c, vals) /\ ~Uncounted(c, vals)
  <2>1. ReadChunk(out, cm) = [out |-> vals, err |-> FALSE]
    BY <1>9, <1>12, <1>14
  <2> QED BY <1>14, <2>1 DEF AllStatable, Uncounted, PagesOf, vals, cm
<1>15. CASE AllStatable(c, vals) /\ Uncounted(c, vals)
  <2>1. \/ ReadChunk(out, cm).err
        \/ \E n \in 0..(Len(vals) - 1) :
             ReadChunk(out, cm) = [out |-> SubSeq(vals, 1, n), err |-> FALSE]
    <3>1. CASE r.err
      <4>1. r.err = TRUE
        BY <1>10, <3>1
      <4> QED BY <1>11, <4>1
    <3>2. CASE ~r.err
      <4>1. PICK n \in 0..(Len(vals) - 1) : r.out = SubSeq(vals, 1, n) /\ ~r.err
        BY <1>9, <1>15, <3>2
      <4> QED BY <1>12, <4>1
    <3> QED BY <3>1, <3>2
  <2> QED BY <1>15, <2>1 DEF AllStatable, Uncounted, PagesOf, vals, cm
<1> QED BY <1>13, <1>14, <1>15

(* After an Ok, for every table, row group size, mix of dictionaries,      *)
(* filters, codecs and page versions, and wherever an i32 of a page header *)
(* wraps: the one-shot reader finds the rows of each column and row group  *)
(* through the footer; it reports an error if a page has outgrown its      *)
(* header; and where only a row count wraps it reports an error or finds   *)
(* the first of the rows.                                                  *)
THEOREM TableReadsBack == WriterSpec => []ReadBack
<1>1. WriterInit => Footed
  BY DEF WriterInit, Footed
<1>2. HInv /\ Footed => ReadBack
  BY AllReadBack
<1> QED BY HInit, HNext, FootedNext, <1>1, <1>2, PTL DEF WriterSpec

-----------------------------------------------------------------------------
(* What is written is what AsyncRead assumes of its objects.               *)

(* Units of pages and filters, and the magic they stand behind.            *)
Plain(units) ==
  /\ IsUnits(units)
  /\ \A i \in 1..Len(units) : units[i].piece \in {"magic", "header", "body", "filter"}

(* IsContent, for files of any size.                                       *)
Shaped(v) ==
  /\ IsSeq(v)
  /\ \A i \in 1..Len(v) :
       /\ v[i].piece = "length" => v[i].of \in Nat
       /\ v[i].piece = "header" => /\ v[i].of.kind \in PageKinds /\ v[i].of.compressed \in Int
                                   /\ v[i].of.uncompressed \in Int /\ v[i].of.count \in Int
       /\ v[i].piece = "body" => v[i].of.page \in Page /\ v[i].of.behind \in Page
       /\ v[i].piece = "footer" => /\ i = Len(v) - 2 - v[i].len + v[i].at
                                   /\ v[Len(v) - 1].piece = "length"
                                   /\ IsMeta(v[i].of)

Stored == (result # "ok" => Plain(out)) /\ (result = "ok" => Shaped(out))

LEMMA ShapedIsContent == ASSUME NEW v, Shaped(v), Len(v) < Word PROVE IsContent(v)
<1>1. IsSeq(v) /\ IsSeq(<< >>)
  BY EmptyIsSeq DEF Shaped
<1>2. Len(v) \in Nat
  BY <1>1, Appended
<1>3. v = [i \in 1..Len(v) |-> v[i]]
  <2>1. PICK S : v \in Seq(S)
    BY <1>1 DEF IsSeq
  <2> QED BY <2>1
<1>4. Len(v) \in 0..(Word - 1)
  BY <1>2, WordAssumption
<1> QED BY <1>3, <1>4 DEF IsContent, Shaped

LEMMA PlainJoin ==
  ASSUME NEW s, NEW t, IsSeq(s), IsSeq(t), Plain(s), Plain(t) PROVE Plain(s \o t)
<1> DEFINE u == s \o t
<1>1. IsUnits(s) /\ IsUnits(t)
  BY DEF Plain
<1>2. IsUnits(u)
  BY <1>1, UnitsJoin
<1>3. /\ Len(u) = Len(s) + Len(t) /\ Len(s) \in Nat /\ Len(t) \in Nat
      /\ \A i \in 1..Len(s) : u[i] = s[i]
      /\ \A i \in 1..Len(t) : u[Len(s) + i] = t[i]
  BY Appended
<1> HIDE DEF u
<1>4. ASSUME NEW i \in 1..Len(u) PROVE u[i].piece \in {"magic", "header", "body", "filter"}
  <2>1. CASE i \in 1..Len(s)
    BY <1>3, <2>1 DEF Plain
  <2>2. CASE ~(i \in 1..Len(s))
    <3> DEFINE k == i - Len(s)
    <3>1. k \in 1..Len(t) /\ Len(s) + k = i
      <4> DEFINE ls == Len(s)
                 lt == Len(t)
      <4>1. ls \in Nat /\ lt \in Nat /\ i \in 1..(ls + lt) /\ ~(i \in 1..ls)
        BY <1>3, <2>2
      <4> HIDE DEF ls, lt
      <4>2. i - ls \in 1..lt /\ ls + (i - ls) = i
        BY <4>1
      <4> QED BY <4>2 DEF ls, lt
    <3> HIDE DEF k
    <3>2. u[Len(s) + k] = t[k]
      BY <1>3, <3>1
    <3> QED BY <3>1, <3>2 DEF Plain
  <2> QED BY <2>1, <2>2
<1> QED BY <1>2, <1>4 DEF Plain, u

LEMMA PlainPage ==
  ASSUME NEW page \in Page, BodyLen(page) \in Nat, NEW codec, NEW version
  PROVE  Plain(PageUnits(page, codec, version)) /\ IsSeq(PageUnits(page, codec, version))
<1> DEFINE u == PageUnits(page, codec, version)
           size == CompressedLen(BodyLen(page), codec)
<1>1. /\ Len(u) = 1 + size /\ size \in Nat /\ IsSeq(u) /\ u[1].piece = "header"
      /\ \A k \in 1..size : /\ u[1 + k].piece = "body"
                            /\ u[1 + k].of = [page |-> page, behind |-> BadPage, codec |-> codec]
  BY UnitsOfPage
<1>2. IsUnits(u)
  BY UnitsTyped
<1> HIDE DEF u, size
<1>3. ASSUME NEW i \in 1..Len(u) PROVE u[i].piece \in {"header", "body"}
  <2>1. CASE i = 1
    BY <1>1, <2>1
  <2>2. CASE i # 1
    <3>1. i - 1 \in 1..size /\ 1 + (i - 1) = i
      BY <1>1, <2>2
    <3>2. u[1 + (i - 1)].piece = "body"
      BY <1>1, <3>1
    <3> QED BY <3>1, <3>2
  <2> QED BY <2>1, <2>2
<1> QED BY <1>1, <1>2, <1>3 DEF Plain, u

LEMMA PlainPiece ==
  ASSUME NEW kind \in {"magic", "filter"}, NEW of, NEW len \in Nat
  PROVE  Plain(Piece(kind, of, len))
<1> DEFINE u == Piece(kind, of, len)
<1>1. Len(u) = len
  BY PieceSeq
<1>2. \A i \in 1..len : u[i].piece = kind
  BY DEF Piece
<1> HIDE DEF u
<1> QED BY <1>1, <1>2 DEF Plain, IsUnits, u

LEMMA PlainEmpty == Plain(<< >>)
<1>1. Len(<< >>) = 0
  OBVIOUS
<1> QED BY <1>1 DEF Plain, IsUnits

LEMMA FooterIsMeta == ASSUME HInv, phase = "footer" PROVE IsMeta(TableFooter)
<1> SUFFICES ASSUME NEW g \in DOMAIN TableFooter.groups,
                    NEW c \in DOMAIN TableFooter.groups[g].cols
             PROVE  LET cm == TableFooter.groups[g].cols[c]
                    IN  /\ cm.dataAt \in Nat /\ cm.dictAt \in Nat \cup {NoOffset}
                        /\ cm.compressed \in Nat /\ cm.rows \in Nat /\ cm.levels \in BOOLEAN
  BY DEF IsMeta
<1> DEFINE p == groups[g].cols[c]
<1>1. g \in DOMAIN groups /\ c \in DOMAIN columns
      /\ TableFooter.groups[g].cols[c] = ColumnMeta(c, groups[g].rows, p)
  BY DEF TableFooter
<1>2. p \in PreparedColumns
  BY <1>1 DEF HInv, Held, KeptIn
<1>3. groups[g].rows \in Nat
  <2>1. groups \in Seq(Groups)
    BY DEF HInv, WInv, Kinds
  <2>2. groups[g] \in Groups
    <3> HIDE DEF Groups
    <3> QED BY <1>1, <2>1
  <2> QED BY <2>2 DEF Groups
<1> HIDE DEF p
<1> QED BY <1>1, <1>2, <1>3 DEF ColumnMeta, PreparedColumns

LEMMA FooterShapes == ASSUME HInv, Stored, WriteFooter PROVE Shaped(out')
<1> DEFINE m   == FooterLen(TableFooter)
           end == Piece("footer", TableFooter, m) \o Trailer(m)
           L   == Len(out)
<1>0. WInv /\ phase = "footer"
  BY DEF HInv, WriteFooter
<1>1. /\ out' = out \o end /\ IsSeq(end) /\ Len(end) = m + 2 /\ m \in Nat \ {0}
      /\ \A i \in 1..m : end[i].piece = "footer" /\ end[i].of = TableFooter /\ end[i].at = i
                         /\ end[i].len = m
      /\ end[m + 1].piece = "length" /\ end[m + 1].of = m
      /\ end[m + 2].piece = "magic"
  BY <1>0, FooterWritten
<1>2. IsMeta(TableFooter)
  BY <1>0, FooterIsMeta
<1>3. IsSeq(out) /\ Plain(out)
  BY <1>0 DEF WInv, Kinds, Phases, Stored
<1> HIDE DEF m, end
<1>4. /\ IsSeq(out') /\ Len(out') = L + Len(end) /\ L \in Nat
      /\ \A i \in 1..L : out'[i] = out[i]
      /\ \A i \in 1..Len(end) : out'[L + i] = end[i]
  <2>1. IsSeq(out) /\ IsSeq(end)
    BY <1>1, <1>3
  <2>2. /\ IsSeq(out \o end) /\ Len(out \o end) = L + Len(end) /\ L \in Nat
        /\ \A i \in 1..L : (out \o end)[i] = out[i]
        /\ \A i \in 1..Len(end) : (out \o end)[L + i] = end[i]
    BY <2>1, Appended
  <2> QED BY <1>1, <2>2
<1>5. /\ \A i \in 1..L : out[i].piece \in {"magic", "header", "body", "filter"}
      /\ IsUnits(out)
  BY <1>3 DEF Plain
<1>6. \A i \in 1..L :
        /\ out[i].piece = "header" => /\ out[i].of.kind \in PageKinds
                                      /\ out[i].of.compressed \in Int
                                      /\ out[i].of.uncompressed \in Int
                                      /\ out[i].of.count \in Int
        /\ out[i].piece = "body" => out[i].of.page \in Page /\ out[i].of.behind \in Page
  BY <1>5 DEF IsUnits
<1> HIDE DEF L
<1>7. /\ Len(out') = L + (m + 2) /\ m \in Nat /\ m >= 1 /\ L \in Nat
      /\ \A i \in 1..(m + 2) : out'[L + i] = end[i]
  BY <1>1, <1>4
<1>8. out'[Len(out') - 1].piece = "length"
  <2>1. m + 1 \in 1..(m + 2) /\ Len(out') - 1 = L + (m + 1)
    BY <1>7
  <2> DEFINE b == m + 1
  <2>2. b \in 1..(m + 2)
    BY <2>1
  <2> HIDE DEF b
  <2>3. out'[L + b] = end[b]
    BY <1>7, <2>2
  <2> QED BY <1>1, <2>1, <2>3 DEF b
<1>9. ASSUME NEW i \in 1..Len(out')
      PROVE  LET v == out'
             IN  /\ v[i].piece = "length" => v[i].of \in Nat
                 /\ v[i].piece = "header" => /\ v[i].of.kind \in PageKinds /\ v[i].of.compressed \in Int
                                             /\ v[i].of.uncompressed \in Int /\ v[i].of.count \in Int
                 /\ v[i].piece = "body" => v[i].of.page \in Page /\ v[i].of.behind \in Page
                 /\ v[i].piece = "footer" => /\ i = Len(v) - 2 - v[i].len + v[i].at
                                             /\ v[Len(v) - 1].piece = "length"
                                             /\ IsMeta(v[i].of)
  <2>1. CASE i \in 1..L
    <3>1. out'[i] = out[i]
      BY <1>4, <2>1
    <3> QED BY <1>5, <1>6, <2>1, <3>1
  <2>2. CASE ~(i \in 1..L)
    <3> DEFINE k == i - L
    <3>1. k \in 1..(m + 2) /\ L + k = i
      BY <1>7, <2>2
    <3> HIDE DEF k
    <3>2. out'[i] = end[k]
      BY <1>7, <3>1
    <3>3. CASE k \in 1..m
      <4>1. end[k].piece = "footer" /\ end[k].of = TableFooter /\ end[k].at = k /\ end[k].len = m
        BY <1>1, <3>3
      <4>2. i = Len(out') - 2 - m + k
        BY <1>7, <3>1
      <4> QED BY <1>2, <1>8, <3>2, <4>1, <4>2
    <3>4. CASE k = m + 1
      BY <1>1, <1>7, <3>2, <3>4
    <3>5. CASE k = m + 2
      BY <1>1, <3>2, <3>5
    <3>6. k \in 1..m \/ k = m + 1 \/ k = m + 2
      BY <1>7, <3>1
    <3> QED BY <3>3, <3>4, <3>5, <3>6
  <2> QED BY <2>1, <2>2
<1> QED BY <1>4, <1>9 DEF Shaped

LEMMA StoredNext == HInv /\ Stored /\ [WriterNext]_writerVars => Stored'
<1> SUFFICES ASSUME HInv, Stored, [WriterNext]_writerVars PROVE Stored' OBVIOUS
<1>0. WInv /\ (phase # "done" => result = "none") /\ IsSeq(out)
  BY DEF HInv, WInv, Phases, Kinds
<1>1. CASE Begin
  <2>1. out' = Magic /\ result' = "none"
    BY <1>0, <1>1 DEF Begin
  <2>2. Plain(Magic)
    BY PlainPiece DEF Magic
  <2> QED BY <2>1, <2>2 DEF Stored
<1>2. CASE WriteDictPage
  <2> DEFINE units == PageUnits(DictPageOf(Slice(col)), Codec(col), "v1")
  <2>1. phase = "column" /\ out' = out \o units /\ result' = result /\ Len(prepared) < Len(columns)
    BY <1>2 DEF WriteDictPage, CanWrite, InColumn, Emit
  <2>2. Slice(col) \in Seq(Int)
    BY <1>0, <2>1, InChunk
  <2>3. IsSeq(units) /\ Plain(units)
    BY <2>2, PagesTyped, PlainPage
  <2> HIDE DEF units
  <2>4. Plain(out \o units)
    BY <1>0, <2>1, <2>3, PlainJoin DEF Stored
  <2> QED BY <1>0, <2>1, <2>4 DEF Stored
<1>3. CASE WriteDataPage
  <2> DEFINE page   == DataPageOf(col, Slice(col))
             units  == PageUnits(page, Codec(col), call.version)
             filter == Filter(col, Slice(col))
  <2>1. /\ phase \in {"column", "data"} /\ Len(prepared) < Len(columns)
        /\ out' = out \o (units \o filter) /\ result' = result
    BY <1>0, <1>3 DEF WriteDataPage, CanWrite, InColumn, Emit, WInv, TypeOK
  <2>2. Slice(col) \in Seq(Int)
    BY <1>0, <2>1, InChunk
  <2>3. IsSeq(units) /\ Plain(units)
    BY <2>2, PagesTyped, PlainPage
  <2>4. IsSeq(filter) /\ Plain(filter)
    BY FilterSeq, PlainPiece, PlainEmpty DEF Filter
  <2> HIDE DEF units, filter
  <2>5. IsSeq(units \o filter) /\ Plain(units \o filter)
    BY <2>3, <2>4, Concat, PlainJoin
  <2> DEFINE more == units \o filter
  <2>6. IsSeq(more) /\ Plain(more) /\ out' = out \o more
    BY <2>1, <2>5
  <2> HIDE DEF more
  <2>7. IsSeq(out) /\ Plain(out)
    BY <1>0, <2>1 DEF Stored
  <2>8. Plain(out \o more)
    BY <2>6, <2>7, PlainJoin
  <2> QED BY <1>0, <2>1, <2>6, <2>8 DEF Stored
<1>4. CASE WriteFooter
  <2>1. result' = "ok" /\ Shaped(out')
    BY <1>4, FooterShapes DEF WriteFooter
  <2> QED BY <2>1 DEF Stored, Shaped
<1>5. CASE EndGroup
  <2>1. out' = out /\ result' = result
    BY <1>5 DEF EndGroup
  <2> QED BY <2>1 DEF Stored, Plain, IsUnits, Shaped
<1>6. CASE UNCHANGED writerVars
  BY <1>6 DEF Stored, Plain, IsUnits, Shaped, writerVars
<1>7. CASE phase # "done" /\ \E r : r # "ok" /\ Stop(r)
  <2>1. out' = out /\ result' # "ok" /\ result = "none"
    BY <1>0, <1>7 DEF Stop
  <2> QED BY <2>1 DEF Stored, Plain, IsUnits, Shaped
<1>8. Refusal # "ok"
  BY DEF Refusal
<1> QED BY <1>1, <1>2, <1>3, <1>4, <1>5, <1>6, <1>7, <1>8
        DEF WriterNext, Refuse, Panic, RefuseCodec, FailWrite, Done, InColumn

(* A file that a call finished, if usize can index it, is one of the       *)
(* contents AsyncRead assumes of the objects of a store: what is proved of *)
(* the asynchronous reads holds of whatever write_table_inner_full_v2      *)
(* wrote.                                                                  *)
THEOREM WrittenIsContent == WriterSpec => [](result = "ok" /\ Len(out) < Word => IsContent(out))
<1>1. WriterInit => HInv /\ Stored
  <2> SUFFICES ASSUME WriterInit PROVE HInv /\ Stored OBVIOUS
  <2>1. out = << >> /\ result = "none"
    BY DEF WriterInit
  <2> QED BY <2>1, HInit, PlainEmpty DEF Stored
<1>2. Stored => (result = "ok" /\ Len(out) < Word => IsContent(out))
  BY ShapedIsContent DEF Stored
<1> QED BY <1>1, HNext, StoredNext, <1>2, PTL DEF WriterSpec
=============================================================================
