-------------------------- MODULE ChunkReaders_proofs --------------------------
(***************************************************************************)
(* For every set of chunks and every batch size: the streaming iterators   *)
(* keep their cursor inside the carry buffer, hand out every decoded row   *)
(* once and in order, decode at most a batch and a page ahead, and         *)
(* implement ChunkStream over the rows of the one-shot reader.  For every  *)
(* chunk, mask, predicate and dispatch option: the masked reader selects   *)
(* the rows whose bit is set, the adaptive reader the rows that pass, and  *)
(* a bitmap of the one handed to the other selects the same rows.          *)
(***************************************************************************)
EXTENDS ColumnBatchIter, LateMaterialise, ChunkPages_proofs, SequenceTheorems,
        FiniteSetTheorems, TLAPS

(* The page the walk stands on.                                            *)
LEMMA CurrentPage ==
  ASSUME TypeOK, NEW kinds, Walking(kinds)
  PROVE  /\ chunk.pages[walker_pos + 1] \in Page
         /\ walker_pos + 1 \in 1..NumPages
         /\ walker_pos' = walker_pos + 1
         /\ pc = "drain" /\ Pending < batch_size
         /\ chunk.pages[walker_pos + 1].kind \in kinds
  BY DEF TypeOK, Walking, WantsPage, NumPages

(* Initially nothing is decoded, delivered or carried.                     *)
LEMMA InitTypeOK == Init => TypeOK
<1> SUFFICES ASSUME Init PROVE TypeOK
  OBVIOUS
<1>1. chunk \in [pages : Seq(Page), total : Nat] /\ batch_size \in Nat
  BY ChunksAssumption, BatchSizesAssumption DEF Init
<1>2. Len(chunk.pages) \in Nat
  BY <1>1
<1>3. dict \in Seq(Int) /\ carry \in Seq(Int) /\ decoded \in Seq(Int) /\ delivered \in Seq(Int)
  BY DEF Init
<1>4. carry_pos \in 0..Len(carry) /\ walker_pos \in 0..NumPages
  BY <1>2 DEF Init, NumPages
<1>5. QED
  BY <1>1, <1>3, <1>4 DEF Init, TypeOK

(* Opening, asking for a batch and leaving the loop keep the cursor inside *)
(* the carry; so does a batch, whether or not it drains the carry.         *)
LEMMA NextTypeOK == TypeOK /\ [Next]_vars => TypeOK'
<1> SUFFICES ASSUME TypeOK, [Next]_vars
             PROVE  TypeOK'
  OBVIOUS
<1>1. CASE Open
  BY <1>1 DEF Open, TypeOK, cfgVars, iterVars, NumPages
<1>2. CASE CallNext
  BY <1>2 DEF CallNext, TypeOK, cfgVars, iterVars, NumPages
<1>3. CASE FillDictionary
  <2>1. /\ chunk.pages[walker_pos + 1] \in Page
        /\ walker_pos + 1 \in 1..NumPages
        /\ walker_pos' = walker_pos + 1
    BY <1>3, CurrentPage DEF FillDictionary, FillDictionaryWith
  <2>2. QED
    BY <1>3, <2>1 DEF FillDictionary, FillDictionaryWith, TypeOK, cfgVars, NumPages, Page
<1>4. CASE SkipIndexPage
  BY <1>4, CurrentPage DEF SkipIndexPage, TypeOK, cfgVars, NumPages
<1>5. CASE FillData
  <2> DEFINE page == chunk.pages[walker_pos + 1]
             new  == PageRows(page, dict)
  <2>1. /\ page \in Page /\ page.kind \in {"plain", "coded"}
        /\ walker_pos + 1 \in 1..NumPages
        /\ walker_pos' = walker_pos + 1
    BY <1>5, CurrentPage DEF FillData
  <2>2. new \in Seq(Int)
    BY <1>5, <2>1, PageRowsType DEF FillData, TypeOK, IsData, Page
  <2> HIDE DEF new
  <2>3. /\ carry' = carry \o new
        /\ emitted_to_carry' = emitted_to_carry + Len(new)
        /\ decoded' = decoded \o new
        /\ UNCHANGED <<cfgVars, pc, dict, carry_pos, finished, errored, delivered>>
    BY <1>5 DEF FillData, new
  <2>4. /\ carry \in Seq(Int) /\ decoded \in Seq(Int) /\ carry_pos \in 0..Len(carry)
        /\ emitted_to_carry \in Nat
    BY DEF TypeOK
  <2>5. carry' \in Seq(Int) /\ decoded' \in Seq(Int)
    BY <2>2, <2>3, <2>4
  <2>6. carry_pos' \in 0..Len(carry')
    <3>1. Len(carry') = Len(carry) + Len(new)
      BY <2>2, <2>3, <2>4
    <3>2. Len(new) \in Nat /\ Len(carry) \in Nat /\ carry_pos' = carry_pos
      BY <2>2, <2>3, <2>4
    <3> QED BY <2>4, <3>1, <3>2
  <2>7. emitted_to_carry' \in Nat
    <3>1. Len(new) \in Nat
      BY <2>2
    <3> QED BY <2>3, <2>4, <3>1
  <2>8. /\ chunk' = chunk /\ batch_size' = batch_size /\ owned' = owned /\ pc' = pc
        /\ dict' = dict /\ finished' = finished /\ errored' = errored
        /\ delivered' = delivered
    BY <2>3 DEF cfgVars
  <2>9. walker_pos' \in 0..NumPages'
    BY <2>1, <2>8 DEF NumPages, TypeOK
  <2>10. QED
    BY <2>5, <2>6, <2>7, <2>8, <2>9 DEF TypeOK
<1>6. CASE FillError
  BY <1>6, CurrentPage DEF FillError, TypeOK, cfgVars, NumPages
<1>7. CASE Finish
  BY <1>7 DEF Finish, TypeOK, cfgVars, NumPages
<1>8. CASE EmitBatch
  <2>1. /\ BatchLen \in Nat /\ BatchLen <= Pending
    BY <1>8 DEF TypeOK, BatchLen, Pending
  <2>2. AfterTake \in Seq(Int) /\ Len(AfterTake) = Len(carry)
    BY DEF TypeOK, AfterTake, Taken
  <2>3. SubSeq(carry, carry_pos + 1, carry_pos + BatchLen) \in Seq(Int)
    BY <2>1 DEF TypeOK, Pending
  <2>4. carry' \in Seq(Int) /\ carry_pos' \in 0..Len(carry')
    BY <1>8, <2>1, <2>2 DEF EmitBatch, EmitLeaving, TypeOK, Pending, Drained
  <2>5. delivered' \in Seq(Int)
    BY <1>8, <2>3 DEF EmitBatch, EmitLeaving, TypeOK
  <2>6. QED
    BY <1>8, <2>4, <2>5 DEF EmitBatch, EmitLeaving, TypeOK, cfgVars, NumPages
<1>9. CASE Ended \/ UNCHANGED vars
  BY <1>9 DEF Ended, vars, TypeOK, cfgVars, iterVars, NumPages
<1>10. QED
  BY <1>1, <1>2, <1>3, <1>4, <1>5, <1>6, <1>7, <1>8, <1>9 DEF Next, Fill

(* Types and the carry cursor of the streaming decoders (drain_one_batch   *)
(* and fill_one_page of both iterators).                                   *)
THEOREM TypeCorrect == Spec => []TypeOK
<1>1. QED
  BY InitTypeOK, NextTypeOK, PTL DEF Spec

-----------------------------------------------------------------------------
(* The rows handed out and the rows carried, together, are the rows        *)
(* decoded.                                                                *)

LEMMA InitCarry == Init => CarryHoldsTheRest
  BY DEF Init, CarryHoldsTheRest, Pending

(* A page's rows go to the end of both the carry and the decoded rows.     *)
LEMMA FillDataCarry ==
  ASSUME TypeOK, CarryHoldsTheRest, FillData
  PROVE  CarryHoldsTheRest'
<1> DEFINE page == chunk.pages[walker_pos + 1]
           new  == PageRows(page, dict)
<1>1. page \in Page /\ page.kind \in {"plain", "coded"}
  BY CurrentPage DEF FillData
<1>2. new \in Seq(Int)
  BY <1>1, PageRowsType DEF FillData, TypeOK, IsData, Page
<1> HIDE DEF new
<1>3. /\ carry' = carry \o new
      /\ emitted_to_carry' = emitted_to_carry + Len(new)
      /\ decoded' = decoded \o new
      /\ carry_pos' = carry_pos /\ delivered' = delivered
  BY DEF FillData, new
<1>4. /\ Len(carry') = Len(carry) + Len(new)
      /\ Len(decoded') = Len(decoded) + Len(new)
      /\ \A k \in 1..(Len(carry) + Len(new)) :
            carry'[k] = IF k <= Len(carry) THEN carry[k] ELSE new[k - Len(carry)]
      /\ \A k \in 1..(Len(decoded) + Len(new)) :
            decoded'[k] = IF k <= Len(decoded) THEN decoded[k] ELSE new[k - Len(decoded)]
  <2>1. carry \in Seq(Int) /\ decoded \in Seq(Int)
    BY DEF TypeOK
  <2>2. QED
    BY <1>2, <1>3, <2>1, ConcatProperties
<1>5. Pending' = Pending + Len(new)
  BY <1>2, <1>3, <1>4 DEF Pending, TypeOK
<1> DEFINE c == Len(carry)
           d == Len(decoded)
           e == Len(delivered)
<1>6. /\ c \in Nat /\ d \in Nat /\ e \in Nat /\ Len(new) \in Nat
      /\ carry_pos \in 0..c /\ Pending = c - carry_pos
      /\ d = e + Pending /\ emitted_to_carry = d
  BY <1>2 DEF TypeOK, CarryHoldsTheRest, Pending
<1>7. ASSUME NEW i \in 1..Len(delivered') PROVE delivered'[i] = decoded'[i]
  <2>1. i \in 1..e /\ i \in 1..(d + Len(new)) /\ i <= d
    BY <1>3, <1>6
  <2>2. QED
    BY <1>3, <1>4, <2>1 DEF CarryHoldsTheRest
<1>8. ASSUME NEW i \in 1..Pending' PROVE carry'[carry_pos' + i] = decoded'[Len(delivered') + i]
  <2>1. /\ carry_pos + i \in 1..(c + Len(new)) /\ e + i \in 1..(d + Len(new))
        /\ (carry_pos + i) - c = (e + i) - d
        /\ (carry_pos + i <= c) <=> i <= Pending
        /\ (e + i <= d) <=> i <= Pending
    BY <1>5, <1>6
  <2>2. CASE i <= Pending
    <3>1. carry'[carry_pos + i] = carry[carry_pos + i] /\ decoded'[e + i] = decoded[e + i]
      BY <1>4, <2>1, <2>2
    <3>2. carry[carry_pos + i] = decoded[e + i]
      BY <2>2, <1>6 DEF CarryHoldsTheRest
    <3>3. QED
      BY <1>3, <3>1, <3>2
  <2>3. CASE ~(i <= Pending)
    BY <1>3, <1>4, <2>1, <2>3
  <2>4. QED
    BY <2>2, <2>3
<1>9. /\ emitted_to_carry' = Len(decoded')
      /\ Len(decoded') = Len(delivered') + Pending'
  BY <1>3, <1>4, <1>5, <1>6
<1>10. QED
  BY <1>7, <1>8, <1>9 DEF CarryHoldsTheRest

(* A batch moves the cursor over exactly the rows it hands out.  The holes *)
(* mem::take leaves lie before the cursor.                                 *)
LEMMA EmitBatchCarry ==
  ASSUME TypeOK, CarryHoldsTheRest, EmitBatch
  PROVE  CarryHoldsTheRest'
<1> DEFINE n == BatchLen
           slice == SubSeq(carry, carry_pos + 1, carry_pos + n)
<1>1. n \in Nat /\ n <= Pending
  BY DEF TypeOK, BatchLen, Pending
<1>2. /\ slice \in Seq(Int) /\ Len(slice) = n
      /\ \A i \in 1..n : slice[i] = carry[carry_pos + i]
  <2>1. /\ carry \in Seq(Int) /\ carry_pos \in 0..Len(carry)
        /\ carry_pos + 1 \in Int /\ carry_pos + n \in Int /\ carry_pos + n <= Len(carry)
    BY <1>1 DEF TypeOK, Pending
  <2>2. \A k \in (carry_pos + 1)..(carry_pos + n) : carry[k] \in Int
    BY <1>1, <2>1, ElementOfSeq
  <2>3. /\ slice \in Seq(Int)
        /\ Len(slice) = IF carry_pos + 1 <= carry_pos + n
                      THEN (carry_pos + n) - (carry_pos + 1) + 1 ELSE 0
        /\ \A i \in 1..((carry_pos + n) - (carry_pos + 1) + 1) : slice[i] = carry[(carry_pos + 1) + i - 1]
    BY <2>1, <2>2, SubSeqProperties
  <2>4. Len(slice) = n /\ (carry_pos + n) - (carry_pos + 1) + 1 = n
    BY <1>1, <2>1, <2>3
  <2>5. ASSUME NEW i \in 1..n PROVE slice[i] = carry[carry_pos + i]
    <3>1. (carry_pos + 1) + i - 1 = carry_pos + i
      BY <2>1
    <3>2. QED
      BY <2>3, <2>4, <3>1
  <2>6. QED
    BY <2>3, <2>4, <2>5
<1> HIDE DEF slice, n
<1>3. /\ delivered' = delivered \o slice
      /\ decoded' = decoded /\ emitted_to_carry' = emitted_to_carry
  BY DEF EmitBatch, EmitLeaving, slice, n
<1>4. /\ Len(delivered') = Len(delivered) + n
      /\ \A k \in 1..(Len(delivered) + n) :
            delivered'[k] = IF k <= Len(delivered) THEN delivered[k]
                            ELSE slice[k - Len(delivered)]
  <2>1. delivered \in Seq(Int)
    BY DEF TypeOK
  <2>2. QED
    BY <1>2, <1>3, <2>1, ConcatProperties
<1>5. ASSUME NEW i \in 1..Len(delivered') PROVE delivered'[i] = decoded'[i]
  <2>1. CASE i <= Len(delivered)
    <3>1. i \in 1..Len(delivered) /\ delivered'[i] = delivered[i]
      BY <1>4, <2>1 DEF TypeOK
    <3>2. QED
      BY <1>3, <3>1 DEF CarryHoldsTheRest
  <2>2. CASE ~(i <= Len(delivered))
    <3> DEFINE j == i - Len(delivered)
    <3>1. j \in 1..n /\ j \in 1..Pending
      BY <1>1, <1>4, <2>2 DEF TypeOK, Pending
    <3>2. delivered'[i] = slice[j]
      BY <1>4, <2>2
    <3>3. slice[j] = decoded[Len(delivered) + j]
      BY <1>2, <3>1 DEF CarryHoldsTheRest
    <3>4. Len(delivered) + j = i
      BY DEF TypeOK
    <3>5. QED
      BY <1>3, <3>2, <3>3, <3>4
  <2>3. QED
    BY <2>1, <2>2
<1>6. CASE Drained
  <2>1. n = Pending /\ carry' = << >> /\ carry_pos' = 0
    BY <1>6 DEF EmitBatch, EmitLeaving, Drained, n, Pending, TypeOK, BatchLen
  <2>2. Pending' = 0
    BY <2>1 DEF Pending
  <2>3. QED
    BY <1>3, <1>4, <1>5, <2>1, <2>2 DEF CarryHoldsTheRest, TypeOK
<1>7. CASE ~Drained
  <2>1. carry' = AfterTake /\ carry_pos' = carry_pos + n
    BY <1>7 DEF EmitBatch, EmitLeaving, n
  <2>2. /\ Len(AfterTake) = Len(carry)
        /\ \A k \in (carry_pos + n + 1)..Len(carry) : AfterTake[k] = carry[k]
    BY <1>1 DEF AfterTake, TypeOK, n
  <2>3. Pending' = Pending - n
    BY <1>1, <2>1, <2>2 DEF Pending, TypeOK
  <2>4. ASSUME NEW i \in 1..Pending'
        PROVE  carry'[carry_pos' + i] = decoded'[Len(delivered') + i]
    <3>1. n + i \in 1..Pending /\ carry_pos + n + i \in (carry_pos + n + 1)..Len(carry)
      BY <1>1, <2>3 DEF Pending, TypeOK
    <3>2. carry[carry_pos + (n + i)] = decoded[Len(delivered) + (n + i)]
      BY <3>1 DEF CarryHoldsTheRest
    <3>3. carry'[carry_pos' + i] = carry[carry_pos + n + i]
      BY <2>1, <2>2, <3>1
    <3>4. /\ carry_pos + (n + i) = carry_pos + n + i
          /\ Len(delivered') + i = Len(delivered) + (n + i)
      BY <1>1, <1>4, <2>3 DEF TypeOK, Pending
    <3>5. QED
      BY <1>3, <3>2, <3>3, <3>4
  <2>5. Len(decoded') = Len(delivered') + Pending'
    BY <1>1, <1>3, <1>4, <2>3 DEF CarryHoldsTheRest, Pending, TypeOK
  <2>6. QED
    BY <1>3, <1>5, <2>4, <2>5 DEF CarryHoldsTheRest
<1>8. QED
  BY <1>6, <1>7

LEMMA NextCarry == TypeOK /\ CarryHoldsTheRest /\ [Next]_vars => CarryHoldsTheRest'
<1> SUFFICES ASSUME TypeOK, CarryHoldsTheRest, [Next]_vars
             PROVE  CarryHoldsTheRest'
  OBVIOUS
<1>1. CASE FillData
  BY <1>1, FillDataCarry
<1>2. CASE EmitBatch
  BY <1>2, EmitBatchCarry
<1>3. CASE UNCHANGED <<carry, carry_pos, emitted_to_carry, decoded, delivered>>
  BY <1>3 DEF CarryHoldsTheRest, Pending
<1>4. Open \/ CallNext \/ FillDictionary \/ SkipIndexPage \/ FillError \/ Finish \/ Ended
      \/ UNCHANGED vars
      => UNCHANGED <<carry, carry_pos, emitted_to_carry, decoded, delivered>>
  BY DEF Open, CallNext, FillDictionary, FillDictionaryWith, SkipIndexPage, FillError,
         Finish, Ended, vars, iterVars
<1>5. QED
  BY <1>1, <1>2, <1>3, <1>4 DEF Next, Fill

(* No row of a chunk is lost, repeated, reordered or handed out as a hole, *)
(* for every chunk, every batch size and both iterators.                   *)
THEOREM NoRowLostOrRepeated == Spec => []CarryHoldsTheRest
<1>1. QED
  BY InitCarry, NextCarry, TypeCorrect, PTL DEF Spec

-----------------------------------------------------------------------------
(* A page is decoded only while less than a batch is waiting.              *)

LEMMA NextDecodeAhead == TypeOK /\ DecodeAheadBounded /\ [Next]_vars => DecodeAheadBounded'
<1> SUFFICES ASSUME TypeOK, DecodeAheadBounded, [Next]_vars, Pending' > 0
             PROVE  WithinAPage(Pending, batch_size - 1)'
  BY DEF DecodeAheadBounded
<1>1. CASE FillData
  <2> DEFINE page == chunk.pages[walker_pos + 1]
             new  == PageRows(page, dict)
  <2>1. /\ page \in Page /\ IsData(page)
        /\ walker_pos' = walker_pos + 1 /\ walker_pos \in Nat
        /\ Pending < batch_size
        /\ chunk' = chunk /\ batch_size' = batch_size
    BY <1>1, CurrentPage DEF FillData, IsData, TypeOK, cfgVars
  <2>2. new \in Seq(Int) /\ Len(new) = Len(page.vals)
    BY <1>1, <2>1, PageRowsType DEF FillData, TypeOK, Page
  <2> HIDE DEF new
  <2>3. Pending' = Pending + Len(page.vals)
    <3>1. carry' = carry \o new /\ carry_pos' = carry_pos
      BY <1>1 DEF FillData, new
    <3>2. Len(carry') = Len(carry) + Len(new)
      BY <2>2, <3>1, ConcatProperties DEF TypeOK
    <3>3. QED
      BY <2>2, <3>1, <3>2 DEF Pending, TypeOK
  <2>4. Pending' <= Len(page.vals) + (batch_size - 1)
    BY <2>1, <2>2, <2>3 DEF Pending, TypeOK
  <2>5. walker_pos + 1 \in 1..walker_pos'
    BY <2>1
  <2>6. QED
    BY <2>1, <2>4, <2>5 DEF WithinAPage
<1>2. CASE ~FillData
  <2>1. /\ chunk' = chunk /\ batch_size' = batch_size
        /\ walker_pos' \in {walker_pos, walker_pos + 1}
    BY <1>2 DEF Next, Fill, Open, CallNext, FillDictionary, FillDictionaryWith,
                SkipIndexPage, FillError, Finish, EmitBatch, EmitLeaving, Ended,
                Walking, vars, cfgVars, iterVars
  <2>2. Pending' \in Nat /\ Pending \in Nat /\ Pending' <= Pending
    <3>1. CASE EmitBatch
      <4>1. BatchLen \in Nat /\ BatchLen <= Pending
        BY DEF TypeOK, BatchLen, Pending
      <4>2. Len(AfterTake) = Len(carry)
        BY DEF AfterTake, TypeOK
      <4>3. QED
        BY <3>1, <4>1, <4>2 DEF EmitBatch, EmitLeaving, Pending, Drained, TypeOK
    <3>2. CASE ~EmitBatch
      <4>1. carry' = carry /\ carry_pos' = carry_pos
        BY <1>2, <3>2 DEF Next, Fill, Open, CallNext, FillDictionary, FillDictionaryWith,
                SkipIndexPage, FillError, Finish, Ended, vars, iterVars
      <4>2. QED
        BY <4>1 DEF Pending, TypeOK
    <3>3. QED
      BY <3>1, <3>2
  <2>3. PICK i \in 1..walker_pos :
          IsData(chunk.pages[i]) /\ Pending <= Len(chunk.pages[i].vals) + (batch_size - 1)
    <3>1. Pending > 0
      BY <2>2
    <3>2. QED
      BY <3>1 DEF DecodeAheadBounded, WithinAPage
  <2>4. i \in 1..walker_pos' /\ Len(chunk.pages[i].vals) \in Nat
    BY <2>1 DEF TypeOK, NumPages, Page
  <2>5. Pending' <= Len(chunk.pages[i].vals) + (batch_size - 1)
    <3>1. batch_size \in Nat
      BY DEF TypeOK
    <3>2. QED
      BY <2>2, <2>3, <2>4, <3>1
  <2>6. QED
    BY <2>1, <2>3, <2>4, <2>5 DEF WithinAPage
<1>3. QED
  BY <1>1, <1>2

(* Decode-ahead stays below a batch and a page, for every chunk and batch  *)
(* size (the carry buffer itself is not bounded: delivered rows stay in it).*)
THEOREM BoundedDecodeAhead == Spec => []DecodeAheadBounded
<1>1. Init => DecodeAheadBounded
  BY DEF Init, DecodeAheadBounded, Pending
<1>2. QED
  BY <1>1, NextDecodeAhead, TypeCorrect, PTL DEF Spec

-----------------------------------------------------------------------------
(* The stream against the one-shot reader, page by page.                   *)

Read  == After(chunk.pages, chunk.total)
Whole == OneShot(chunk.pages, chunk.total)

(* What has been decoded is what the one-shot reader has at that page.     *)
Abreast ==
  /\ Read[walker_pos].out = decoded
  /\ pc \in {"idle", "drain"} => batch_size > 0
  /\ pc = "drain" => ~finished
  /\ errored => finished /\ Read[walker_pos].err
  /\ ~errored => Read[walker_pos].dict = dict /\ ~Read[walker_pos].err
  /\ pc \in {"new", "rejected"} => ~finished /\ ~errored
  /\ chunk \in Chunks
  /\ Read[walker_pos].done => emitted_to_carry >= chunk.total

StreamInv == TypeOK /\ CarryHoldsTheRest /\ Abreast

LEMMA ChunkIsInt == ASSUME TypeOK PROVE IntPages(chunk.pages) /\ chunk.total \in Int
<1> DEFINE ps == chunk.pages
<1>1. ps \in Seq(Page) /\ chunk.total \in Nat
  BY DEF TypeOK
<1> HIDE DEF ps
<1>2. Len(ps) \in Nat /\ \A k \in 1..Len(ps) : ps[k] \in Page
  BY <1>1
<1>3. \A k \in 1..Len(ps) : ps[k].vals \in Seq(Int)
  BY <1>2 DEF Page
<1> QED BY <1>1, <1>2, <1>3 DEF IntPages, ps

LEMMA InitAbreast == Init => Abreast
<1> SUFFICES ASSUME Init PROVE Abreast OBVIOUS
<1>1. IntPages(chunk.pages) /\ chunk.total \in Int
  BY InitTypeOK, ChunkIsInt
<1>2. Read[0] = Opening
  BY <1>1, AfterPages DEF Read
<1> QED BY <1>2 DEF Init, Abreast, Opening

(* A page that the stream takes, the one-shot reader takes too.            *)
LEMMA TakesPage ==
  ASSUME StreamInv, NEW kinds, Walking(kinds)
  PROVE  /\ ~Read[walker_pos].done /\ ~Read[walker_pos].err /\ ~errored
         /\ Read[walker_pos + 1] = ReadPage(Read[walker_pos], chunk.pages[walker_pos + 1], chunk.total)
         /\ Read[walker_pos] \in ReaderStates /\ Read[walker_pos + 1] \in ReaderStates
         /\ Read[walker_pos].out = decoded /\ Read[walker_pos].dict = dict
<1>1. /\ walker_pos + 1 \in 1..NumPages /\ walker_pos + 1 - 1 = walker_pos
      /\ walker_pos \in 0..NumPages /\ walker_pos + 1 \in 0..NumPages
  BY CurrentPage DEF StreamInv, TypeOK, NumPages
<1>2. /\ Read \in [0..NumPages -> ReaderStates]
      /\ \A k \in 1..NumPages : Read[k] = ReadPage(Read[k - 1], chunk.pages[k], chunk.total)
  BY ChunkIsInt, AfterPages DEF StreamInv, Read, NumPages
<1>3. emitted_to_carry < chunk.total /\ pc = "drain" /\ emitted_to_carry \in Nat /\ chunk.total \in Nat
  BY DEF Walking, WantsPage, StreamInv, TypeOK
<1>4. ~Read[walker_pos].done /\ ~errored
  BY <1>3 DEF StreamInv, Abreast
<1> DEFINE w == walker_pos + 1
<1>5. w \in 1..NumPages /\ w - 1 = walker_pos
  BY <1>1
<1> HIDE DEF w
<1>6. Read[w] = ReadPage(Read[walker_pos], chunk.pages[w], chunk.total)
  BY <1>2, <1>5
<1>7. Read[walker_pos] \in ReaderStates /\ Read[walker_pos + 1] \in ReaderStates
  BY <1>1, <1>2
<1> QED BY <1>4, <1>6, <1>7 DEF StreamInv, Abreast, w

LEMMA NextAbreast == StreamInv /\ [Next]_vars => Abreast'
<1> SUFFICES ASSUME StreamInv, [Next]_vars PROVE Abreast' OBVIOUS
<1>0. TypeOK /\ Abreast /\ emitted_to_carry = Len(decoded)
  BY DEF StreamInv, CarryHoldsTheRest
<1>1. CASE Open
  <2>1. /\ UNCHANGED <<cfgVars, iterVars, errored, decoded>> /\ pc = "new"
        /\ pc' = IF batch_size = 0 THEN "rejected" ELSE "idle"
    BY <1>1 DEF Open
  <2>2. Read' = Read
    BY <2>1 DEF Read, cfgVars
  <2> QED BY <1>0, <2>1, <2>2 DEF Abreast, cfgVars, iterVars, TypeOK
<1>2. CASE CallNext
  <2>1. Read' = Read
    BY <1>2 DEF CallNext, Read, cfgVars
  <2> QED BY <1>0, <1>2, <2>1 DEF CallNext, Abreast, cfgVars, iterVars
<1>3. CASE FillDictionary
  <2> DEFINE page == chunk.pages[walker_pos + 1]
             next == Read[walker_pos + 1]
  <2>1. /\ walker_pos' = walker_pos + 1 /\ dict' = page.vals /\ page.kind = "dict"
        /\ UNCHANGED <<cfgVars, pc, carry, carry_pos, emitted_to_carry, finished, errored, decoded>>
    BY <1>0, <1>3, CurrentPage DEF FillDictionary, FillDictionaryWith
  <2>2. /\ ~Read[walker_pos].done /\ ~Read[walker_pos].err /\ ~errored
        /\ next = ReadPage(Read[walker_pos], page, chunk.total)
        /\ Read[walker_pos].out = decoded
    BY <1>3, TakesPage DEF FillDictionary, FillDictionaryWith
  <2>3. next.out = decoded /\ next.dict = page.vals /\ ~next.err
        /\ (next.done => Len(decoded) >= chunk.total)
    <3> DEFINE s == Read[walker_pos]
    <3>1. ~s.err /\ ~s.done /\ next = ReadPage(s, page, chunk.total)
      BY <2>2
    <3> HIDE DEF s, page, next
    <3>2. /\ next.done = (Len(next.out) >= chunk.total)
          /\ next.dict = IF page.kind = "dict" THEN page.vals ELSE s.dict
          /\ next.out = IF IsData(page) /\ Decodable(page, s.dict)
                        THEN s.out \o PageRows(page, s.dict) ELSE s.out
          /\ next.err <=> page.kind = "bad" \/ (IsData(page) /\ ~Decodable(page, s.dict))
      BY <3>1, ReadsOn
    <3> QED BY <2>1, <2>2, <3>2 DEF IsData, s
  <2>4. Read' = Read
    BY <2>1 DEF Read, cfgVars
  <2> HIDE DEF page, next
  <2>5. Read'[walker_pos'] = next
    BY <2>1, <2>4 DEF next
  <2> QED BY <1>0, <2>1, <2>2, <2>3, <2>5 DEF Abreast, cfgVars
<1>4. CASE SkipIndexPage
  <2> DEFINE page == chunk.pages[walker_pos + 1]
             next == Read[walker_pos + 1]
  <2>1. /\ walker_pos' = walker_pos + 1 /\ page.kind = "index"
        /\ UNCHANGED <<cfgVars, pc, dict, carry, carry_pos, emitted_to_carry, finished,
                       errored, decoded>>
    BY <1>0, <1>4, CurrentPage DEF SkipIndexPage
  <2>2. /\ ~Read[walker_pos].done /\ ~Read[walker_pos].err /\ ~errored
        /\ next = ReadPage(Read[walker_pos], page, chunk.total)
        /\ Read[walker_pos].out = decoded /\ Read[walker_pos].dict = dict
    BY <1>4, TakesPage DEF SkipIndexPage
  <2>3. next.out = decoded /\ next.dict = dict /\ ~next.err
        /\ (next.done => Len(decoded) >= chunk.total)
    <3> DEFINE s == Read[walker_pos]
    <3>1. ~s.err /\ ~s.done /\ next = ReadPage(s, page, chunk.total)
      BY <2>2
    <3> HIDE DEF s, page, next
    <3>2. /\ next.done = (Len(next.out) >= chunk.total)
          /\ next.dict = IF page.kind = "dict" THEN page.vals ELSE s.dict
          /\ next.out = IF IsData(page) /\ Decodable(page, s.dict)
                        THEN s.out \o PageRows(page, s.dict) ELSE s.out
          /\ next.err <=> page.kind = "bad" \/ (IsData(page) /\ ~Decodable(page, s.dict))
      BY <3>1, ReadsOn
    <3> QED BY <2>1, <2>2, <3>2 DEF IsData, s
  <2>4. Read' = Read
    BY <2>1 DEF Read, cfgVars
  <2> HIDE DEF page, next
  <2>5. Read'[walker_pos'] = next
    BY <2>1, <2>4 DEF next
  <2> QED BY <1>0, <2>1, <2>2, <2>3, <2>5 DEF Abreast, cfgVars
<1>5. CASE FillData
  <2> DEFINE page == chunk.pages[walker_pos + 1]
             next == Read[walker_pos + 1]
             new  == PageRows(page, dict)
  <2>1. /\ walker_pos' = walker_pos + 1 /\ page.kind \in {"plain", "coded"} /\ page \in Page
        /\ Decodable(page, dict) /\ emitted_to_carry' = emitted_to_carry + Len(new)
        /\ decoded' = decoded \o new
        /\ UNCHANGED <<cfgVars, pc, dict, carry_pos, finished, errored>>
    BY <1>0, <1>5, CurrentPage DEF FillData
  <2>2. /\ ~Read[walker_pos].done /\ ~Read[walker_pos].err /\ ~errored
        /\ next = ReadPage(Read[walker_pos], page, chunk.total)
        /\ Read[walker_pos].out = decoded /\ Read[walker_pos].dict = dict
    BY <1>5, TakesPage DEF FillData
  <2>3. new \in Seq(Int) /\ decoded \in Seq(Int)
    BY <1>0, <2>1, PageRowsType DEF TypeOK, IsData, Page
  <2>4. next.out = decoded \o new /\ next.dict = dict /\ ~next.err
        /\ (next.done => Len(decoded \o new) >= chunk.total)
    <3> DEFINE s == Read[walker_pos]
    <3>1. ~s.err /\ ~s.done /\ next = ReadPage(s, page, chunk.total)
      BY <2>2
    <3> HIDE DEF s, page, next
    <3>2. /\ next.done = (Len(next.out) >= chunk.total)
          /\ next.dict = IF page.kind = "dict" THEN page.vals ELSE s.dict
          /\ next.out = IF IsData(page) /\ Decodable(page, s.dict)
                        THEN s.out \o PageRows(page, s.dict) ELSE s.out
          /\ next.err <=> page.kind = "bad" \/ (IsData(page) /\ ~Decodable(page, s.dict))
      BY <3>1, ReadsOn
    <3> QED BY <2>1, <2>2, <3>2 DEF IsData, s
  <2>5. Read' = Read
    BY <2>1 DEF Read, cfgVars
  <2> HIDE DEF page, next, new
  <2>6. Read'[walker_pos'] = next
    BY <2>1, <2>5 DEF next
  <2>7. emitted_to_carry' = Len(decoded \o new)
    BY <1>0, <2>1, <2>3
  <2> QED BY <1>0, <2>1, <2>2, <2>4, <2>6, <2>7 DEF Abreast, cfgVars
<1>6. CASE FillError
  <2> DEFINE page == chunk.pages[walker_pos + 1]
             next == Read[walker_pos + 1]
  <2>1. /\ walker_pos' = walker_pos + 1 /\ page.kind \in {"plain", "coded", "bad"}
        /\ ~Decodable(page, dict) /\ finished' = TRUE /\ errored' = TRUE /\ pc' = "idle"
        /\ UNCHANGED <<cfgVars, dict, carry, carry_pos, emitted_to_carry, decoded>>
        /\ pc = "drain"
    BY <1>0, <1>6, CurrentPage DEF FillError
  <2>2. /\ ~Read[walker_pos].done /\ ~Read[walker_pos].err
        /\ next = ReadPage(Read[walker_pos], page, chunk.total)
        /\ Read[walker_pos].out = decoded /\ Read[walker_pos].dict = dict
    BY <1>6, TakesPage DEF FillError
  <2>3. next.out = decoded /\ next.err /\ (next.done => Len(decoded) >= chunk.total)
    <3> DEFINE s == Read[walker_pos]
    <3>1. ~s.err /\ ~s.done /\ next = ReadPage(s, page, chunk.total)
      BY <2>2
    <3> HIDE DEF s, page, next
    <3>2. /\ next.done = (Len(next.out) >= chunk.total)
          /\ next.dict = IF page.kind = "dict" THEN page.vals ELSE s.dict
          /\ next.out = IF IsData(page) /\ Decodable(page, s.dict)
                        THEN s.out \o PageRows(page, s.dict) ELSE s.out
          /\ next.err <=> page.kind = "bad" \/ (IsData(page) /\ ~Decodable(page, s.dict))
      BY <3>1, ReadsOn
    <3> QED BY <2>1, <2>2, <3>2 DEF IsData, s
  <2>4. Read' = Read
    BY <2>1 DEF Read, cfgVars
  <2> HIDE DEF page, next
  <2>5. Read'[walker_pos'] = next
    BY <2>1, <2>4 DEF next
  <2> QED BY <1>0, <2>1, <2>3, <2>5 DEF Abreast, cfgVars
<1>7. CASE Finish \/ EmitBatch
  <2>1. /\ pc = "drain" /\ pc' = "idle"
        /\ UNCHANGED <<cfgVars, walker_pos, dict, emitted_to_carry, errored, decoded>>
    BY <1>7 DEF Finish, EmitBatch, EmitLeaving, LoopLeft
  <2>2. Read' = Read
    BY <2>1 DEF Read, cfgVars
  <2> QED BY <1>0, <2>1, <2>2 DEF Abreast, cfgVars
<1>8. CASE Ended \/ UNCHANGED vars
  <2>1. UNCHANGED vars
    BY <1>8 DEF Ended
  <2>2. Read' = Read
    BY <2>1 DEF Read, vars, cfgVars
  <2> QED BY <1>0, <2>1, <2>2 DEF Abreast, vars, cfgVars, iterVars
<1> QED BY <1>1, <1>2, <1>3, <1>4, <1>5, <1>6, <1>7, <1>8 DEF Next, Fill

(* Out of the loop with less than a batch: the chunk is read to its end.   *)
LEMMA ReadToTheEnd ==
  ASSUME StreamInv, EmptyIsEmpty, LoopLeft, Pending < batch_size
  PROVE  Whole.out = decoded /\ Whole.err = FALSE
<1>1. /\ IntPages(chunk.pages) /\ chunk.total \in Int /\ chunk.total \in Nat
      /\ walker_pos \in 0..NumPages /\ emitted_to_carry \in Nat
  BY ChunkIsInt DEF StreamInv, TypeOK
<1>2. /\ Read \in [0..NumPages -> ReaderStates] /\ Read[0] = Opening
      /\ \A k \in 1..NumPages : Read[k] = ReadPage(Read[k - 1], chunk.pages[k], chunk.total)
  BY <1>1, AfterPages DEF Read, NumPages
<1>3. /\ Read[walker_pos].out = decoded /\ ~errored /\ ~Read[walker_pos].err
      /\ emitted_to_carry = Len(decoded)
  BY DEF StreamInv, Abreast, CarryHoldsTheRest, LoopLeft
<1>4. Read[walker_pos].err = FALSE
  <2>1. Read[walker_pos].err \in BOOLEAN
    BY <1>1, <1>2 DEF ReaderStates
  <2> QED BY <1>3, <2>1
<1>5. CASE walker_pos = NumPages
  <2>1. Whole = Read[walker_pos]
    BY <1>5 DEF Whole, OneShot, Read, NumPages
  <2> QED BY <1>3, <1>4, <2>1
<1>6. CASE walker_pos # NumPages
  <2>1. emitted_to_carry >= chunk.total
    BY <1>1, <1>6 DEF LoopLeft, WantsPage
  <2>2. CASE Read[walker_pos].done
    <3>1. walker_pos \in 0..Len(chunk.pages) /\ After(chunk.pages, chunk.total)[walker_pos].done
      BY <1>1, <2>2 DEF Read, NumPages
    <3>2. Whole = Read[walker_pos]
      BY <1>1, <3>1, StaysPut DEF Whole, Read
    <3> QED BY <1>3, <1>4, <3>2
  <2>3. CASE ~Read[walker_pos].done
    <3>1. walker_pos = 0
      <4> SUFFICES ASSUME walker_pos # 0 PROVE FALSE OBVIOUS
      <4>1. walker_pos \in 1..NumPages /\ walker_pos - 1 \in 0..NumPages
        BY <1>1 DEF NumPages, IntPages
      <4>2. Read[walker_pos] = ReadPage(Read[walker_pos - 1], chunk.pages[walker_pos], chunk.total)
        BY <1>2, <4>1
      <4> DEFINE s == Read[walker_pos - 1]
                 t == Read[walker_pos]
      <4>3. CASE s.err \/ s.done
        <5>1. t = s
          BY <4>2, <4>3 DEF ReadPage
        <5> QED BY <1>3, <2>3, <4>3, <5>1
      <4>4. CASE ~s.err /\ ~s.done
        <5>1. t = ReadPage(s, chunk.pages[walker_pos], chunk.total)
          BY <4>2
        <5> HIDE DEF s, t
        <5>2. t.done = (Len(t.out) >= chunk.total)
          BY <4>4, <5>1, ReadsOn
        <5> QED BY <1>3, <2>1, <2>3, <5>2 DEF t
      <4> QED BY <4>3, <4>4
    <3>2. decoded = << >> /\ emitted_to_carry = 0
      BY <1>2, <1>3, <3>1 DEF Opening
    <3>3. chunk.total = 0
      BY <1>1, <2>1, <3>2
    <3>4. chunk \in Chunks
      BY DEF StreamInv, Abreast
    <3> QED BY <3>2, <3>3, <3>4 DEF EmptyIsEmpty, Whole
  <2> QED BY <2>2, <2>3
<1> QED BY <1>5, <1>6

-----------------------------------------------------------------------------
(* The steps of the stream as steps of ChunkStream.                        *)

Status == CASE pc = "rejected" \/ errored -> "failed"
            [] finished /\ ~errored       -> "done"
            [] OTHER                      -> "open"

(* The rows, the error and the batch size are settled at the start.        *)
LEMMA ChunkSettled ==
  ASSUME chunk' = chunk PROVE Whole' = Whole
  BY DEF Whole

LEMMA WholeType ==
  ASSUME TypeOK PROVE Whole \in ReaderStates /\ Whole.out \in Seq(Int) /\ Whole.err \in BOOLEAN
<1>1. Whole \in ReaderStates
  BY ChunkIsInt, OneShotType DEF Whole
<1> QED BY <1>1 DEF ReaderStates

(* What has been decoded is the front of the rows of the chunk.            *)
LEMMA FrontOfWhole ==
  ASSUME StreamInv
  PROVE  /\ Len(decoded) <= Len(Whole.out)
         /\ \A i \in 1..Len(decoded) : Whole.out[i] = decoded[i]
<1>1. IntPages(chunk.pages) /\ chunk.total \in Int /\ walker_pos \in 0..Len(chunk.pages)
  BY ChunkIsInt DEF StreamInv, TypeOK, NumPages
<1>2. Read[walker_pos].out = decoded
  BY DEF StreamInv, Abreast
<1>3. LET front == After(chunk.pages, chunk.total)[walker_pos].out
          whole == OneShot(chunk.pages, chunk.total).out
      IN  Len(front) <= Len(whole) /\ \A i \in 1..Len(front) : whole[i] = front[i]
  <2> DEFINE ps == chunk.pages
             tot == chunk.total
  <2>1. IntPages(ps) /\ tot \in Int /\ walker_pos \in 0..Len(ps)
    BY <1>1
  <2> HIDE DEF ps, tot
  <2>2. LET front == After(ps, tot)[walker_pos].out
            whole == OneShot(ps, tot).out
        IN  /\ front \in Seq(Int) /\ whole \in Seq(Int) /\ Len(front) <= Len(whole)
            /\ \A i \in 1..Len(front) : whole[i] = front[i]
    BY <2>1, KeepsFront
  <2> QED BY <2>2 DEF ps, tot
<1>4. After(chunk.pages, chunk.total)[walker_pos].out = decoded
  BY <1>2 DEF Read
<1> QED BY <1>3, <1>4 DEF Whole

(* A batch handed out is the next `batch_size' rows of the chunk, or what  *)
(* is left of it.                                                          *)
LEMMA EmitIsDeliver ==
  ASSUME StreamInv, EmptyIsEmpty, EmitBatch PROVE Abstract!Deliver
<1> DEFINE n    == BatchLen
           e    == Len(delivered)
           slice == SubSeq(carry, carry_pos + 1, carry_pos + n)
           rows == Whole.out
           upto == IF Len(rows) - e < batch_size THEN Len(rows) ELSE e + batch_size
<1>1. /\ pc = "drain" /\ LoopLeft /\ Pending > 0 /\ delivered' = delivered \o slice /\ pc' = "idle"
      /\ UNCHANGED <<cfgVars, walker_pos, finished, errored>>
  BY DEF EmitBatch, EmitLeaving, LoopLeft
<1>2. /\ TypeOK /\ CarryHoldsTheRest /\ CarryHoldsTheRest' /\ ~finished /\ ~errored /\ batch_size > 0
  BY <1>1, EmitBatchCarry DEF StreamInv, Abreast
<1>3. Whole' = Whole
  BY <1>1, ChunkSettled DEF cfgVars
<1>4. /\ rows \in Seq(Int) /\ decoded \in Seq(Int) /\ delivered \in Seq(Int) /\ carry \in Seq(Int)
      /\ carry_pos \in 0..Len(carry) /\ batch_size \in Nat /\ delivered' \in Seq(Int)
  <2>1. TypeOK'
    BY <1>2, NextTypeOK DEF Next
  <2> QED BY <1>2, <2>1, WholeType DEF TypeOK
<1>5. /\ Len(decoded) <= Len(rows) /\ \A i \in 1..Len(decoded) : rows[i] = decoded[i]
  BY FrontOfWhole
<1>6. Len(decoded) = e + Pending /\ decoded' = decoded
      /\ \A i \in 1..Len(delivered') : delivered'[i] = decoded[i]
      /\ Len(decoded) = Len(delivered') + Pending'
  <2>1. decoded' = decoded
    BY DEF EmitBatch, EmitLeaving
  <2> QED BY <1>2, <2>1 DEF CarryHoldsTheRest
<1>7. Pending < batch_size => rows = decoded /\ Whole.err = FALSE
  BY <1>1, ReadToTheEnd DEF StreamInv
<1>8. Len(delivered') = e + n /\ n \in Nat
  <2>1. n \in Nat /\ n <= Pending
    BY <1>4 DEF BatchLen, Pending
  <2>2. slice \in Seq(Int) /\ Len(slice) = n
    <3> DEFINE lo == carry_pos + 1
               hi == carry_pos + n
    <3>1. lo \in Int /\ hi \in Int /\ 1 <= lo /\ hi <= Len(carry) /\ (lo <= hi <=> n # 0)
          /\ hi - lo + 1 = n
      BY <1>4, <2>1 DEF Pending
    <3> HIDE DEF lo, hi, n
    <3>2. \A k \in lo..hi : carry[k] \in Int
      BY <1>4, <3>1
    <3>3. SubSeq(carry, lo, hi) \in Seq(Int)
          /\ Len(SubSeq(carry, lo, hi)) = IF lo <= hi THEN hi - lo + 1 ELSE 0
      BY <3>1, <3>2, SubSeqProperties
    <3>4. Len(SubSeq(carry, lo, hi)) = n
      BY <2>1, <3>1, <3>3
    <3> QED BY <3>3, <3>4 DEF lo, hi
  <2> HIDE DEF slice, n
  <2>3. delivered \in Seq(Int)
    BY <1>4
  <2>4. Len(delivered \o slice) = Len(delivered) + Len(slice)
    BY <2>2, <2>3, ConcatProperties
  <2> QED BY <1>1, <2>1, <2>2, <2>4
<1> HIDE DEF slice, rows, upto
<1>9. e + n = upto /\ upto <= Len(rows) /\ Len(rows) - e > 0
  <2>1. n = IF Pending < batch_size THEN Pending ELSE batch_size
    BY DEF BatchLen
  <2>2. /\ Len(rows) \in Nat /\ e \in Nat /\ Pending \in Int /\ Len(decoded) \in Nat
    BY <1>4 DEF Pending
  <2> DEFINE lr == Len(rows)
             ld == Len(decoded)
  <2>3. /\ lr \in Nat /\ ld \in Nat /\ ld = e + Pending /\ ld <= lr
        /\ upto = IF lr - e < batch_size THEN lr ELSE e + batch_size
        /\ (Pending < batch_size => lr = ld)
    BY <1>5, <1>6, <1>7, <2>2 DEF upto
  <2> HIDE DEF lr, ld, e, n
  <2> DEFINE p == Pending
  <2>4. /\ p \in Int /\ p > 0 /\ batch_size \in Nat /\ e \in Nat /\ lr \in Nat /\ ld \in Nat
        /\ ld = e + p /\ ld <= lr /\ (p < batch_size => lr = ld)
        /\ upto = IF lr - e < batch_size THEN lr ELSE e + batch_size
        /\ n = IF p < batch_size THEN p ELSE batch_size
    BY <1>1, <1>4, <2>1, <2>2, <2>3
  <2> HIDE DEF p
  <2>5. p < batch_size => e + n = upto /\ upto <= lr /\ lr - e > 0
    BY <2>4
  <2>6. ~(p < batch_size) => e + n = upto /\ upto <= lr /\ lr - e > 0
    BY <2>4
  <2>7. e + n = upto /\ upto <= lr /\ lr - e > 0
    BY <2>5, <2>6
  <2> QED BY <2>7 DEF lr
<1>10. delivered' = SubSeq(rows, 1, upto)
  <2>1. upto \in Nat /\ upto = Len(delivered') /\ upto <= Len(rows)
    BY <1>8, <1>9, <1>4
  <2>2. /\ SubSeq(rows, 1, upto) \in Seq(Int) /\ Len(SubSeq(rows, 1, upto)) = upto
        /\ \A i \in 1..upto : SubSeq(rows, 1, upto)[i] = rows[i]
    BY <1>4, <2>1
  <2>3. \A i \in 1..upto : delivered'[i] = rows[i]
    <3>1. upto <= Len(decoded)
      <4>1. Pending' \in Nat
        <5>1. TypeOK'
          BY <1>2, NextTypeOK DEF Next
        <5> QED BY <5>1 DEF TypeOK, Pending
      <4>2. Len(decoded) \in Nat
        BY <1>4
      <4> QED BY <1>6, <2>1, <4>1, <4>2
    <3>2. Len(decoded) \in Nat
      BY <1>4
    <3> QED BY <1>5, <1>6, <2>1, <3>1, <3>2
  <2> HIDE DEF e, n
  <2> QED BY <1>4, <2>1, <2>2, <2>3, SeqEqual
<1>11. Status = "open" /\ Status' = "open"
  BY <1>1, <1>2 DEF Status
<1>12. Len(rows) - e < batch_size => ~Whole.err
  <2>1. Len(rows) - e < batch_size => Pending < batch_size
    <3>1. /\ Len(rows) \in Nat /\ e \in Nat /\ Pending \in Int /\ Len(decoded) \in Nat
      BY <1>4 DEF Pending
    <3> HIDE DEF e
    <3> QED BY <1>4, <1>5, <1>6, <3>1
  <2> QED BY <1>7, <2>1
<1> QED BY <1>1, <1>3, <1>9, <1>10, <1>11, <1>12
        DEF Abstract!Deliver, Abstract!Left, Status, Whole, rows, upto, cfgVars

(* next() that finds nothing left answers None.                            *)
LEMMA FinishIsEnd ==
  ASSUME StreamInv, EmptyIsEmpty, Finish PROVE Abstract!End
<1>1. /\ LoopLeft /\ pc = "drain" /\ Pending = 0 /\ finished' = TRUE /\ pc' = "idle"
      /\ UNCHANGED <<cfgVars, errored, delivered>>
  BY DEF Finish, LoopLeft
<1>2. ~finished /\ ~errored /\ batch_size > 0 /\ Len(decoded) = Len(delivered) + Pending
  BY <1>1 DEF StreamInv, Abreast, CarryHoldsTheRest
<1>3. Whole' = Whole
  BY <1>1, ChunkSettled DEF cfgVars
<1>4. Whole.out = decoded /\ Whole.err = FALSE
  BY <1>1, <1>2, ReadToTheEnd
<1>5. Len(decoded) - Len(delivered) = 0
  <2>1. Len(delivered) \in Nat /\ Len(decoded) = Len(delivered) + 0
    BY <1>1, <1>2 DEF StreamInv, TypeOK
  <2> QED BY <2>1
<1>6. Status = "open" /\ Status' = "done"
  BY <1>1, <1>2 DEF Status
<1> QED BY <1>1, <1>3, <1>4, <1>5, <1>6
        DEF Abstract!End, Abstract!Left, Status, Whole, cfgVars

(* A page that does not decode withholds less than a batch.                *)
LEMMA ErrorIsFail ==
  ASSUME StreamInv, FillError PROVE Abstract!Fail
<1>1. /\ pc = "drain" /\ Pending < batch_size /\ pc' = "idle" /\ errored'
      /\ UNCHANGED <<cfgVars, decoded, delivered>>
      /\ walker_pos' \in 0..NumPages
  BY CurrentPage DEF FillError, StreamInv, TypeOK, NumPages
<1>2. ~finished /\ ~errored /\ Len(decoded) = Len(delivered) + Pending
  BY <1>1 DEF StreamInv, Abreast, CarryHoldsTheRest
<1>3. Whole' = Whole /\ Read' = Read
  BY <1>1, ChunkSettled DEF cfgVars, Read
<1>4. Read[walker_pos'].out = decoded /\ Read[walker_pos'].err
  <2>1. Abreast'
    BY NextAbreast DEF Next, Fill
  <2>2. Read'[walker_pos'].out = decoded' /\ Read'[walker_pos'].err
    BY <1>1, <2>1 DEF Abreast
  <2> QED BY <1>1, <1>3, <2>2
<1>5. Whole = Read[walker_pos']
  <2>1. IntPages(chunk.pages) /\ chunk.total \in Int
    BY ChunkIsInt DEF StreamInv
  <2> DEFINE k == walker_pos'
  <2>2. k \in 0..Len(chunk.pages) /\ After(chunk.pages, chunk.total)[k].err
    BY <1>1, <1>4 DEF Read, NumPages
  <2> HIDE DEF k
  <2>3. OneShot(chunk.pages, chunk.total) = After(chunk.pages, chunk.total)[k]
    BY <2>1, <2>2, StaysPut
  <2> QED BY <2>3 DEF Whole, Read, k
<1>6. Whole.out = decoded /\ Whole.err
  BY <1>4, <1>5
<1>7. Len(decoded) - Len(delivered) < batch_size
  <2>1. Len(delivered) \in Nat /\ Pending \in Int /\ batch_size \in Nat
    BY DEF StreamInv, TypeOK, Pending
  <2> QED BY <1>1, <1>2, <2>1
<1>8. Status = "open" /\ Status' = "failed"
  BY <1>1, <1>2 DEF Status
<1> QED BY <1>1, <1>3, <1>6, <1>7, <1>8
        DEF Abstract!Fail, Abstract!Left, Status, Whole, cfgVars

(* The rest of the steps the caller does not see; a batch size of 0 it     *)
(* sees at once.                                                           *)
LEMMA StepImplements ==
  ASSUME StreamInv, EmptyIsEmpty, [Next]_vars PROVE [Abstract!Next]_(Abstract!vars)
<1>1. CASE EmitBatch
  BY <1>1, EmitIsDeliver DEF Abstract!Next
<1>2. CASE Finish
  BY <1>2, FinishIsEnd DEF Abstract!Next
<1>3. CASE FillError
  BY <1>3, ErrorIsFail DEF Abstract!Next
<1>4. CASE Open /\ batch_size = 0
  <2>1. pc = "new" /\ pc' = "rejected" /\ UNCHANGED <<cfgVars, iterVars, errored, delivered>>
    BY <1>4 DEF Open
  <2>2. ~finished /\ ~errored
    BY <2>1 DEF StreamInv, Abreast
  <2>3. Whole' = Whole
    BY <2>1, ChunkSettled DEF cfgVars
  <2>4. Status = "open" /\ Status' = "failed"
    BY <2>1, <2>2 DEF Status, iterVars
  <2>5. Abstract!Refuse
    BY <1>4, <2>1, <2>3, <2>4 DEF Abstract!Refuse, Status, Whole, cfgVars
  <2> QED BY <2>5 DEF Abstract!Next
<1>5. CASE (Open /\ batch_size # 0) \/ CallNext \/ FillDictionary \/ SkipIndexPage \/ FillData
           \/ Ended \/ UNCHANGED vars
  <2>1. UNCHANGED <<cfgVars, finished, errored, delivered>>
    BY <1>5 DEF Open, CallNext, FillDictionary, FillDictionaryWith, SkipIndexPage, FillData,
                Ended, vars, iterVars
  <2>2. pc' = "rejected" <=> pc = "rejected"
    BY <1>5 DEF Open, CallNext, FillDictionary, FillDictionaryWith, SkipIndexPage, FillData,
                Ended, vars, Walking, WantsPage
  <2>3. Whole' = Whole
    BY <2>1, ChunkSettled DEF cfgVars
  <2>4. Status' = Status
    BY <2>1, <2>2 DEF Status
  <2> QED BY <2>1, <2>3, <2>4 DEF Abstract!vars, Status, Whole, cfgVars
<1> QED BY <1>1, <1>2, <1>3, <1>4, <1>5 DEF Next, Fill

LEMMA InitImplements == Init => Abstract!Init
<1> SUFFICES ASSUME Init PROVE Abstract!Init OBVIOUS
<1>1. Whole.out \in Seq(Int) /\ Whole.err \in BOOLEAN /\ batch_size \in Nat
  BY InitTypeOK, WholeType, BatchSizesAssumption DEF Init
<1>2. delivered = << >> /\ Status = "open"
  BY DEF Init, Status
<1> QED BY <1>1, <1>2 DEF Abstract!Init, Status, Whole

(* ColumnBatchIter and ColumnByteArrayBatchIter hand out what              *)
(* decode_chunk_into reads, batch by batch, for every chunk, dictionary,   *)
(* footer count and batch size: each step of drain_one_batch is a step of  *)
(* ChunkStream or invisible to the caller.                                 *)
THEOREM StreamImplements == EmptyIsEmpty => (Spec => Implements)
<1>1. Init => StreamInv
  BY InitTypeOK, InitCarry, InitAbreast DEF StreamInv
<1>2. StreamInv /\ [Next]_vars => StreamInv'
  BY NextTypeOK, NextCarry, NextAbreast DEF StreamInv
<1>3. EmptyIsEmpty /\ StreamInv /\ [Next]_vars => [Abstract!Next]_(Abstract!vars)
  BY StepImplements
<1>4. EmptyIsEmpty => []EmptyIsEmpty
  OBVIOUS
<1> QED BY <1>1, <1>2, <1>3, <1>4, InitImplements, PTL DEF Spec, Implements, Abstract!Spec

-----------------------------------------------------------------------------
(* The masked reader against the one-shot reader of the blanked chunk.     *)

MPages == m_call.chunk.pages
MTotal == m_call.chunk.total
MRead  == After(Blanked, MTotal)
Before(k) == RowsBefore(MPages)[k]

(* The rows of a sequence whose bit is set.                                *)
Unmasked(rows) == Selected(rows, {i \in 1..Len(rows) : m_call.mask[i]})

MaskedType ==
  /\ m_pc \in {"idle", "walk", "done", "failed"}
  /\ m_pc = "idle" => m_pos = 0 /\ m_dict = << >> /\ row_cursor = 0 /\ out = << >>
  /\ m_pc # "idle" => m_call.chunk \in MaskedChunks /\ m_pos \in 0..Len(MPages)
  /\ m_dict \in Seq(Int) /\ row_cursor \in Nat /\ out \in Seq(Int)

(* At each page: the cursor counts the rows before it, the one-shot reader *)
(* is still reading, and `out' is what the mask leaves of its rows.        *)
MaskedWalk ==
  /\ m_pc # "idle" => row_cursor = Before(m_pos)
  /\ m_pc = "walk" /\ MTotal > 0 =>
       /\ ~MRead[m_pos].err /\ ~MRead[m_pos].done
       /\ MRead[m_pos].dict = m_dict
       /\ Len(MRead[m_pos].out) = row_cursor
       /\ out = Unmasked(MRead[m_pos].out)
       /\ row_cursor < MTotal
  /\ m_pc = "done" /\ MTotal > 0 =>
       ~OneShot(Blanked, MTotal).err /\ out = Unmasked(OneShot(Blanked, MTotal).out)
  /\ m_pc = "failed" /\ MaskFits(m_call.chunk, m_call.mask) =>
       MTotal > 0 /\ OneShot(Blanked, MTotal).err
  /\ m_pc # "idle" /\ MTotal = 0 => out = << >>

MaskedInv == MaskedType /\ MaskedWalk

LEMMA MaskedChunk ==
  ASSUME NEW c \in MaskedChunks
  PROVE  /\ IntPages(c.pages) /\ c.total \in Nat /\ c.pages \in Seq(Page)
         /\ \A k \in 1..Len(c.pages) : c.pages[k].kind \in PageKinds /\ c.pages[k].vals \in Seq(Int)
<1>1. c.pages \in Seq(Page) /\ c.total \in Nat
  BY MaskedChunksAssumption
<1> DEFINE ps == c.pages
<1>2. ps \in Seq(Page)
  BY <1>1
<1> HIDE DEF ps
<1>3. Len(ps) \in Nat /\ \A k \in 1..Len(ps) : ps[k] \in Page
  BY <1>2
<1>4. \A k \in 1..Len(ps) : ps[k].kind \in PageKinds /\ ps[k].vals \in Seq(Int)
  BY <1>3 DEF Page
<1> QED BY <1>1, <1>3, <1>4 DEF IntPages, ps

(* The cursor grows by the rows of a data page.                            *)
LEMMA BeforeSteps ==
  ASSUME NEW c \in MaskedChunks
  PROVE  LET b == RowsBefore(c.pages)
             n == Len(c.pages)
         IN  /\ n \in Nat /\ b[0] = 0 /\ \A k \in 0..n : b[k] \in Nat /\ b[k] <= c.total
             /\ \A k \in 1..n : b[k] = b[k - 1] + IF IsData(c.pages[k]) THEN Len(c.pages[k].vals)
                                                 ELSE 0
<1> DEFINE ps == c.pages
           n == Len(ps)
           s == [k \in 1..n |-> IF IsData(ps[k]) THEN Len(ps[k].vals) ELSE 0]
           b == RunningSum(s)
<1>1. n \in Nat /\ \A k \in 1..n : ps[k].vals \in Seq(Int)
  BY MaskedChunk DEF IntPages
<1>2. b = RowsBefore(ps) /\ b[n] <= c.total /\ c.total \in Nat
  BY MaskedChunk, RowsCountedAssumption DEF RowsBefore
<1> HIDE DEF ps, n
<1>3. s \in Seq(Nat) /\ Len(s) = n
  <2>1. \A k \in 1..n : (IF IsData(ps[k]) THEN Len(ps[k].vals) ELSE 0) \in Nat
    BY <1>1
  <2> QED BY <1>1, <2>1
<1>4. \A k \in 1..n : s[k] = IF IsData(ps[k]) THEN Len(ps[k].vals) ELSE 0
  OBVIOUS
<1> HIDE DEF s
<1>5. b \in [0..n -> Nat] /\ b[0] = 0 /\ \A k \in 1..n : b[k] = b[k - 1] + s[k]
  BY <1>3, SumSteps
<1>6. ASSUME NEW k \in 0..n PROVE b[k] <= b[n]
  <2>1. k \in 0..Len(s) /\ n \in k..Len(s)
    BY <1>1, <1>3
  <2> HIDE DEF b
  <2>2. RunningSum(s)[k] <= RunningSum(s)[n]
    BY <1>3, <2>1, SumGrows
  <2> QED BY <2>2 DEF b
<1> HIDE DEF b
<1>7. \A k \in 0..n : b[k] \in Nat /\ b[k] <= c.total
  <2>1. \A k \in 0..n : b[k] \in Nat
    BY <1>5
  <2>2. n \in 0..n
    BY <1>1
  <2> QED BY <1>2, <1>6, <2>1, <2>2
<1> QED BY <1>1, <1>2, <1>4, <1>5, <1>7 DEF ps, n

(* Blanked, for any call.                                                  *)
BlankedFor(call) ==
  LET ps == call.chunk.pages
  IN  [k \in 1..Len(ps) |->
         IF IsData(ps[k])
              /\ {i \in 1..Len(ps[k].vals) : call.mask[RowsBefore(ps)[k - 1] + i]} = {}
         THEN [kind |-> "plain", vals |-> ps[k].vals]
         ELSE ps[k]]

LEMMA BlankedForPages ==
  ASSUME NEW call, call.chunk \in MaskedChunks
  PROVE  LET ps == call.chunk.pages
             bs == BlankedFor(call)
         IN  /\ IntPages(bs) /\ Len(bs) = Len(ps) /\ Len(ps) \in Nat
             /\ \A k \in 1..Len(ps) :
                  bs[k] = IF IsData(ps[k])
                              /\ {i \in 1..Len(ps[k].vals) : call.mask[RowsBefore(ps)[k - 1] + i]} = {}
                          THEN [kind |-> "plain", vals |-> ps[k].vals] ELSE ps[k]
<1> DEFINE ps == call.chunk.pages
           n == Len(ps)
           b(k) == IF IsData(ps[k])
                        /\ {i \in 1..Len(ps[k].vals) : call.mask[RowsBefore(ps)[k - 1] + i]} = {}
                   THEN [kind |-> "plain", vals |-> ps[k].vals] ELSE ps[k]
           bs == BlankedFor(call)
<1>1. n \in Nat /\ \A k \in 1..n : ps[k].vals \in Seq(Int)
  BY MaskedChunk DEF IntPages
<1>2. bs = [k \in 1..n |-> b(k)]
  BY DEF BlankedFor
<1>3. \A k \in 1..n : b(k).vals = ps[k].vals
  OBVIOUS
<1> HIDE DEF n, b, bs
<1>4. Len(bs) = n /\ \A k \in 1..n : bs[k] = b(k)
  BY <1>1, <1>2
<1>5. IntPages(bs)
  BY <1>1, <1>3, <1>4 DEF IntPages
<1> QED BY <1>1, <1>4, <1>5 DEF n, b, bs

LEMMA BlankedPages ==
  ASSUME m_call.chunk \in MaskedChunks
  PROVE  /\ IntPages(Blanked) /\ Len(Blanked) = Len(MPages) /\ Len(MPages) \in Nat
         /\ \A k \in 1..Len(MPages) :
              Blanked[k] = IF IsData(MPages[k]) /\ SetRows(MPages[k], Before(k - 1)) = {}
                           THEN [kind |-> "plain", vals |-> MPages[k].vals] ELSE MPages[k]
<1>1. Blanked = BlankedFor(m_call)
  BY DEF Blanked, BlankedFor, SetRows
<1> QED BY <1>1, BlankedForPages DEF MPages, SetRows, Before

(* Rows behind other ones are unmasked by the bits behind theirs.          *)
LEMMA UnmaskedConcat ==
  ASSUME NEW s \in Seq(Int), NEW t \in Seq(Int), NEW R,
         \A i \in 1..Len(t) : i \in R <=> m_call.mask[Len(s) + i]
  PROVE  Unmasked(s \o t) = Unmasked(s) \o Selected(t, R)
<1> DEFINE P == {i \in 1..Len(s \o t) : m_call.mask[i]}
           Q == {i \in 1..Len(s) : m_call.mask[i]}
<1>1. \A i \in 1..Len(s) : i \in P <=> i \in Q
  OBVIOUS
<1>2. \A i \in 1..Len(t) : Len(s) + i \in P <=> i \in R
  OBVIOUS
<1> HIDE DEF P, Q
<1>3. Joins(s, t, P, Q, R)
  BY <1>1, <1>2 DEF Joins
<1>4. Selected(s \o t, P) = Selected(s, Q) \o Selected(t, R)
  BY <1>3, SelectedConcat
<1> QED BY <1>4 DEF Unmasked, P, Q

LEMMA NoneUnmasked ==
  ASSUME NEW s \in Seq(Int), NEW t \in Seq(Int), \A i \in 1..Len(t) : ~m_call.mask[Len(s) + i]
  PROVE  Unmasked(s \o t) = Unmasked(s)
<1>1. Unmasked(s \o t) = Unmasked(s) \o Selected(t, {})
  BY UnmaskedConcat
<1>2. Selected(t, {}) = << >> /\ Unmasked(s) \in Seq(Int)
  BY SelectedNone, SelectedType DEF Unmasked
<1> DEFINE u == Unmasked(s)
<1> HIDE DEF u
<1>3. u \o << >> = u
  BY <1>2 DEF u
<1> QED BY <1>1, <1>2, <1>3 DEF u

-----------------------------------------------------------------------------
(* One page.                                                               *)

LEMMA WalkFacts ==
  ASSUME MaskedInv, m_pc # "idle"
  PROVE  /\ m_call.chunk \in MaskedChunks /\ m_pos \in 0..Len(MPages) /\ Len(MPages) \in Nat
         /\ IntPages(Blanked) /\ Len(Blanked) = Len(MPages) /\ MTotal \in Nat
         /\ MRead[m_pos] \in ReaderStates
         /\ m_pos < Len(MPages) =>
              /\ m_pos + 1 \in 1..Len(MPages) /\ PageAt = MPages[m_pos + 1]
              /\ PageAt.kind \in PageKinds /\ PageAt.vals \in Seq(Int)
              /\ MRead[m_pos + 1] \in ReaderStates
              /\ MRead[m_pos + 1] = ReadPage(MRead[m_pos], Blanked[m_pos + 1], MTotal)
              /\ Blanked[m_pos + 1] =
                   IF IsData(PageAt) /\ SetRows(PageAt, row_cursor) = {}
                   THEN [kind |-> "plain", vals |-> PageAt.vals] ELSE PageAt
              /\ Before(m_pos + 1)
                   = row_cursor + IF IsData(PageAt) THEN Len(PageAt.vals) ELSE 0
<1>1. m_call.chunk \in MaskedChunks /\ m_pos \in 0..Len(MPages) /\ row_cursor = Before(m_pos)
  BY DEF MaskedInv, MaskedType, MaskedWalk
<1>2. /\ IntPages(Blanked) /\ Len(Blanked) = Len(MPages) /\ Len(MPages) \in Nat
      /\ \A k \in 1..Len(MPages) :
           Blanked[k] = IF IsData(MPages[k]) /\ SetRows(MPages[k], Before(k - 1)) = {}
                        THEN [kind |-> "plain", vals |-> MPages[k].vals] ELSE MPages[k]
  BY <1>1, BlankedPages
<1>3. MTotal \in Nat /\ \A k \in 1..Len(MPages) : MPages[k].kind \in PageKinds
                                                /\ MPages[k].vals \in Seq(Int)
  BY <1>1, MaskedChunk DEF MPages, MTotal
<1>4. \A k \in 1..Len(MPages) :
        Before(k) = Before(k - 1) + IF IsData(MPages[k]) THEN Len(MPages[k].vals) ELSE 0
  BY <1>1, BeforeSteps DEF MPages, Before
<1> DEFINE B == Blanked
           n == Len(MPages)
<1> HIDE DEF n, B
<1>5. /\ \A k \in 0..n : MRead[k] \in ReaderStates
      /\ \A k \in 1..n : MRead[k] = ReadPage(MRead[k - 1], Blanked[k], MTotal)
  <2>1. IntPages(B) /\ Len(B) = n /\ MTotal \in Int
    BY <1>2, <1>3 DEF B, n
  <2>2. /\ After(B, MTotal) \in [0..Len(B) -> ReaderStates]
        /\ \A k \in 1..Len(B) : After(B, MTotal)[k]
                                    = ReadPage(After(B, MTotal)[k - 1], B[k], MTotal)
    BY <2>1, AfterPages
  <2> QED BY <2>1, <2>2 DEF MRead, B
<1>6. m_pos \in 0..n /\ n \in Nat
  BY <1>1, <1>2 DEF n
<1>7. ASSUME m_pos < n
      PROVE  /\ m_pos + 1 \in 1..n /\ PageAt = MPages[m_pos + 1]
             /\ PageAt.kind \in PageKinds /\ PageAt.vals \in Seq(Int)
             /\ MRead[m_pos + 1] \in ReaderStates
             /\ MRead[m_pos + 1] = ReadPage(MRead[m_pos], Blanked[m_pos + 1], MTotal)
             /\ Blanked[m_pos + 1] =
                  IF IsData(PageAt) /\ SetRows(PageAt, row_cursor) = {}
                  THEN [kind |-> "plain", vals |-> PageAt.vals] ELSE PageAt
             /\ Before(m_pos + 1)
                  = row_cursor + IF IsData(PageAt) THEN Len(PageAt.vals) ELSE 0
  <2> DEFINE j == m_pos + 1
  <2>1. j \in 1..n /\ j - 1 = m_pos /\ j \in 0..n
    BY <1>6, <1>7
  <2>2. PageAt = MPages[j]
    BY DEF PageAt, MPages
  <2> HIDE DEF j
  <2>3. PageAt.kind \in PageKinds /\ PageAt.vals \in Seq(Int)
    BY <1>3, <2>1, <2>2 DEF n
  <2>4. MRead[j] \in ReaderStates /\ MRead[j] = ReadPage(MRead[m_pos], Blanked[j], MTotal)
    BY <1>5, <2>1
  <2>5. Blanked[j] = IF IsData(PageAt) /\ SetRows(PageAt, row_cursor) = {}
                     THEN [kind |-> "plain", vals |-> PageAt.vals] ELSE PageAt
    <3>1. row_cursor = Before(j - 1) /\ j \in 1..Len(MPages)
      BY <1>1, <2>1 DEF n
    <3> QED BY <1>2, <2>2, <3>1
  <2>6. Before(j) = row_cursor + IF IsData(PageAt) THEN Len(PageAt.vals) ELSE 0
    <3>1. row_cursor = Before(j - 1) /\ j \in 1..Len(MPages)
      BY <1>1, <2>1 DEF n
    <3> QED BY <1>4, <2>2, <3>1
  <2> QED BY <2>1, <2>2, <2>3, <2>4, <2>5, <2>6 DEF j
<1> QED BY <1>1, <1>2, <1>3, <1>5, <1>6, <1>7 DEF n

(* While the call runs, what it was called with is settled.                *)
LEMMA CallSettled ==
  ASSUME m_call' = m_call
  PROVE  /\ MPages' = MPages /\ MTotal' = MTotal /\ Blanked' = Blanked /\ MRead' = MRead
         /\ \A k : Before(k)' = Before(k)
         /\ \A rows : Unmasked(rows)' = Unmasked(rows)
<1>1. MPages' = MPages /\ MTotal' = MTotal
  BY DEF MPages, MTotal
<1>2. Blanked' = Blanked
  BY DEF Blanked, SetRows
<1>3. MRead' = MRead
  BY <1>1, <1>2 DEF MRead
<1>4. \A k : Before(k)' = Before(k)
  BY <1>1 DEF Before
<1>5. \A rows : Unmasked(rows)' = Unmasked(rows)
  BY DEF Unmasked
<1> QED BY <1>1, <1>2, <1>3, <1>4, <1>5

(* A new call.                                                             *)
LEMMA CallMaskedInv ==
  ASSUME MaskedInv, NEW c \in MaskedChunks, NEW m, CallMasked(c, m) PROVE MaskedInv'
<1> DEFINE call == [chunk |-> c, mask |-> m]
<1>1. /\ m_call' = call /\ call.chunk = c /\ call.mask = m /\ m_pc = "idle"
      /\ m_pc' = IF MaskFits(c, m) THEN "walk" ELSE "failed"
      /\ UNCHANGED <<m_pos, m_dict, row_cursor, out>>
  BY DEF CallMasked
<1>2. m_pos' = 0 /\ m_dict' = << >> /\ row_cursor' = 0 /\ out' = << >>
  BY <1>1 DEF MaskedInv, MaskedType
<1> HIDE DEF call
<1>3. MPages' = c.pages /\ MTotal' = c.total /\ Blanked' = BlankedFor(call)
  BY <1>1 DEF MPages, MTotal, Blanked, BlankedFor, SetRows
<1>4. Len(c.pages) \in Nat /\ c.total \in Nat /\ RowsBefore(c.pages)[0] = 0
  BY MaskedChunk, BeforeSteps DEF IntPages
<1>5. MaskedType'
  <2>1. m_pc' \in {"walk", "failed"}
    BY <1>1
  <2>2. m_call'.chunk \in MaskedChunks /\ m_pos' \in 0..Len(c.pages)
    BY <1>1, <1>2, <1>4
  <2>3. << >> \in Seq(Int)
    OBVIOUS
  <2> QED BY <1>2, <1>3, <2>1, <2>2, <2>3 DEF MaskedType
<1>6. After(BlankedFor(call), c.total)[0] = Opening
  <2> DEFINE bs == BlankedFor(call)
             total == c.total
  <2>1. IntPages(bs) /\ total \in Int
    BY <1>1, <1>4, BlankedForPages
  <2> HIDE DEF bs, total
  <2>2. After(bs, total)[0] = Opening
    BY <2>1, AfterPages
  <2> QED BY <2>2 DEF bs, total
<1>7. MRead'[m_pos'] = Opening
  BY <1>2, <1>3, <1>6 DEF MRead
<1>8. Unmasked(<< >>)' = << >>
  BY SelectedEmpty DEF Unmasked
<1>9. Before(m_pos)' = 0
  BY <1>2, <1>3, <1>4 DEF Before
<1>10. m_pc' = "failed" => ~MaskFits(m_call'.chunk, m_call'.mask)
  BY <1>1
<1>11. MaskedWalk'
  <2>1. MTotal' > 0 =>
          /\ ~(MRead'[m_pos']).err /\ ~(MRead'[m_pos']).done
          /\ (MRead'[m_pos']).dict = m_dict'
          /\ Len((MRead'[m_pos']).out) = row_cursor'
          /\ out' = Unmasked((MRead[m_pos]).out)'
          /\ row_cursor' < MTotal'
    <3>1. (MRead[m_pos]).out' = << >>
      BY <1>7 DEF Opening
    <3>2. Unmasked((MRead[m_pos]).out)' = << >>
      BY <3>1, SelectedEmpty DEF Unmasked
    <3> QED BY <1>2, <1>7, <3>2 DEF Opening
  <2> QED BY <1>1, <1>2, <1>9, <1>10, <2>1 DEF MaskedWalk, MaskFits
<1> QED BY <1>5, <1>11 DEF MaskedInv

(* A page that adds no rows.                                               *)
LEMMA NoRowsInv ==
  ASSUME MaskedInv, MaskedDictionary \/ MaskedIndexPage PROVE MaskedInv'
<1>1. /\ AtPage({"dict", "index"}) /\ m_pos' = m_pos + 1
      /\ UNCHANGED <<m_call, m_pc, row_cursor, out>>
      /\ m_dict' = IF PageAt.kind = "dict" THEN PageAt.vals ELSE m_dict
  BY DEF MaskedDictionary, MaskedIndexPage, AtPage
<1>2. /\ m_pc = "walk" /\ m_pos < Len(MPages) /\ PageAt.kind \in {"dict", "index"}
      /\ m_pc # "idle" /\ ~IsData(PageAt)
  BY <1>1 DEF AtPage, MPages, IsData
<1> DEFINE j == m_pos + 1
           s == MRead[m_pos]
           t == MRead[j]
<1>3. /\ m_call.chunk \in MaskedChunks /\ j \in 1..Len(MPages) /\ Len(MPages) \in Nat
      /\ PageAt.vals \in Seq(Int) /\ t = ReadPage(s, PageAt, MTotal)
      /\ Before(j) = row_cursor + 0 /\ MTotal \in Nat
  BY <1>2, WalkFacts
<1>4. MaskedType /\ MaskedWalk
  BY DEF MaskedInv
<1> HIDE DEF j
<1>5. MaskedType'
  <2>1. m_dict' \in Seq(Int) /\ j \in 0..Len(MPages) /\ MPages' = MPages /\ m_pos' = j
    BY <1>1, <1>3, <1>4, CallSettled DEF MaskedType, j
  <2> QED BY <1>1, <1>2, <1>3, <1>4, <2>1 DEF MaskedType
<1>6. MTotal > 0 => /\ ~t.err /\ ~t.done /\ t.dict = m_dict' /\ t.out = s.out
  <2> SUFFICES ASSUME MTotal > 0 PROVE ~t.err /\ ~t.done /\ t.dict = m_dict' /\ t.out = s.out
    OBVIOUS
  <2>1. ~s.err /\ ~s.done /\ s.dict = m_dict /\ Len(s.out) = row_cursor /\ row_cursor < MTotal
    BY <1>2, <1>4 DEF MaskedWalk
  <2> DEFINE p == PageAt
  <2>2. t = ReadPage(s, p, MTotal) /\ ~IsData(p) /\ p.kind # "bad"
    BY <1>2, <1>3
  <2> HIDE DEF s, t, p
  <2>3. /\ t.done = (Len(t.out) >= MTotal)
        /\ t.dict = IF p.kind = "dict" THEN p.vals ELSE s.dict
        /\ t.out = s.out /\ ~t.err
    BY <2>1, <2>2, ReadsOn
  <2>4. ~t.done
    <3>1. Len(t.out) = row_cursor /\ row_cursor \in Nat
      BY <1>4, <2>1, <2>3 DEF MaskedType
    <3>2. ~(Len(t.out) >= MTotal)
      BY <1>3, <2>1, <3>1
    <3> QED BY <2>3, <3>2
  <2> QED BY <1>1, <2>1, <2>3, <2>4 DEF p
<1>7. row_cursor = Before(j)
  <2>1. row_cursor \in Nat
    BY <1>4 DEF MaskedType
  <2> QED BY <1>3, <2>1
<1>8. MRead[j] = t /\ m_pos' = j
  BY <1>1 DEF j
<1>9. MaskedWalk'
  <2>1. /\ MTotal' = MTotal /\ MRead' = MRead /\ MPages' = MPages
        /\ \A rows : Unmasked(rows)' = Unmasked(rows)
    BY <1>1, CallSettled
  <2>2. row_cursor' = Before(m_pos)'
    <3>1. Before(m_pos)' = RowsBefore(MPages)[j]
      BY <1>8, <2>1 DEF Before
    <3> QED BY <1>1, <1>7, <3>1 DEF Before
  <2>3. MTotal > 0 => out' = Unmasked(MRead[m_pos].out)' /\ Len(t.out) = row_cursor'
                      /\ row_cursor' < MTotal'
    <3>1. MTotal > 0 => out = Unmasked(s.out) /\ Len(s.out) = row_cursor /\ row_cursor < MTotal
      BY <1>2, <1>4 DEF MaskedWalk
    <3>2. MTotal > 0 => (MRead[m_pos].out)' = s.out
      BY <1>6, <1>8, <2>1
    <3> QED BY <1>1, <1>6, <2>1, <3>1, <3>2 DEF Unmasked
  <2>4. m_pc' = "walk"
    BY <1>1, <1>2
  <2>5. MTotal = 0 => out' = << >>
    BY <1>1, <1>2, <1>4 DEF MaskedWalk
  <2>6. (MRead[m_pos])' = t
    BY <1>8, <2>1
  <2> HIDE DEF t, s
  <2> QED BY <1>6, <2>1, <2>2, <2>3, <2>4, <2>5, <2>6 DEF MaskedWalk
<1> QED BY <1>5, <1>9 DEF MaskedInv

(* What the one-shot reader does with a data page the mask lets through or *)
(* blanks: the page's rows, and `out' grows by those that are unmasked.    *)
LEMMA DataPageRows ==
  ASSUME MaskedInv, MTotal > 0, SkipPage \/ GatherPage
  PROVE  LET t == MRead[m_pos + 1]
         IN  /\ ~t.err /\ t.dict = m_dict /\ t.done = (Len(t.out) >= MTotal)
             /\ Len(t.out) = row_cursor + Len(PageAt.vals)
             /\ out' = Unmasked(t.out)
<1>1. /\ m_pc = "walk" /\ m_pos < Len(MPages) /\ PageAt.kind \in {"plain", "coded"}
      /\ m_pc # "idle"
  BY DEF SkipPage, GatherPage, AtPage, MPages
<1> DEFINE s == MRead[m_pos]
           t == MRead[m_pos + 1]
           p == Blanked[m_pos + 1]
           vals == PageAt.vals
<1>2. /\ vals \in Seq(Int) /\ t = ReadPage(s, p, MTotal) /\ s \in ReaderStates
      /\ p = IF IsData(PageAt) /\ SetRows(PageAt, row_cursor) = {}
             THEN [kind |-> "plain", vals |-> vals] ELSE PageAt
  BY <1>1, WalkFacts
<1>3. /\ ~s.err /\ ~s.done /\ s.dict = m_dict /\ Len(s.out) = row_cursor
      /\ out = Unmasked(s.out)
  BY <1>1 DEF MaskedInv, MaskedWalk
<1>4. s.out \in Seq(Int) /\ s.dict \in Seq(Int) /\ row_cursor \in Nat
  BY <1>2 DEF ReaderStates, MaskedInv, MaskedType
<1>5. IsData(PageAt)
  BY <1>1 DEF IsData
<1>6. /\ IsData(p) /\ p.kind # "bad" /\ p.kind # "dict" /\ Decodable(p, s.dict) /\ p.vals = vals
      /\ out' = Unmasked(s.out \o PageRows(p, s.dict))
  <2>1. CASE SkipPage
    <3>1. SetRows(PageAt, row_cursor) = {} /\ out' = out
      BY <2>1 DEF SkipPage
    <3>2. p = [kind |-> "plain", vals |-> vals]
      BY <1>2, <1>5, <3>1
    <3>3. p.kind = "plain" /\ p.vals = vals
      BY <3>2
    <3> HIDE DEF p
    <3>4. IsData(p) /\ Decodable(p, s.dict) /\ PageRows(p, s.dict) = vals
      BY <3>3 DEF IsData, Decodable, PageRows
    <3>5. \A i \in 1..Len(vals) : ~m_call.mask[Len(s.out) + i]
      BY <1>3, <3>1 DEF SetRows
    <3>6. Unmasked(s.out \o vals) = Unmasked(s.out)
      <4> DEFINE so == s.out
                 vs == vals
      <4>1. so \in Seq(Int) /\ vs \in Seq(Int) /\ \A i \in 1..Len(vs) : ~m_call.mask[Len(so) + i]
        BY <1>2, <1>4, <3>5
      <4> HIDE DEF so, vs
      <4>2. Unmasked(so \o vs) = Unmasked(so)
        BY <4>1, NoneUnmasked
      <4> QED BY <4>2 DEF so, vs
    <3> QED BY <1>3, <3>1, <3>3, <3>4, <3>6
  <2>2. CASE GatherPage
    <3>1. /\ SetRows(PageAt, row_cursor) # {} /\ Decodable(PageAt, m_dict)
          /\ out' = out \o Selected(PageRows(PageAt, m_dict), SetRows(PageAt, row_cursor))
      BY <2>2 DEF GatherPage, Gathered
    <3>2. p = PageAt
      BY <1>2, <3>1
    <3>3. PageRows(PageAt, m_dict) \in Seq(Int) /\ Len(PageRows(PageAt, m_dict)) = Len(vals)
      BY <1>2, <1>3, <1>4, <1>5, <3>1, PageRowsType
    <3>4. Unmasked(s.out \o PageRows(PageAt, m_dict)) = out'
      <4> DEFINE so == s.out
                 rs == PageRows(PageAt, m_dict)
                 set == SetRows(PageAt, row_cursor)
      <4>1. so \in Seq(Int) /\ rs \in Seq(Int) /\ \A i \in 1..Len(rs) :
                                                   i \in set <=> m_call.mask[Len(so) + i]
        BY <1>3, <1>4, <3>3 DEF SetRows
      <4>2. out' = Unmasked(so) \o Selected(rs, set)
        BY <1>3, <3>1
      <4> HIDE DEF so, rs, set
      <4>3. Unmasked(so \o rs) = Unmasked(so) \o Selected(rs, set)
        BY <4>1, UnmaskedConcat
      <4> QED BY <4>2, <4>3 DEF so, rs
    <3> QED BY <1>1, <1>3, <1>5, <3>1, <3>2, <3>4
  <2> QED BY <2>1, <2>2
<1> HIDE DEF s, t, p
<1>7. /\ t.done = (Len(t.out) >= MTotal)
      /\ t.dict = s.dict /\ t.out = s.out \o PageRows(p, s.dict) /\ ~t.err
  BY <1>2, <1>3, <1>6, ReadsOn
<1>8. Len(t.out) = row_cursor + Len(vals)
  <2>1. PageRows(p, s.dict) \in Seq(Int) /\ Len(PageRows(p, s.dict)) = Len(vals)
    BY <1>2, <1>4, <1>6, PageRowsType
  <2> DEFINE so == s.out
             rs == PageRows(p, s.dict)
             n == Len(vals)
  <2>2. so \in Seq(Int) /\ rs \in Seq(Int) /\ Len(rs) = n
    BY <1>4, <2>1
  <2>3. Len(so) = row_cursor /\ t.out = so \o rs
    BY <1>3, <1>7
  <2> HIDE DEF so, rs, n
  <2>4. Len(so \o rs) = Len(so) + Len(rs)
    BY <2>2
  <2>5. Len(t.out) = row_cursor + n
    BY <2>2, <2>3, <2>4
  <2> QED BY <2>5 DEF n
<1> QED BY <1>3, <1>6, <1>7, <1>8 DEF t

(* A chunk the footer calls empty has no rows to select.                   *)
LEMMA EmptyPage ==
  ASSUME MaskedInv, m_pc = "walk", m_pos < Len(MPages), MTotal = 0, IsData(PageAt)
  PROVE  SetRows(PageAt, row_cursor) = {}
<1>1. /\ m_pc # "idle" /\ row_cursor \in Nat /\ m_call.chunk \in MaskedChunks
      /\ m_pos \in 0..Len(MPages)
  BY DEF MaskedInv, MaskedType
<1>2. /\ PageAt.vals \in Seq(Int) /\ Before(m_pos + 1) = row_cursor + Len(PageAt.vals)
      /\ m_pos + 1 \in 1..Len(MPages)
  BY <1>1, WalkFacts
<1>3. Before(m_pos + 1) <= 0
  <2>1. m_pos + 1 \in 0..Len(MPages)
    BY <1>2
  <2>2. \A k \in 0..Len(MPages) : Before(k) <= MTotal
    BY <1>1, BeforeSteps DEF Before, MPages, MTotal
  <2> QED BY <2>1, <2>2
<1>4. Len(PageAt.vals) = 0
  <2>1. Len(PageAt.vals) \in Nat
    BY <1>2
  <2> QED BY <1>1, <1>2, <1>3, <2>1
<1> QED BY <1>4 DEF SetRows

LEMMA DataPageInv ==
  ASSUME MaskedInv, SkipPage \/ GatherPage PROVE MaskedInv'
<1>1. /\ m_pc = "walk" /\ m_pos < Len(MPages) /\ PageAt.kind \in {"plain", "coded"}
      /\ m_pc # "idle"
      /\ m_pos' = m_pos + 1 /\ row_cursor' = row_cursor + Len(PageAt.vals)
      /\ m_pc' = IF row_cursor' >= MTotal THEN "done" ELSE "walk"
      /\ m_call' = m_call /\ m_dict' = m_dict
  BY DEF SkipPage, GatherPage, AtPage, MPages, MTotal, Advance
<1> DEFINE j == m_pos + 1
           t == MRead[j]
<1>2. /\ m_call.chunk \in MaskedChunks /\ j \in 1..Len(MPages) /\ Len(MPages) \in Nat
      /\ PageAt.vals \in Seq(Int) /\ MTotal \in Nat /\ t \in ReaderStates
      /\ IntPages(Blanked) /\ Len(Blanked) = Len(MPages)
  BY <1>1, WalkFacts
<1>3. MaskedType /\ MaskedWalk /\ row_cursor \in Nat
  BY DEF MaskedInv, MaskedType
<1>4. IsData(PageAt)
  BY <1>1 DEF IsData
<1>5. Before(j) = row_cursor'
  BY <1>1, <1>4, WalkFacts
<1>6. row_cursor' \in Nat
  <2>1. Len(PageAt.vals) \in Nat
    BY <1>2
  <2> QED BY <1>1, <1>3, <2>1
<1>7. MTotal > 0 => /\ ~t.err /\ t.dict = m_dict' /\ t.done = (Len(t.out) >= MTotal)
                    /\ Len(t.out) = row_cursor' /\ out' = Unmasked(t.out)
  BY <1>1, DataPageRows
<1>8. MTotal = 0 => out' = << >>
  <2>1. MTotal = 0 => SetRows(PageAt, row_cursor) = {} /\ out = << >>
    BY <1>1, <1>3, <1>4, EmptyPage DEF MaskedWalk
  <2>2. GatherPage => SetRows(PageAt, row_cursor) # {}
    BY DEF GatherPage
  <2>3. SkipPage => out' = out
    BY DEF SkipPage
  <2> QED BY <2>1, <2>2, <2>3
<1> HIDE DEF j, t
<1>9. m_pos' = j /\ MRead[j] = t
  BY <1>1 DEF j, t
<1>10. /\ MPages' = MPages /\ MTotal' = MTotal /\ Blanked' = Blanked /\ MRead' = MRead
       /\ \A rows : Unmasked(rows)' = Unmasked(rows)
  BY <1>1, CallSettled
<1>11. MaskedType'
  <2>1. out' \in Seq(Int)
    <3>1. t.out \in Seq(Int)
      BY <1>2 DEF ReaderStates
    <3>2. Unmasked(t.out) \in Seq(Int)
      BY <3>1, SelectedType DEF Unmasked
    <3>3. << >> \in Seq(Int)
      OBVIOUS
    <3>4. MTotal = 0 \/ MTotal > 0
      BY <1>2
    <3>5. CASE MTotal = 0
      BY <1>8, <3>3, <3>5
    <3>6. CASE MTotal > 0
      BY <1>7, <3>2, <3>6
    <3> QED BY <3>4, <3>5, <3>6
  <2>2. j \in 0..Len(MPages)
    BY <1>2
  <2> QED BY <1>1, <1>2, <1>3, <1>6, <1>9, <1>10, <2>1, <2>2 DEF MaskedType
<1>12. row_cursor' = Before(m_pos)'
  <2>1. Before(m_pos)' = RowsBefore(MPages)[j]
    BY <1>9, <1>10 DEF Before
  <2> QED BY <1>5, <2>1 DEF Before
<1>13. t.done => OneShot(Blanked, MTotal) = t
  <2> DEFINE B == Blanked
             total == MTotal
  <2>1. IntPages(B) /\ total \in Int /\ j \in 0..Len(B) /\ t = After(B, total)[j]
    BY <1>2 DEF MRead, t
  <2> HIDE DEF B, total
  <2>2. t.done => OneShot(B, total) = t
    BY <2>1, StaysPut
  <2> QED BY <2>2 DEF B, total
<1>14. (MRead[m_pos])' = t /\ (OneShot(Blanked, MTotal))' = OneShot(Blanked, MTotal)
  BY <1>9, <1>10
<1>15. MaskedWalk'
  <2>1. m_pc' = "walk" /\ MTotal' > 0 =>
          /\ ~(MRead[m_pos].err)' /\ ~(MRead[m_pos].done)'
          /\ (MRead[m_pos].dict)' = m_dict'
          /\ Len(MRead[m_pos].out)' = row_cursor'
          /\ out' = Unmasked(MRead[m_pos].out)'
          /\ row_cursor' < MTotal'
    <3> SUFFICES ASSUME m_pc' = "walk", MTotal' > 0
                 PROVE  /\ ~(MRead[m_pos].err)' /\ ~(MRead[m_pos].done)'
                        /\ (MRead[m_pos].dict)' = m_dict'
                        /\ Len(MRead[m_pos].out)' = row_cursor'
                        /\ out' = Unmasked(MRead[m_pos].out)'
                        /\ row_cursor' < MTotal'
      OBVIOUS
    <3>1. ~(row_cursor' >= MTotal) /\ MTotal > 0
      BY <1>1, <1>10
    <3>5. row_cursor' < MTotal
      BY <1>2, <1>6, <3>1
    <3>6. Len(t.out) = row_cursor' /\ t.done = (Len(t.out) >= MTotal)
      BY <1>7, <3>1
    <3>7. t.done <=> row_cursor' >= MTotal
      BY <3>6
    <3>2. ~t.done /\ row_cursor' < MTotal
      BY <3>1, <3>5, <3>7
    <3>3. Unmasked(MRead[m_pos].out)' = Unmasked(t.out)
      BY <1>1, <1>14 DEF Unmasked
    <3> QED BY <1>7, <1>10, <1>14, <3>1, <3>2, <3>3
  <2>2. m_pc' = "done" /\ MTotal' > 0 =>
          /\ ~(OneShot(Blanked, MTotal).err)'
          /\ out' = Unmasked(OneShot(Blanked, MTotal).out)'
    <3> SUFFICES ASSUME m_pc' = "done", MTotal' > 0
                 PROVE  /\ ~(OneShot(Blanked, MTotal).err)'
                        /\ out' = Unmasked(OneShot(Blanked, MTotal).out)'
      OBVIOUS
    <3>1. row_cursor' >= MTotal /\ MTotal > 0
      BY <1>1, <1>10
    <3>2. t.done
      BY <1>7, <3>1
    <3>3. Unmasked(OneShot(Blanked, MTotal).out)' = Unmasked(t.out)
      BY <1>1, <1>13, <1>14, <3>2 DEF Unmasked
    <3> QED BY <1>7, <1>13, <1>14, <3>1, <3>2, <3>3
  <2>3. m_pc' \in {"walk", "done"}
    BY <1>1
  <2>4. MTotal' = 0 => out' = << >>
    BY <1>8, <1>10
  <2> QED BY <1>12, <2>1, <2>2, <2>3, <2>4 DEF MaskedWalk
<1> QED BY <1>11, <1>15 DEF MaskedInv

(* The read fails at a page it needs.                                      *)
LEMMA FailInv ==
  ASSUME MaskedInv, MaskedFails PROVE MaskedInv'
<1>1. /\ m_pc = "walk" /\ m_pos < Len(MPages) /\ m_pc' = "failed" /\ m_pc # "idle"
      /\ UNCHANGED <<m_call, m_pos, m_dict, row_cursor, out>>
      /\ \/ PageAt.kind = "bad"
         \/ /\ PageAt.kind \in {"plain", "coded"} /\ SetRows(PageAt, row_cursor) # {}
            /\ ~Decodable(PageAt, m_dict)
  BY DEF MaskedFails, AtPage, MPages
<1> DEFINE j == m_pos + 1
           s == MRead[m_pos]
           t == MRead[j]
           p == Blanked[j]
<1>2. /\ m_call.chunk \in MaskedChunks /\ j \in 1..Len(MPages) /\ PageAt = MPages[j]
      /\ MTotal \in Nat /\ IntPages(Blanked) /\ Len(Blanked) = Len(MPages)
      /\ t = ReadPage(s, p, MTotal)
      /\ p = IF IsData(PageAt) /\ SetRows(PageAt, row_cursor) = {}
             THEN [kind |-> "plain", vals |-> PageAt.vals] ELSE PageAt
  BY <1>1, WalkFacts
<1>3. MTotal > 0
  <2>1. CASE PageAt.kind = "bad"
    BY <1>2, <2>1, RowsCountedAssumption DEF MPages, MTotal
  <2>2. CASE PageAt.kind # "bad"
    <3>1. IsData(PageAt) /\ SetRows(PageAt, row_cursor) # {}
      BY <1>1, <2>2 DEF IsData
    <3> QED BY <1>1, <1>2, <3>1, EmptyPage
  <2> QED BY <2>1, <2>2
<1>4. ~s.err /\ ~s.done /\ s.dict = m_dict
  BY <1>1, <1>3 DEF MaskedInv, MaskedWalk
<1>5. p = PageAt /\ (p.kind = "bad" \/ (IsData(p) /\ ~Decodable(p, s.dict)))
  <2>1. CASE PageAt.kind = "bad"
    BY <1>2, <2>1 DEF IsData
  <2>2. CASE PageAt.kind # "bad"
    BY <1>1, <1>2, <1>4, <2>2 DEF IsData
  <2> QED BY <2>1, <2>2
<1>6. t.err
  <2> HIDE DEF s, t, p
  <2> QED BY <1>2, <1>4, <1>5, ReadsOn
<1>7. OneShot(Blanked, MTotal).err
  <2> DEFINE B == Blanked
             total == MTotal
  <2>1. IntPages(B) /\ total \in Int /\ j \in 0..Len(B) /\ t = After(B, total)[j]
    BY <1>2 DEF MRead
  <2> HIDE DEF B, total, t, j
  <2>2. OneShot(B, total) = t
    BY <1>6, <2>1, StaysPut
  <2> QED BY <1>6, <2>2 DEF B, total
<1>8. /\ MPages' = MPages /\ MTotal' = MTotal /\ Blanked' = Blanked
      /\ RowsBefore(MPages)' = RowsBefore(MPages)
  BY <1>1, CallSettled
<1>9. MaskedType'
  BY <1>1, <1>8 DEF MaskedInv, MaskedType
<1>10. MaskedWalk'
  BY <1>1, <1>3, <1>7, <1>8 DEF MaskedInv, MaskedWalk, Before
<1> QED BY <1>9, <1>10 DEF MaskedInv

(* The walker runs out of pages.                                           *)
LEMMA EndInv ==
  ASSUME MaskedInv, MaskedEnds PROVE MaskedInv'
<1>1. /\ m_pc = "walk" /\ m_pos = Len(MPages) /\ m_pc' = "done" /\ m_pc # "idle"
      /\ UNCHANGED <<m_call, m_pos, m_dict, row_cursor, out>>
  BY DEF MaskedEnds, MPages
<1>2. /\ MPages' = MPages /\ MTotal' = MTotal /\ Blanked' = Blanked
      /\ \A rows : Unmasked(rows)' = Unmasked(rows)
  BY <1>1, CallSettled
<1>3. OneShot(Blanked, MTotal) = MRead[m_pos]
  <2>1. Len(Blanked) = Len(MPages)
    BY <1>1, WalkFacts
  <2> QED BY <1>1, <2>1 DEF OneShot, MRead
<1>4. MaskedType'
  BY <1>1, <1>2 DEF MaskedInv, MaskedType
<1>5. MTotal > 0 => ~OneShot(Blanked, MTotal).err /\ out = Unmasked(OneShot(Blanked, MTotal).out)
  BY <1>1, <1>3 DEF MaskedInv, MaskedWalk
<1>6. Unmasked(OneShot(Blanked, MTotal).out)' = Unmasked(OneShot(Blanked, MTotal).out)
  BY <1>1, <1>2 DEF Unmasked
<1>7. MaskedWalk'
  BY <1>1, <1>2, <1>5, <1>6 DEF MaskedInv, MaskedWalk, Before
<1> QED BY <1>4, <1>7 DEF MaskedInv

(* A chunk the footer calls empty, read in one shot: no rows, no error.    *)
LEMMA EmptyOneShot ==
  ASSUME m_call.chunk \in MaskedChunks, MTotal = 0
  PROVE  ~OneShot(Blanked, MTotal).err /\ OneShot(Blanked, MTotal).out = << >>
<1> DEFINE B == Blanked
           n == Len(B)
           r == After(B, 0)
<1>1. /\ IntPages(B) /\ n = Len(MPages) /\ n \in Nat
      /\ \A k \in 1..n : B[k] = IF IsData(MPages[k]) /\ SetRows(MPages[k], Before(k - 1)) = {}
                              THEN [kind |-> "plain", vals |-> MPages[k].vals] ELSE MPages[k]
  BY BlankedPages
<1>2. r[0] = Opening /\ (\A k \in 1..n : r[k] = ReadPage(r[k - 1], B[k], 0)) /\ OneShot(B, 0) = r[n]
  <2> HIDE DEF B
  <2> QED BY <1>1, AfterPages DEF OneShot
<1>3. CASE n = 0
  BY <1>2, <1>3 DEF Opening
<1>4. CASE n > 0
  <2> DEFINE p == B[1]
             vals == MPages[1].vals
  <2>1. 1 \in 1..Len(MPages) /\ n \in Nat
    BY <1>1, <1>4
  <2>2. /\ MPages[1].kind # "bad" /\ vals \in Seq(Int) /\ Before(0) = 0
        /\ IsData(MPages[1]) => Len(vals) = 0
    <3>1. MPages[1].kind # "bad"
      BY <2>1, RowsCountedAssumption DEF MPages, MTotal
    <3>2. vals \in Seq(Int)
      BY <2>1, MaskedChunk DEF MPages
    <3>3. /\ Before(0) = 0 /\ Before(1) \in Nat /\ Before(1) <= 0
          /\ Before(1) = Before(0) + IF IsData(MPages[1]) THEN Len(vals) ELSE 0
      <4>1. LET b == RowsBefore(MPages)
            IN  /\ b[0] = 0 /\ \A k \in 0..Len(MPages) : b[k] \in Nat /\ b[k] <= 0
                /\ \A k \in 1..Len(MPages) : b[k] = b[k - 1] + IF IsData(MPages[k])
                                                             THEN Len(MPages[k].vals) ELSE 0
        BY BeforeSteps DEF MPages, MTotal
      <4>2. 1 - 1 = 0 /\ 1 \in 0..Len(MPages)
        BY <2>1
      <4> QED BY <2>1, <4>1, <4>2 DEF Before
    <3>4. Len(vals) \in Nat
      BY <3>2
    <3> HIDE DEF vals
    <3> QED BY <3>1, <3>2, <3>3, <3>4
  <2>3. p.kind # "bad" /\ p.vals = vals /\ (IsData(p) => p.kind = "plain" /\ vals = << >>)
    <3>1. CASE IsData(MPages[1])
      <4>1. vals = << >>
        BY <2>2, <3>1
      <4>2. SetRows(MPages[1], Before(1 - 1)) = {}
        BY <2>2, <3>1 DEF SetRows
      <4>3. p = [kind |-> "plain", vals |-> vals]
        BY <1>1, <2>1, <3>1, <4>2
      <4> QED BY <4>1, <4>3
    <3>2. CASE ~IsData(MPages[1])
      <4>1. p = MPages[1]
        BY <1>1, <2>1, <3>2
      <4> QED BY <2>2, <3>2, <4>1
    <3> QED BY <3>1, <3>2
  <2>4. r[1] = ReadPage(Opening, p, 0)
    <3>1. 1 \in 1..n /\ 1 - 1 = 0
      BY <1>1, <2>1
    <3> QED BY <1>2, <3>1
  <2> DEFINE t == r[1]
  <2> HIDE DEF p, r, vals
  <2>5. t.out = << >>
    <3>1. IsData(p) => PageRows(p, << >>) = << >>
      BY <2>3 DEF PageRows
    <3>2. Opening.out = << >> /\ Opening.dict = << >> /\ ~Opening.err /\ ~Opening.done
      BY DEF Opening
    <3>3. t.out = << >> \/ (IsData(p) /\ t.out = << >> \o PageRows(p, << >>))
      BY <2>4, <3>2, ReadsOrNot
    <3> QED BY <3>1, <3>3
  <2>6. ~t.err /\ t.done
    <3>1. Opening.out = << >> /\ Opening.dict = << >> /\ ~Opening.err /\ ~Opening.done
      BY DEF Opening
    <3>2. IsData(p) => Decodable(p, << >>)
      BY <2>3 DEF Decodable
    <3>3. t.done = (Len(t.out) >= 0) /\ ~t.err
      BY <2>3, <2>4, <3>1, <3>2, ReadsOn
    <3>4. Len(t.out) = 0
      BY <2>5
    <3>5. Len(t.out) >= 0
      BY <3>4
    <3> QED BY <3>3, <3>5
  <2>7. OneShot(B, 0) = t
    <3>1. 1 \in 0..Len(B)
      BY <1>1, <2>1
    <3> HIDE DEF B
    <3> QED BY <1>1, <2>6, <3>1, StaysPut DEF r
  <2> QED BY <2>5, <2>6, <2>7
<1> QED BY <1>1, <1>3, <1>4

LEMMA InitMasked == LateInit => MaskedInv
<1> SUFFICES ASSUME LateInit PROVE MaskedInv
  OBVIOUS
<1>1. /\ m_pc = "idle" /\ m_pos = 0 /\ m_dict = << >> /\ row_cursor = 0 /\ out = << >>
  BY DEF LateInit, MaskedIdle
<1>2. << >> \in Seq(Int)
  OBVIOUS
<1> QED BY <1>1, <1>2 DEF MaskedInv, MaskedType, MaskedWalk

LEMMA NextMasked == MaskedInv /\ [LateNext]_lateVars => MaskedInv'
<1> SUFFICES ASSUME MaskedInv, [LateNext]_lateVars PROVE MaskedInv'
  OBVIOUS
<1>1. ASSUME maskedVars' = maskedVars PROVE MaskedInv'
  <2>1. UNCHANGED <<m_call, m_pc, m_pos, m_dict, row_cursor, out>>
    BY <1>1 DEF maskedVars
  <2>2. /\ MPages' = MPages /\ MTotal' = MTotal /\ Blanked' = Blanked /\ MRead' = MRead
    BY <2>1, CallSettled
  <2>3. /\ (Unmasked(MRead[m_pos].out))' = Unmasked(MRead[m_pos].out)
        /\ (Unmasked(OneShot(Blanked, MTotal).out))' = Unmasked(OneShot(Blanked, MTotal).out)
    BY <2>1, <2>2 DEF Unmasked
  <2>4. MaskedType'
    BY <2>1, <2>2 DEF MaskedInv, MaskedType
  <2>5. MaskedWalk'
    BY <2>1, <2>2, <2>3 DEF MaskedInv, MaskedWalk, Before
  <2> QED BY <2>4, <2>5 DEF MaskedInv
<1>2. ASSUME GatherCall \/ CallerMaskCall PROVE MaskedInv'
  <2>1. PICK c \in MaskedChunks : \E m : CallMasked(c, m)
    BY <1>2 DEF GatherCall, CallerMaskCall
  <2>2. PICK m : CallMasked(c, m)
    BY <2>1
  <2> QED BY <2>2, CallMaskedInv
<1>3. ASSUME MaskedStep PROVE MaskedInv'
  BY <1>3, NoRowsInv, DataPageInv, FailInv, EndInv DEF MaskedStep
<1>4. \/ maskedVars' = maskedVars \/ GatherCall \/ CallerMaskCall \/ MaskedStep
  BY DEF LateNext, FilterCall, FilterStep, GatherStep, Returned, lateVars
<1> QED BY <1>1, <1>2, <1>3, <1>4

(* When the read has returned.                                             *)
LEMMA MaskedInvFilters == ASSUME MaskedInv PROVE MaskedIsFilter
<1>1. ASSUME m_pc = "done" PROVE SelectedReadable /\ out = MaskedRows
  <2>1. /\ m_call.chunk \in MaskedChunks /\ MTotal \in Nat
        /\ MTotal > 0 => /\ ~OneShot(Blanked, MTotal).err
                         /\ out = Unmasked(OneShot(Blanked, MTotal).out)
        /\ MTotal = 0 => out = << >>
    BY <1>1, MaskedChunk DEF MaskedInv, MaskedType, MaskedWalk, MTotal
  <2>2. MTotal = 0 => ~OneShot(Blanked, MTotal).err /\ OneShot(Blanked, MTotal).out = << >>
    BY <2>1, EmptyOneShot
  <2>3. Unmasked(<< >>) = << >>
    BY SelectedEmpty DEF Unmasked
  <2>4. ~OneShot(Blanked, MTotal).err /\ out = Unmasked(OneShot(Blanked, MTotal).out)
    BY <2>1, <2>2, <2>3
  <2> QED BY <2>4 DEF SelectedReadable, MaskedRows, Unmasked, MTotal
<1>2. ASSUME m_pc = "failed", MaskFits(m_call.chunk, m_call.mask) PROVE ~SelectedReadable
  BY <1>2 DEF MaskedInv, MaskedWalk, SelectedReadable, MTotal
<1> QED BY <1>1, <1>2 DEF MaskedIsFilter

(* decode_chunk_row_masked_into: masking is filtering, whatever pages are  *)
(* skipped, and the read fails only at a page that holds a selected row.   *)
THEOREM MaskIsFilter == LateSpec => []MaskedIsFilter
<1>1. QED
  BY MaskedInvFilters, InitMasked, NextMasked, PTL DEF LateSpec

-----------------------------------------------------------------------------
(* The adaptive reader against the one-shot reader of the same chunk.      *)

FChunk == request.chunk
FRead  == After(ChunkPagesOf, FChunk.total)

CodedPages == {p \in WidePage : p.kind = "coded"}

(* The rows before each page, and behind the last one.                     *)
Starts(ps) == RunningSum([k \in 1..Len(ps) |-> Len(ps[k].vals)])

(* `rows' are those of the coded pages `ps', one page behind the other.    *)
Spelled(rows, ps, d) ==
  /\ Len(rows) = RowCount(ps)
  /\ \A k \in 1..Len(ps) :
       /\ Decodable(ps[k], d)
       /\ \A i \in 1..Len(ps[k].vals) :
            rows[Starts(ps)[k - 1] + i] = PageRows(ps[k], d)[i]

Wanted == {i \in 1..Len(Rows) : Rows[i] \in request.predicate}

(* The rows of the first k pages that pass.                                *)
PassingUpTo(k) == Picks(Rows, Wanted)[Starts(pages)[k]]

(* Pages whose rows the running loop has dealt with.                       *)
Reached == IF f_pc = "done" THEN Len(pages) ELSE pos

Fusing    == f_pc \in {"probe", "fused"} \/ (f_pc = "done" /\ dispatch = "Fused")
Gathering == f_pc = "materialise" \/ (f_pc = "done" /\ dispatch = "Materialized")

FilterType ==
  /\ f_pc \in {"idle", "pull", "mask", "probe", "fused", "materialise", "done", "failed"}
  /\ f_pc # "idle" => FChunk \in DictChunks /\ request.options \in Options
  /\ f_pc \in {"idle", "mask"} => pos = 0
  /\ f_pc = "pull" => pos \in 0..Len(ChunkPagesOf)
  /\ f_pc \in {"probe", "fused", "materialise", "done"} => pos \in 0..Len(pages)
  /\ f_pc = "idle" => has_dict = FALSE /\ f_dict = << >> /\ pages = << >>
  /\ f_pc \in {"idle", "pull", "mask"} => rows_passed = 0 /\ bitmap = << >>
  /\ f_pc \in {"idle", "pull", "mask", "probe", "fused"} => values = << >>
  /\ f_dict \in Seq(Int) /\ pages \in Seq(CodedPages)
  /\ bitmap \in Seq(BOOLEAN) /\ rows_passed \in Nat
  /\ f_pc = "fused" => dispatch = "Fused"
  /\ f_pc = "materialise" => dispatch = "Materialized"
  /\ f_pc = "done" => dispatch \in {"Fused", "Materialized"}

(* The pull has collected the rows the one-shot reader has appended.       *)
FilterPull ==
  f_pc = "pull" =>
    /\ has_dict <=> \E j \in 1..pos : ChunkPagesOf[j].kind = "dict"
    /\ ~has_dict => f_dict = << >> /\ pages = << >>
    /\ RowsDecode =>
         /\ ~FRead[pos].err /\ ~FRead[pos].done
         /\ FRead[pos].dict = f_dict
         /\ Spelled(FRead[pos].out, pages, f_dict)

FilterHeld ==
  /\ f_pc \in {"mask", "probe", "fused", "materialise", "done"} /\ RowsDecode =>
       Spelled(Rows, pages, f_dict)
  /\ f_pc \in {"probe", "fused", "materialise", "done"} =>
       \A v \in 1..Len(f_dict) : mask[v] <=> f_dict[v] \in request.predicate

(* The bits before each page: whole bytes per page.                        *)
BitsBefore == RunningSum([k \in 1..Len(pages) |-> CeilBytes(Len(pages[k].vals)) * Byte])

FilterFused ==
  Fusing =>
    /\ Len(bitmap) = BitsBefore[Reached]
    /\ RowsDecode =>
         /\ rows_passed = Len(PassingUpTo(Reached))
         /\ \A k \in 1..Reached : \A i \in 1..Len(pages[k].vals) :
              bitmap[BitsBefore[k - 1] + i]
                <=> PageRows(pages[k], f_dict)[i] \in request.predicate

FilterGathered ==
  Gathering /\ RowsDecode => values = PassingUpTo(Reached)

FilterInv ==
  FilterType /\ FilterPull /\ FilterHeld /\ FilterFused /\ FilterGathered

-----------------------------------------------------------------------------
(* Counts of rows and of bits.                                             *)

LEMMA PageLens ==
  ASSUME NEW ps \in Seq(CodedPages)
  PROVE  /\ Len(ps) \in Nat
         /\ \A k \in 1..Len(ps) : /\ ps[k].vals \in Seq(Int) /\ Len(ps[k].vals) \in Nat
                                  /\ IsData(ps[k]) /\ ps[k].kind = "coded" /\ ps[k] \in WidePage
<1>1. Len(ps) \in Nat /\ \A k \in 1..Len(ps) : ps[k] \in CodedPages
  OBVIOUS
<1>2. \A p \in CodedPages : p \in WidePage /\ p.kind = "coded"
  BY DEF CodedPages
<1>3. \A p \in WidePage : p.vals \in Seq(Int) /\ Len(p.vals) \in Nat
  BY DEF WidePage
<1> QED BY <1>1, <1>2, <1>3 DEF IsData

LEMMA StartsSteps ==
  ASSUME NEW ps \in Seq(CodedPages)
  PROVE  /\ Starts(ps) \in [0..Len(ps) -> Nat] /\ Starts(ps)[0] = 0
         /\ \A k \in 1..Len(ps) : Starts(ps)[k] = Starts(ps)[k - 1] + Len(ps[k].vals)
         /\ \A k \in 0..Len(ps) : Starts(ps)[k] <= RowCount(ps)
         /\ RowCount(ps) = Starts(ps)[Len(ps)] /\ RowCount(ps) \in Nat
<1> DEFINE n == Len(ps)
           s == [k \in 1..n |-> Len(ps[k].vals)]
<1>1. n \in Nat /\ \A k \in 1..n : Len(ps[k].vals) \in Nat
  BY PageLens
<1>2. Starts(ps) = RunningSum(s) /\ RowCount(ps) = RunningSum(s)[n]
  BY DEF Starts, RowCount
<1> HIDE DEF n
<1>3. s \in Seq(Nat) /\ Len(s) = n /\ \A k \in 1..n : s[k] = Len(ps[k].vals)
  BY <1>1
<1> HIDE DEF s
<1>4. /\ RunningSum(s) \in [0..n -> Nat] /\ RunningSum(s)[0] = 0
      /\ \A k \in 1..n : RunningSum(s)[k] = RunningSum(s)[k - 1] + s[k]
  BY <1>3, SumSteps
<1>5. ASSUME NEW k \in 0..n PROVE RunningSum(s)[k] <= RunningSum(s)[n]
  <2>1. k \in 0..Len(s) /\ n \in k..Len(s)
    BY <1>1, <1>3
  <2> QED BY <1>3, <2>1, SumGrows
<1>6. n \in 0..n
  BY <1>1
<1> QED BY <1>2, <1>3, <1>4, <1>5, <1>6 DEF n

LEMMA StartsAppend ==
  ASSUME NEW ps \in Seq(CodedPages), NEW p \in CodedPages
  PROVE  LET qs == Append(ps, p)
         IN  /\ qs \in Seq(CodedPages) /\ Len(qs) = Len(ps) + 1
             /\ \A k \in 1..Len(ps) : qs[k] = ps[k]
             /\ qs[Len(ps) + 1] = p
             /\ \A k \in 0..Len(ps) : Starts(qs)[k] = Starts(ps)[k]
             /\ RowCount(qs) = RowCount(ps) + Len(p.vals)
<1> DEFINE qs == Append(ps, p)
           n == Len(ps)
           s == [k \in 1..Len(ps) |-> Len(ps[k].vals)]
           t == [k \in 1..Len(qs) |-> Len(qs[k].vals)]
<1>1. /\ n \in Nat /\ qs \in Seq(CodedPages) /\ Len(qs) = n + 1 /\ qs[n + 1] = p
      /\ \A k \in 1..n : qs[k] = ps[k]
  OBVIOUS
<1>2. /\ \A k \in 1..n : Len(ps[k].vals) \in Nat
      /\ \A k \in 1..(n + 1) : Len(qs[k].vals) \in Nat
  BY <1>1, PageLens
<1> HIDE DEF qs, n
<1>3. /\ s \in Seq(Nat) /\ Len(s) = n
      /\ \A k \in 1..n : s[k] = Len(ps[k].vals)
  BY <1>1, <1>2 DEF n
<1>4. /\ t \in Seq(Nat) /\ Len(t) = n + 1
      /\ \A k \in 1..(n + 1) : t[k] = Len(qs[k].vals)
  BY <1>1, <1>2
<1>5. Starts(ps) = RunningSum(s) /\ Starts(qs) = RunningSum(t)
  BY DEF Starts
<1> HIDE DEF s, t
<1>6. \A k \in 0..n : RunningSum(s)[k] = RunningSum(t)[k]
  <2>1. n <= Len(s) /\ n <= Len(t) /\ \A i \in 1..n : s[i] = t[i]
    BY <1>1, <1>3, <1>4
  <2> QED BY <1>1, <1>3, <1>4, <2>1, SumAgrees
<1>7. /\ RowCount(ps) = Starts(ps)[n]
      /\ RowCount(qs) = Starts(qs)[n + 1]
      /\ Starts(qs)[n + 1] = Starts(qs)[n] + Len(p.vals)
  <2>1. RowCount(ps) = Starts(ps)[n]
    BY StartsSteps DEF n
  <2>2. /\ RowCount(qs) = Starts(qs)[n + 1]
        /\ \A k \in 1..(n + 1) : Starts(qs)[k] = Starts(qs)[k - 1] + Len(qs[k].vals)
    BY <1>1, StartsSteps
  <2>3. n + 1 \in 1..(n + 1) /\ n + 1 - 1 = n
    BY <1>1
  <2> QED BY <1>1, <2>1, <2>2, <2>3
<1>8. n \in 0..n
  BY <1>1
<1> QED BY <1>1, <1>5, <1>6, <1>7, <1>8 DEF qs, n

(* The next page spelled.                                                  *)
LEMMA SpelledAppend ==
  ASSUME NEW rows \in Seq(Int), NEW ps \in Seq(CodedPages), NEW d \in Seq(Int),
         NEW p \in CodedPages, Spelled(rows, ps, d), Decodable(p, d)
  PROVE  Spelled(rows \o PageRows(p, d), Append(ps, p), d)
<1> DEFINE qs == Append(ps, p)
           n == Len(ps)
           more == PageRows(p, d)
           all == rows \o more
<1>1. /\ p.vals \in Seq(Int) /\ IsData(p)
  BY DEF CodedPages, WidePage, IsData
<1>2. more \in Seq(Int) /\ Len(more) = Len(p.vals)
  BY <1>1, PageRowsType
<1>3. /\ n \in Nat /\ Len(qs) = n + 1 /\ (\A k \in 1..n : qs[k] = ps[k]) /\ qs[n + 1] = p
      /\ \A k \in 0..n : Starts(qs)[k] = Starts(ps)[k]
      /\ RowCount(qs) = RowCount(ps) + Len(p.vals)
  <2>1. n \in Nat /\ Len(qs) = n + 1 /\ (\A k \in 1..n : qs[k] = ps[k]) /\ qs[n + 1] = p
    OBVIOUS
  <2>2. RowCount(qs) = RowCount(ps) + Len(p.vals)
    BY StartsAppend
  <2>3. \A k \in 0..n : Starts(qs)[k] = Starts(ps)[k]
    BY StartsAppend
  <2> HIDE DEF n, qs
  <2> QED BY <2>1, <2>2, <2>3
<1>4. Len(rows) = RowCount(ps) /\ RowCount(ps) = Starts(ps)[n] /\ RowCount(ps) \in Nat
  BY StartsSteps DEF Spelled
<1> HIDE DEF qs, n, more
<1>5. /\ Len(all) = Len(rows) + Len(more)
      /\ \A i \in 1..Len(rows) : all[i] = rows[i]
      /\ \A i \in 1..Len(more) : all[Len(rows) + i] = more[i]
  <2>1. more \in Seq(Int)
    BY <1>2
  <2>2. Len(all) = Len(rows) + Len(more)
    BY <2>1
  <2>3. \A i \in 1..Len(rows) : all[i] = rows[i]
    BY <2>1
  <2>4. \A i \in 1..Len(more) : all[Len(rows) + i] = more[i]
    BY <2>1
  <2> QED BY <2>2, <2>3, <2>4
<1> HIDE DEF all
<1>6. Len(all) = RowCount(qs)
  BY <1>2, <1>3, <1>4, <1>5
<1>7. ASSUME NEW k \in 1..n
      PROVE  /\ Decodable(qs[k], d)
             /\ \A i \in 1..Len(qs[k].vals) :
                  all[Starts(qs)[k - 1] + i] = PageRows(qs[k], d)[i]
  <2>1. qs[k] = ps[k] /\ Starts(qs)[k - 1] = Starts(ps)[k - 1]
    <3>1. k - 1 \in 0..n
      BY <1>3
    <3> QED BY <1>3, <3>1
  <2>2. /\ Decodable(ps[k], d)
        /\ \A i \in 1..Len(ps[k].vals) : rows[Starts(ps)[k - 1] + i] = PageRows(ps[k], d)[i]
    BY DEF Spelled, n
  <2>3. ASSUME NEW i \in 1..Len(ps[k].vals)
        PROVE  Starts(ps)[k - 1] + i \in 1..Len(rows)
    <3>1. /\ Starts(ps)[k] = Starts(ps)[k - 1] + Len(ps[k].vals)
          /\ Starts(ps)[k] <= RowCount(ps) /\ Starts(ps)[k - 1] \in Nat
          /\ Len(ps[k].vals) \in Nat
      <4>1. k \in 1..Len(ps) /\ k \in 0..Len(ps) /\ k - 1 \in 0..Len(ps)
        BY <1>3 DEF n
      <4> QED BY <4>1, StartsSteps, PageLens
    <3> DEFINE a == Starts(ps)[k - 1]
               l == Len(ps[k].vals)
               b == Starts(ps)[k]
               c == RowCount(ps)
    <3>2. a \in Nat /\ l \in Nat /\ b = a + l /\ b <= c /\ c \in Nat /\ Len(rows) = c /\ i \in 1..l
      BY <1>4, <3>1
    <3> HIDE DEF a, l, b, c
    <3>3. a + i \in 1..Len(rows)
      BY <3>2
    <3> QED BY <3>3 DEF a
  <2> QED BY <1>5, <2>1, <2>2, <2>3
<1>8. ASSUME NEW k \in 1..(n + 1), k = n + 1
      PROVE  /\ Decodable(qs[k], d)
             /\ \A i \in 1..Len(qs[k].vals) :
                  all[Starts(qs)[k - 1] + i] = PageRows(qs[k], d)[i]
  <2>1. k - 1 = n /\ n \in 0..n
    BY <1>3, <1>8
  <2>2. Starts(qs)[k - 1] = Len(rows)
    BY <1>3, <1>4, <2>1
  <2>3. qs[k] = p
    BY <1>3, <1>8
  <2>4. Len(more) = Len(p.vals) /\ more = PageRows(p, d)
    BY <1>2 DEF more
  <2>5. \A i \in 1..Len(p.vals) : all[Len(rows) + i] = PageRows(p, d)[i]
    BY <1>5, <2>4
  <2> QED BY <2>2, <2>3, <2>5
<1>9. \A k \in 1..(n + 1) : k \in 1..n \/ k = n + 1
  BY <1>3
<1>10. Len(qs) = n + 1
  BY <1>3
<1>11. ASSUME NEW k \in 1..(n + 1)
       PROVE  /\ Decodable(qs[k], d)
              /\ \A i \in 1..Len(qs[k].vals) :
                   all[Starts(qs)[k - 1] + i] = PageRows(qs[k], d)[i]
  <2>1. CASE k \in 1..n
    BY <1>7, <2>1
  <2>2. CASE k = n + 1
    BY <1>8, <2>2
  <2> QED BY <1>9, <2>1, <2>2
<1>12. Spelled(all, qs, d)
  BY <1>6, <1>10, <1>11 DEF Spelled
<1> QED BY <1>12 DEF all, more, qs

LEMMA SpelledNone == ASSUME NEW d PROVE Spelled(<< >>, << >>, d)
<1>1. << >> \in Seq(CodedPages) /\ Len(<< >>) = 0
  OBVIOUS
<1>2. RowCount(<< >>) = 0
  BY <1>1, StartsSteps
<1> QED BY <1>1, <1>2 DEF Spelled

(* Whole bytes for the rows of a page.                                     *)
LEMMA CeilFills ==
  ASSUME NEW n \in Nat
  PROVE  /\ CeilBytes(n) * Byte \in Nat /\ n <= CeilBytes(n) * Byte
         /\ n = 0 => CeilBytes(n) * Byte = 0
         /\ n % Byte = 0 => CeilBytes(n) * Byte = n
<1> DEFINE b == Byte
           q == CeilBytes(n)
           r == (n + b - 1) % b
<1>1. b \in Nat /\ b >= 1
  BY ByteAssumption
<1> HIDE DEF b
<1>2. /\ q \in Nat /\ r \in 0..(b - 1) /\ n + b - 1 = b * q + r
  BY <1>1 DEF CeilBytes, b
<1>3. b * q = q * b
  BY <1>1, <1>2
<1>4. q * b \in Nat
  BY <1>1, <1>2
<1> DEFINE c == q * b
<1> HIDE DEF q, r
<1>5. c \in Nat /\ n + b - 1 = c + r
  BY <1>2, <1>3, <1>4
<1>6. n <= c
  <2> HIDE DEF c
  <2> QED BY <1>1, <1>2, <1>5
<1>7. n = 0 => c = 0
  <2>1. n = 0 => q = 0
    BY <1>1 DEF q, CeilBytes, b
  <2> QED BY <1>1, <2>1
<1>8. n % b = 0 => c = n
  <2> SUFFICES ASSUME n % b = 0 PROVE c = n
    OBVIOUS
  <2> DEFINE p == n \div b
  <2>1. p \in Nat /\ n = b * p
    BY <1>1
  <2> HIDE DEF p
  <2>2. (b * p + (b - 1)) \div b = p
    BY <1>1, <2>1
  <2>3. q = p
    BY <1>1, <2>1, <2>2 DEF q, CeilBytes, b
  <2> QED BY <1>1, <2>1, <2>3
<1> QED BY <1>5, <1>6, <1>7, <1>8 DEF b, q

BitsOf(ps) == RunningSum([k \in 1..Len(ps) |-> CeilBytes(Len(ps[k].vals)) * Byte])

LEMMA BitsSteps ==
  ASSUME NEW ps \in Seq(CodedPages)
  PROVE  /\ BitsOf(ps) \in [0..Len(ps) -> Nat] /\ BitsOf(ps)[0] = 0
         /\ \A k \in 1..Len(ps) :
              /\ BitsOf(ps)[k] = BitsOf(ps)[k - 1] + CeilBytes(Len(ps[k].vals)) * Byte
              /\ BitsOf(ps)[k - 1] + Len(ps[k].vals) <= BitsOf(ps)[k]
         /\ \A j \in 0..Len(ps) : \A k \in j..Len(ps) : BitsOf(ps)[j] <= BitsOf(ps)[k]
<1> DEFINE n == Len(ps)
           s == [k \in 1..n |-> CeilBytes(Len(ps[k].vals)) * Byte]
<1>1. n \in Nat /\ \A k \in 1..n : Len(ps[k].vals) \in Nat
  BY PageLens
<1>2. BitsOf(ps) = RunningSum(s)
  BY DEF BitsOf
<1>3. \A k \in 1..n : /\ CeilBytes(Len(ps[k].vals)) * Byte \in Nat
                      /\ Len(ps[k].vals) <= CeilBytes(Len(ps[k].vals)) * Byte
  BY <1>1, CeilFills
<1> HIDE DEF n
<1>4. s \in Seq(Nat) /\ Len(s) = n /\ \A k \in 1..n : s[k] = CeilBytes(Len(ps[k].vals)) * Byte
  BY <1>1, <1>3
<1> HIDE DEF s
<1>5. /\ RunningSum(s) \in [0..n -> Nat] /\ RunningSum(s)[0] = 0
      /\ \A k \in 1..n : RunningSum(s)[k] = RunningSum(s)[k - 1] + s[k]
  BY <1>4, SumSteps
<1>6. \A j \in 0..n : \A k \in j..n : RunningSum(s)[j] <= RunningSum(s)[k]
  BY <1>4, SumGrows
<1> DEFINE sum == RunningSum(s)
<1> HIDE DEF sum
<1>7. ASSUME NEW k \in 1..n PROVE sum[k - 1] + Len(ps[k].vals) <= sum[k]
  <2>1. sum[k - 1] \in Nat /\ sum[k] = sum[k - 1] + s[k]
    <3>1. k - 1 \in 0..n
      BY <1>1
    <3> QED BY <1>5, <3>1 DEF sum
  <2>2. s[k] \in Nat /\ Len(ps[k].vals) <= s[k] /\ Len(ps[k].vals) \in Nat
    BY <1>1, <1>3, <1>4
  <2> DEFINE a == sum[k - 1]
             b == s[k]
             c == Len(ps[k].vals)
  <2>3. a \in Nat /\ b \in Nat /\ c \in Nat /\ c <= b
    BY <2>1, <2>2
  <2> HIDE DEF a, b, c
  <2>4. a + c <= a + b
    BY <2>3
  <2> QED BY <2>1, <2>4 DEF a, b, c
<1> QED BY <1>2, <1>4, <1>5, <1>6, <1>7 DEF n, sum

(* No rows, no bits.                                                       *)
LEMMA NoRowsNoBits ==
  ASSUME NEW ps \in Seq(CodedPages), RowCount(ps) = 0
  PROVE  /\ \A k \in 1..Len(ps) : Len(ps[k].vals) = 0
         /\ \A k \in 0..Len(ps) : Starts(ps)[k] = 0 /\ BitsOf(ps)[k] = 0
<1> DEFINE n == Len(ps)
           st == Starts(ps)
           bo == BitsOf(ps)
           D == {k \in 0..n : bo[k] = 0}
<1>1. n \in Nat /\ \A k \in 1..n : Len(ps[k].vals) \in Nat
  BY PageLens
<1>2. /\ \A k \in 0..n : st[k] \in Nat /\ st[k] <= 0
      /\ \A k \in 1..n : st[k] = st[k - 1] + Len(ps[k].vals)
  BY StartsSteps
<1>3. bo[0] = 0 /\ \A k \in 1..n : bo[k] = bo[k - 1] + CeilBytes(Len(ps[k].vals)) * Byte
  BY BitsSteps
<1> HIDE DEF n, st, bo
<1>4. \A k \in 0..n : st[k] = 0
  BY <1>2
<1>5. ASSUME NEW k \in 1..n PROVE Len(ps[k].vals) = 0
  <2>1. st[k] = 0 /\ st[k - 1] = 0
    <3>1. k \in 0..n /\ k - 1 \in 0..n
      BY <1>1
    <3> QED BY <1>4, <3>1
  <2> QED BY <1>1, <1>2, <2>1
<1>6. 0 \in D
  BY <1>1, <1>3
<1>7. ASSUME NEW k \in 0..(n - 1), k \in D PROVE k + 1 \in D
  <2> DEFINE j == k + 1
  <2>1. j \in 1..n /\ j \in 0..n /\ j - 1 = k
    BY <1>1
  <2> HIDE DEF j
  <2>2. CeilBytes(Len(ps[j].vals)) * Byte = 0
    BY <1>5, <2>1, CeilFills
  <2>3. bo[j] = 0
    BY <1>3, <1>7, <2>1, <2>2
  <2> QED BY <2>1, <2>3 DEF j
<1> HIDE DEF D
<1>8. \A k \in 0..n : k \in D
  BY <1>1, <1>6, <1>7, Climb
<1>9. \A k \in 0..n : bo[k] = 0
  BY <1>8 DEF D
<1> QED BY <1>4, <1>5, <1>9 DEF n, st, bo

-----------------------------------------------------------------------------
(* Pulling the chunk.                                                      *)

LEMMA DictChunk ==
  ASSUME NEW c \in DictChunks
  PROVE  /\ IntPages(c.pages) /\ c.total \in Nat /\ Len(c.pages) \in Nat
         /\ \A k \in 1..Len(c.pages) : c.pages[k] \in WidePage
<1>1. c.pages \in Seq(WidePage) /\ c.total \in Nat
  BY DictChunksAssumption
<1> DEFINE ps == c.pages
<1> HIDE DEF ps
<1>2. Len(ps) \in Nat /\ \A k \in 1..Len(ps) : ps[k] \in WidePage
  BY <1>1 DEF ps
<1>3. \A k \in 1..Len(ps) : ps[k].vals \in Seq(Int)
  BY <1>2 DEF WidePage
<1> QED BY <1>1, <1>2, <1>3 DEF IntPages, ps

(* The call and what it decodes to do not change while it runs.            *)
LEMMA FilterSettled ==
  ASSUME request' = request
  PROVE  /\ ChunkPagesOf' = ChunkPagesOf /\ FChunk' = FChunk /\ FRead' = FRead
         /\ Rows' = Rows /\ RowsDecode' = RowsDecode /\ Wanted' = Wanted
<1>1. ChunkPagesOf' = ChunkPagesOf /\ FChunk' = FChunk
  BY DEF ChunkPagesOf, FChunk
<1>2. FRead' = FRead /\ Rows' = Rows /\ RowsDecode' = RowsDecode
  BY <1>1 DEF FRead, Rows, RowsDecode
<1> QED BY <1>1, <1>2 DEF Wanted

LEMMA PullFacts ==
  ASSUME FilterInv, f_pc = "pull"
  PROVE  /\ pos \in Nat /\ pos \in 0..Len(ChunkPagesOf) /\ FChunk.total \in Nat
         /\ FRead[pos] \in ReaderStates
         /\ pos = Len(ChunkPagesOf) => Rows = FRead[pos].out
         /\ pos < Len(ChunkPagesOf) =>
              LET p == ChunkPagesOf[pos + 1]
                  t == FRead[pos + 1]
              IN  /\ p \in WidePage /\ pos + 1 \in 1..Len(ChunkPagesOf)
                  /\ t = ReadPage(FRead[pos], p, FChunk.total)
                  /\ t \in ReaderStates
                  /\ RowsDecode => ~t.err
                  /\ t.done => Rows = t.out
<1> DEFINE ps == ChunkPagesOf
           total == FChunk.total
           r == After(ps, total)
<1>1. FChunk \in DictChunks /\ pos \in 0..Len(ps)
  BY DEF FilterInv, FilterType
<1>2. ps = FChunk.pages /\ FRead = r
  BY DEF ChunkPagesOf, FChunk, FRead
<1>3. /\ IntPages(ps) /\ total \in Nat /\ Len(ps) \in Nat
      /\ \A k \in 1..Len(ps) : ps[k] \in WidePage
  BY <1>1, <1>2, DictChunk
<1>4. Rows = OneShot(ps, total).out /\ RowsDecode = ~OneShot(ps, total).err
  BY DEF Rows, RowsDecode, FChunk
<1>5. total \in Int
  BY <1>3
<1> HIDE DEF ps, total
<1>6. /\ r \in [0..Len(ps) -> ReaderStates]
      /\ \A k \in 1..Len(ps) : r[k] = ReadPage(r[k - 1], ps[k], total)
  BY <1>3, <1>5, AfterPages
<1>7. \A k \in 0..Len(ps) : r[k].err \/ r[k].done => OneShot(ps, total) = r[k]
  BY <1>3, <1>5, StaysPut
<1>8. OneShot(ps, total) = r[Len(ps)]
  BY DEF OneShot
<1> HIDE DEF r
<1>9. r[pos] \in ReaderStates /\ (pos = Len(ps) => Rows = r[pos].out)
  BY <1>1, <1>4, <1>6, <1>8
<1>10. ASSUME pos < Len(ps)
       PROVE  /\ ps[pos + 1] \in WidePage /\ pos + 1 \in 1..Len(ps)
              /\ r[pos + 1] = ReadPage(r[pos], ps[pos + 1], total)
              /\ r[pos + 1] \in ReaderStates
              /\ RowsDecode => ~r[pos + 1].err
              /\ r[pos + 1].done => Rows = r[pos + 1].out
  <2> DEFINE j == pos + 1
  <2>1. j \in 1..Len(ps) /\ j - 1 = pos /\ j \in 0..Len(ps)
    BY <1>1, <1>3, <1>10
  <2> HIDE DEF j
  <2>2. ps[j] \in WidePage /\ r[j] = ReadPage(r[pos], ps[j], total) /\ r[j] \in ReaderStates
    BY <1>3, <1>6, <2>1
  <2>3. r[j].err \/ r[j].done => OneShot(ps, total) = r[j]
    BY <1>7, <2>1
  <2>4. RowsDecode => ~r[j].err
    BY <1>4, <2>3
  <2>5. r[j].done => Rows = r[j].out
    BY <1>4, <2>3
  <2> QED BY <2>1, <2>2, <2>4, <2>5 DEF j
<1> QED BY <1>1, <1>2, <1>3, <1>9, <1>10 DEF ps, total

(* After every page: what is collected is what the reader has appended,    *)
(* and the walk stops where the reader does.                               *)
LEMMA PullInv ==
  ASSUME FilterInv, f_pc = "pull", pos < Len(ChunkPagesOf),
         request' = request, WalkOn(pages'), UNCHANGED outputs,
         f_dict' \in Seq(Int), pages' \in Seq(CodedPages),
         has_dict' <=> has_dict \/ ChunkPagesOf[pos + 1].kind = "dict",
         ~has_dict' => f_dict' = << >> /\ pages' = << >>,
         RowsDecode => /\ FRead[pos + 1].dict = f_dict'
                       /\ Spelled(FRead[pos + 1].out, pages', f_dict')
  PROVE  FilterInv'
<1> DEFINE j == pos + 1
           t == FRead[j]
           qs == pages'
           total == FChunk.total
<1>1. /\ pos \in Nat /\ j \in 1..Len(ChunkPagesOf) /\ total \in Nat
      /\ RowsDecode => ~t.err
      /\ t.done => Rows = t.out
      /\ t = ReadPage(FRead[pos], ChunkPagesOf[j], total)
  BY PullFacts
<1>2. /\ ChunkPagesOf' = ChunkPagesOf /\ FChunk' = FChunk /\ FRead' = FRead
      /\ Rows' = Rows /\ RowsDecode' = RowsDecode
  BY FilterSettled
<1>3. /\ pos' = IF RowCount(qs) >= total THEN 0 ELSE j
      /\ f_pc' = IF RowCount(qs) >= total THEN "mask" ELSE "pull"
  BY DEF WalkOn, FChunk
<1>4. FilterType
  BY DEF FilterInv
<1>5. RowsDecode => t.done = (RowCount(qs) >= total)
  <2> SUFFICES ASSUME RowsDecode PROVE t.done = (RowCount(qs) >= total)
    OBVIOUS
  <2>1. ~FRead[pos].err /\ ~FRead[pos].done
    BY DEF FilterInv, FilterPull
  <2>2. t.done = (Len(t.out) >= total)
    BY <1>1, <2>1, ReadsOn
  <2>3. Len(t.out) = RowCount(qs)
    BY DEF Spelled
  <2> QED BY <2>2, <2>3
<1>6. RowCount(qs) \in Nat
  BY StartsSteps
<1>7. FilterType'
  <2>1. f_pc' \in {"pull", "mask"} /\ FChunk' \in DictChunks
    BY <1>2, <1>3, <1>4 DEF FilterType
  <2>2. (f_pc' = "mask" => pos' = 0) /\ (f_pc' = "pull" => pos' \in 0..Len(ChunkPagesOf))
    BY <1>1, <1>3
  <2>3. UNCHANGED <<rows_passed, bitmap, values>>
    BY DEF outputs
  <2> QED BY <1>2, <1>4, <2>1, <2>2, <2>3 DEF FilterType
<1>8. FilterPull'
  <2> SUFFICES ASSUME f_pc' = "pull"
               PROVE  /\ has_dict' <=> \E i \in 1..pos' : ChunkPagesOf[i].kind = "dict"
                      /\ RowsDecode => ~t.err /\ ~t.done /\ pos' = j
    BY <1>1, <1>2, <1>3 DEF FilterPull
  <2>1. pos' = j /\ ~(RowCount(qs) >= total)
    BY <1>3
  <2>2. has_dict <=> \E i \in 1..pos : ChunkPagesOf[i].kind = "dict"
    BY DEF FilterInv, FilterPull
  <2>3. \A i \in 1..j : i \in 1..pos \/ i = j
    BY <1>1
  <2>4. j \in 1..j /\ \A i \in 1..pos : i \in 1..j
    BY <1>1
  <2>5. has_dict' <=> \E i \in 1..j : ChunkPagesOf[i].kind = "dict"
    BY <2>2, <2>3, <2>4
  <2> QED BY <1>1, <1>5, <2>1, <2>5
<1>9. FilterHeld'
  <2>1. f_pc' = "mask" /\ RowsDecode => Spelled(Rows, pages', f_dict')
    BY <1>1, <1>3, <1>5
  <2>2. f_pc' \in {"pull", "mask"}
    BY <1>3
  <2>3. f_pc' = "mask" /\ RowsDecode' => Spelled(Rows, pages, f_dict)'
    BY <1>2, <2>1 DEF Spelled, RowCount, Starts
  <2> QED BY <2>2, <2>3 DEF FilterHeld
<1>10. FilterFused' /\ FilterGathered'
  BY <1>3 DEF FilterFused, FilterGathered, Fusing, Gathering
<1> QED BY <1>7, <1>8, <1>9, <1>10 DEF FilterInv

LEMMA PullDictionaryInv == ASSUME FilterInv, PullDictionary PROVE FilterInv'
<1> DEFINE p == ChunkPagesOf[pos + 1]
           t == FRead[pos + 1]
<1>1. /\ f_pc = "pull" /\ pos < Len(ChunkPagesOf) /\ p.kind = "dict"
      /\ has_dict' = TRUE /\ f_dict' = p.vals /\ pages' = pages
      /\ WalkOn(pages') /\ request' = request /\ UNCHANGED outputs
  BY DEF PullDictionary, Pulling, WalkOn
<1>2. /\ p \in WidePage /\ pos + 1 \in 1..Len(ChunkPagesOf) /\ pos \in Nat
      /\ t = ReadPage(FRead[pos], p, FChunk.total)
  BY <1>1, PullFacts
<1>3. pages = << >>
  <2>1. ASSUME has_dict PROVE FALSE
    <3>1. PICK i \in 1..pos : ChunkPagesOf[i].kind = "dict"
      BY <1>1, <2>1 DEF FilterInv, FilterPull
    <3>2. FChunk \in DictChunks /\ pos \in 0..Len(ChunkPagesOf) /\ Len(ChunkPagesOf) \in Nat
      BY <1>1, DictChunk DEF FilterInv, FilterType, FChunk, ChunkPagesOf
    <3>3. i \in 1..Len(ChunkPagesOf) /\ i # pos + 1
      BY <1>2, <3>2
    <3>4. ChunkPagesOf = FChunk.pages
      BY DEF ChunkPagesOf, FChunk
    <3> QED BY <1>1, <1>2, <3>1, <3>2, <3>3, <3>4, OneDictionaryAssumption
  <2> QED BY <1>1, <2>1 DEF FilterInv, FilterPull
<1>4. p.vals \in Seq(Int)
  BY <1>2 DEF WidePage
<1>5. pages \in Seq(CodedPages)
  BY DEF FilterInv, FilterType
<1>6. ASSUME RowsDecode PROVE t.dict = f_dict' /\ Spelled(t.out, pages', f_dict')
  <2>1. /\ ~FRead[pos].err /\ ~FRead[pos].done
        /\ Spelled(FRead[pos].out, pages, f_dict)
    BY <1>1, <1>6 DEF FilterInv, FilterPull
  <2>2. ~IsData(p)
    BY <1>1 DEF IsData
  <2> HIDE DEF p, t
  <2>3. t.dict = p.vals /\ t.out = FRead[pos].out
    BY <1>1, <1>2, <2>1, <2>2, ReadsOn
  <2>4. Len(t.out) = RowCount(<< >>)
    BY <1>3, <2>1, <2>3 DEF Spelled
  <2>5. Spelled(t.out, << >>, f_dict')
    BY <2>4 DEF Spelled
  <2> QED BY <1>1, <1>3, <2>3, <2>5
<1>7. has_dict' <=> has_dict \/ p.kind = "dict"
  BY <1>1
<1>8. pages' \in Seq(CodedPages) /\ f_dict' \in Seq(Int) /\ has_dict'
  BY <1>1, <1>4, <1>5
<1> QED BY <1>1, <1>6, <1>7, <1>8, PullInv

LEMMA PullCodedInv == ASSUME FilterInv, PullCoded PROVE FilterInv'
<1> DEFINE p == ChunkPagesOf[pos + 1]
           t == FRead[pos + 1]
<1>1. /\ f_pc = "pull" /\ pos < Len(ChunkPagesOf) /\ p.kind = "coded" /\ has_dict
      /\ has_dict' = has_dict /\ f_dict' = f_dict /\ pages' = Append(pages, p)
      /\ WalkOn(pages') /\ request' = request /\ UNCHANGED outputs
  BY DEF PullCoded, Pulling
<1>2. /\ p \in WidePage /\ t = ReadPage(FRead[pos], p, FChunk.total)
      /\ FRead[pos] \in ReaderStates /\ (RowsDecode => ~t.err)
  BY <1>1, PullFacts
<1>3. p \in CodedPages /\ IsData(p) /\ p.kind # "dict"
  BY <1>1, <1>2 DEF CodedPages, IsData
<1>4. pages \in Seq(CodedPages) /\ f_dict \in Seq(Int)
  BY DEF FilterInv, FilterType
<1>5. Append(pages, p) \in Seq(CodedPages)
  <2> HIDE DEF p
  <2> QED BY <1>3, <1>4
<1>6. ASSUME RowsDecode PROVE t.dict = f_dict' /\ Spelled(t.out, pages', f_dict')
  <2> DEFINE rows == FRead[pos].out
  <2>1. /\ ~FRead[pos].err /\ ~FRead[pos].done /\ FRead[pos].dict = f_dict
        /\ Spelled(rows, pages, f_dict)
    BY <1>1, <1>6 DEF FilterInv, FilterPull
  <2>2. rows \in Seq(Int)
    BY <1>2 DEF ReaderStates
  <2> HIDE DEF p, t
  <2>3. Decodable(p, f_dict)
    BY <1>2, <1>3, <1>6, <2>1, ReadsOn
  <2>4. t.dict = f_dict /\ t.out = rows \o PageRows(p, f_dict)
    BY <1>2, <1>3, <2>1, <2>3, ReadsOn
  <2> HIDE DEF rows
  <2>5. Spelled(rows \o PageRows(p, f_dict), Append(pages, p), f_dict)
    BY <1>3, <1>4, <2>1, <2>2, <2>3, SpelledAppend
  <2> QED BY <1>1, <2>4, <2>5
<1>7. has_dict' <=> has_dict \/ p.kind = "dict"
  BY <1>1
<1>8. pages' \in Seq(CodedPages) /\ f_dict' \in Seq(Int) /\ has_dict'
  BY <1>1, <1>4, <1>5
<1> QED BY <1>1, <1>6, <1>7, <1>8, PullInv

LEMMA PullIndexPageInv == ASSUME FilterInv, PullIndexPage PROVE FilterInv'
<1> DEFINE p == ChunkPagesOf[pos + 1]
           t == FRead[pos + 1]
<1>1. /\ f_pc = "pull" /\ pos < Len(ChunkPagesOf) /\ p.kind = "index"
      /\ has_dict' = has_dict /\ f_dict' = f_dict /\ pages' = pages
      /\ WalkOn(pages') /\ request' = request /\ UNCHANGED outputs
  BY DEF PullIndexPage, Pulling, WalkOn, pulled
<1>2. t = ReadPage(FRead[pos], p, FChunk.total)
  BY <1>1, PullFacts
<1>3. ~IsData(p) /\ p.kind # "dict"
  BY <1>1 DEF IsData
<1>4. pages \in Seq(CodedPages) /\ f_dict \in Seq(Int)
  BY DEF FilterInv, FilterType
<1>5. ASSUME RowsDecode PROVE t.dict = f_dict' /\ Spelled(t.out, pages', f_dict')
  <2>1. /\ ~FRead[pos].err /\ ~FRead[pos].done /\ FRead[pos].dict = f_dict
        /\ Spelled(FRead[pos].out, pages, f_dict)
    BY <1>1, <1>5 DEF FilterInv, FilterPull
  <2> HIDE DEF p, t
  <2>2. t.dict = f_dict /\ t.out = FRead[pos].out
    BY <1>2, <1>3, <2>1, ReadsOn
  <2> QED BY <1>1, <2>1, <2>2
<1>6. has_dict' <=> has_dict \/ p.kind = "dict"
  BY <1>1, <1>3
<1>7. ~has_dict' => f_dict' = << >> /\ pages' = << >>
  BY <1>1 DEF FilterInv, FilterPull
<1>8. pages' \in Seq(CodedPages) /\ f_dict' \in Seq(Int)
  BY <1>1, <1>4
<1> QED BY <1>1, <1>5, <1>6, <1>7, <1>8, PullInv

LEMMA FailsInv ==
  ASSUME FilterInv, PullFails \/ MaskFails \/ PageFails PROVE FilterInv'
<1>1. /\ f_pc # "idle" /\ f_pc' = "failed" /\ request' = request
      /\ UNCHANGED <<pos, pulled, outputs>>
  BY DEF PullFails, MaskFails, PageFails, Pulling
<1>2. UNCHANGED <<pos, has_dict, f_dict, pages, bitmap, rows_passed, values>>
  BY <1>1 DEF pulled, outputs
<1>3. FChunk' = FChunk
  BY <1>1, FilterSettled
<1>4. FilterType'
  BY <1>1, <1>2, <1>3 DEF FilterInv, FilterType
<1> QED BY <1>1, <1>4 DEF FilterInv, FilterPull, FilterHeld, FilterFused, FilterGathered,
                          Fusing, Gathering

LEMMA WalkEndsInv == ASSUME FilterInv, WalkEnds PROVE FilterInv'
<1>1. /\ f_pc = "pull" /\ pos = Len(ChunkPagesOf) /\ pos' = 0 /\ f_pc' = "mask"
      /\ request' = request
      /\ UNCHANGED <<has_dict, f_dict, pages, bitmap, rows_passed, values>>
  BY DEF WalkEnds, pulled, outputs
<1>2. Rows = FRead[pos].out
  BY <1>1, PullFacts
<1>3. RowsDecode => Spelled(Rows, pages, f_dict)
  BY <1>1, <1>2 DEF FilterInv, FilterPull
<1>4. FChunk' = FChunk /\ Rows' = Rows /\ RowsDecode' = RowsDecode
  BY <1>1, FilterSettled
<1>5. FilterType'
  BY <1>1, <1>4 DEF FilterInv, FilterType
<1>6. FilterHeld'
  BY <1>1, <1>3, <1>4 DEF FilterHeld, Spelled, RowCount, Starts
<1> QED BY <1>1, <1>5, <1>6 DEF FilterInv, FilterPull, FilterFused, FilterGathered,
                                Fusing, Gathering

-----------------------------------------------------------------------------
(* Filtering the collected pages.                                          *)

(* What a later step of the call does not move.                            *)
LEMMA PagesSettled ==
  ASSUME request' = request, pages' = pages, f_dict' = f_dict
  PROVE  /\ FChunk' = FChunk /\ Rows' = Rows /\ RowsDecode' = RowsDecode
         /\ BitsBefore' = BitsBefore
         /\ \A k : PassingUpTo(k)' = PassingUpTo(k)
         /\ Spelled(Rows, pages, f_dict)' = Spelled(Rows, pages, f_dict)
<1>1. FChunk' = FChunk /\ Rows' = Rows /\ RowsDecode' = RowsDecode /\ Wanted' = Wanted
  BY FilterSettled
<1>2. BitsBefore' = BitsBefore
  BY DEF BitsBefore
<1>3. \A k : PassingUpTo(k)' = PassingUpTo(k)
  BY <1>1 DEF PassingUpTo
<1>4. Spelled(Rows, pages, f_dict)' = Spelled(Rows, pages, f_dict)
  BY <1>1 DEF Spelled, RowCount, Starts
<1> QED BY <1>1, <1>2, <1>3, <1>4

LEMMA RowsType == ASSUME FilterInv, f_pc # "idle" PROVE Rows \in Seq(Int)
<1>1. FChunk \in DictChunks
  BY DEF FilterInv, FilterType
<1> DEFINE ps == FChunk.pages
           total == FChunk.total
<1>2. IntPages(ps) /\ total \in Nat
  BY <1>1, DictChunk
<1>3. Rows = OneShot(ps, total).out
  BY DEF Rows, ChunkPagesOf, FChunk
<1>4. total \in Int
  BY <1>2
<1> HIDE DEF ps, total
<1>5. OneShot(ps, total) \in ReaderStates
  BY <1>2, <1>4, OneShotType
<1> QED BY <1>3, <1>5 DEF ReaderStates

Filtering == f_pc \in {"probe", "fused", "materialise", "done"}

(* The mask answers for every row of a page that decodes.                  *)
LEMMA MaskAnswers ==
  ASSUME FilterInv, Filtering, RowsDecode, NEW k \in 1..Len(pages)
  PROVE  \A i \in 1..Len(pages[k].vals) :
           mask[pages[k].vals[i] + 1] <=> PageRows(pages[k], f_dict)[i] \in request.predicate
<1> DEFINE p == pages[k]
<1>1. pages \in Seq(CodedPages) /\ f_dict \in Seq(Int)
  BY DEF FilterInv, FilterType
<1>2. p.kind = "coded" /\ p.vals \in Seq(Int)
  BY <1>1, PageLens
<1>3. Decodable(p, f_dict)
  BY DEF FilterInv, FilterHeld, Filtering, Spelled
<1>4. \A v \in 1..Len(f_dict) : mask[v] <=> f_dict[v] \in request.predicate
  BY DEF FilterInv, FilterHeld, Filtering
<1> HIDE DEF p
<1>5. \A i \in 1..Len(p.vals) : p.vals[i] \in 0..(Len(f_dict) - 1)
  BY <1>2, <1>3 DEF Decodable
<1>6. \A i \in 1..Len(p.vals) : PageRows(p, f_dict)[i] = f_dict[p.vals[i] + 1]
  BY <1>2 DEF PageRows
<1>7. ASSUME NEW i \in 1..Len(p.vals) PROVE p.vals[i] + 1 \in 1..Len(f_dict)
  <2>1. p.vals[i] \in 0..(Len(f_dict) - 1) /\ Len(f_dict) \in Nat
    BY <1>1, <1>5
  <2> QED BY <2>1
<1>8. \A i \in 1..Len(p.vals) : mask[p.vals[i] + 1] <=> PageRows(p, f_dict)[i] \in request.predicate
  BY <1>4, <1>6, <1>7
<1> QED BY <1>8 DEF p

(* The passing rows of a page come behind those of the pages before it.    *)
LEMMA PassingStep ==
  ASSUME FilterInv, Filtering, RowsDecode, NEW k \in 1..Len(pages)
  PROVE  LET more == Selected(PageRows(pages[k], f_dict), PassingRows(pages[k]))
         IN  /\ PassingUpTo(k) = PassingUpTo(k - 1) \o more
             /\ PassingUpTo(k - 1) \in Seq(Int) /\ more \in Seq(Int)
             /\ Len(more) = Passed(pages[k])
<1> DEFINE p == pages[k]
           s == Rows
           t == PageRows(p, f_dict)
           P == Wanted
           R == PassingRows(p)
           a == Starts(pages)[k - 1]
<1>1. pages \in Seq(CodedPages) /\ f_dict \in Seq(Int)
  BY DEF FilterInv, FilterType
<1>2. p.kind = "coded" /\ p.vals \in Seq(Int) /\ IsData(p) /\ k \in 0..Len(pages)
      /\ k - 1 \in 0..Len(pages) /\ Len(p.vals) \in Nat
  BY <1>1, PageLens
<1>3. /\ Decodable(p, f_dict) /\ Len(s) = RowCount(pages)
      /\ \A i \in 1..Len(p.vals) : s[a + i] = t[i]
  BY DEF FilterInv, FilterHeld, Filtering, Spelled
<1>4. t \in Seq(Int) /\ Len(t) = Len(p.vals)
  <2> HIDE DEF p
  <2> QED BY <1>1, <1>2, <1>3, PageRowsType
<1>5. /\ a \in Nat /\ Starts(pages)[k] = a + Len(p.vals)
      /\ Starts(pages)[k] <= RowCount(pages)
  BY <1>1, <1>2, StartsSteps
<1>6. s \in Seq(Int)
  BY RowsType DEF Filtering
<1>7. \A i \in 1..Len(p.vals) : i \in R <=> t[i] \in request.predicate
  BY MaskAnswers DEF PassingRows
<1>8. P = {i \in 1..Len(s) : s[i] \in request.predicate}
  BY DEF Wanted
<1>9. R \subseteq 1..Len(p.vals)
  BY DEF PassingRows
<1>10. Passed(p) = Cardinality(R)
  BY DEF Passed
<1>11. /\ PassingUpTo(k) = Picks(s, P)[a + Len(p.vals)]
       /\ PassingUpTo(k - 1) = Picks(s, P)[a]
  BY <1>5 DEF PassingUpTo
<1> HIDE DEF p, s, t, P, R, a
<1>12. a + Len(t) <= Len(s)
  BY <1>3, <1>4, <1>5
<1>13. ASSUME NEW i \in 1..Len(t) PROVE s[a + i] = t[i] /\ (a + i \in P <=> i \in R)
  <2>1. a + i \in 1..Len(s)
    BY <1>2, <1>4, <1>5, <1>6, <1>12
  <2> QED BY <1>3, <1>4, <1>7, <1>8, <2>1
<1>14. Stretch(s, t, P, R, a)
  BY <1>12, <1>13 DEF Stretch
<1>15. Picks(s, P)[a + Len(t)] = Picks(s, P)[a] \o Selected(t, R)
  <2>1. s \in Seq(Int) /\ t \in Seq(Int) /\ a \in Nat /\ Stretch(s, t, P, R, a)
    BY <1>4, <1>5, <1>6, <1>14
  <2> QED BY <2>1, PicksStretch
<1>16. Selected(t, R) \in Seq(Int)
  BY <1>4, SelectedType
<1>17. Picks(s, P)[a] \in Seq(Int)
  <2>1. a \in 0..Len(s)
    BY <1>2, <1>4, <1>5, <1>6, <1>12
  <2>2. s \in Seq(Int)
    BY <1>6
  <2>3. Picks(s, P) \in [0..Len(s) -> Seq(Int)]
    BY <2>2, PicksSteps
  <2> QED BY <2>1, <2>3
<1>18. Len(Selected(t, R)) = Passed(p)
  <2>1. {i \in 1..Len(t) : i \in R} = R
    BY <1>4, <1>9
  <2> QED BY <1>4, <1>10, <2>1, SelectedLen
<1> QED BY <1>4, <1>11, <1>15, <1>16, <1>17, <1>18 DEF t, R, p

LEMMA BuildMaskInv == ASSUME FilterInv, BuildMask PROVE FilterInv'
<1>1. /\ f_pc = "mask" /\ f_pc' = "probe" /\ request' = request /\ pos' = pos
      /\ UNCHANGED <<has_dict, f_dict, pages, bit_width, rows_passed, bitmap, values>>
      /\ bit_width \in 1..(MaxWidth + 1) /\ Len(f_dict) <= 2 ^ bit_width
      /\ mask' = [i \in 1..(2 ^ bit_width) |->
                    i <= Len(f_dict) /\ f_dict[i] \in request.predicate]
  BY DEF BuildMask, MaskBuilds, pulled
<1>2. /\ FChunk' = FChunk /\ Rows' = Rows /\ RowsDecode' = RowsDecode
      /\ BitsBefore' = BitsBefore
      /\ Spelled(Rows, pages, f_dict)' = Spelled(Rows, pages, f_dict)
      /\ \A k : PassingUpTo(k)' = PassingUpTo(k)
  BY <1>1, PagesSettled
<1>3. /\ pages \in Seq(CodedPages) /\ f_dict \in Seq(Int) /\ pos = 0
      /\ bitmap = << >> /\ rows_passed = 0 /\ values = << >>
  BY <1>1 DEF FilterInv, FilterType
<1>4. \A v \in 1..Len(f_dict) : mask'[v] <=> f_dict[v] \in request.predicate
  <2>1. 2 ^ bit_width \in Int
    BY <1>1 DEF MaxWidth
  <2>2. Len(f_dict) \in Nat
    BY <1>3
  <2> DEFINE n == Len(f_dict)
             m == 2 ^ bit_width
  <2> HIDE DEF n, m
  <2>3. \A v \in 1..n : v \in 1..m /\ v <= n
    BY <1>1, <2>1, <2>2 DEF n, m
  <2> QED BY <1>1, <2>3 DEF n, m
<1>5. Len(pages) \in Nat /\ Starts(pages)[0] = 0 /\ BitsOf(pages)[0] = 0
  BY <1>3, PageLens, StartsSteps, BitsSteps
<1>6. RowsDecode => PassingUpTo(0) = << >>
  <2>1. Rows \in Seq(Int)
    BY <1>1, RowsType
  <2> QED BY <1>5, <2>1, PicksSteps DEF PassingUpTo
<1>7. BitsBefore[0] = 0
  BY <1>5 DEF BitsBefore, BitsOf
<1>8. FilterType'
  BY <1>1, <1>2, <1>3, <1>5 DEF FilterInv, FilterType
<1>9. FilterHeld'
  BY <1>1, <1>2, <1>4 DEF FilterInv, FilterHeld
<1>10. FilterFused'
  <2>1. Reached' = 0
    BY <1>1, <1>3 DEF Reached
  <2>2. \A k : k \notin 1..0
    OBVIOUS
  <2>3. Len(<< >>) = 0
    OBVIOUS
  <2>4. PassingUpTo(Reached)' = PassingUpTo(0)
    BY <1>1, <1>2, <2>1 DEF PassingUpTo
  <2> QED BY <1>1, <1>2, <1>3, <1>6, <1>7, <2>1, <2>2, <2>3, <2>4 DEF FilterFused
<1> QED BY <1>1, <1>8, <1>9, <1>10 DEF FilterInv, FilterPull, FilterGathered, Gathering

LEMMA EmptyChunkInv == ASSUME FilterInv, EmptyChunk PROVE FilterInv'
<1>1. /\ f_pc = "probe" /\ RowCount(pages) = 0 /\ dispatch' = "Fused" /\ f_pc' = "done"
      /\ request' = request /\ pos' = pos /\ mask' = mask
      /\ UNCHANGED <<has_dict, f_dict, pages, rows_passed, bitmap, values>>
  BY DEF EmptyChunk, pulled
<1>2. /\ FChunk' = FChunk /\ Rows' = Rows /\ RowsDecode' = RowsDecode
      /\ BitsBefore' = BitsBefore
      /\ Spelled(Rows, pages, f_dict)' = Spelled(Rows, pages, f_dict)
      /\ \A k : PassingUpTo(k)' = PassingUpTo(k)
  BY <1>1, PagesSettled
<1>3. pages \in Seq(CodedPages) /\ pos \in 0..Len(pages) /\ Len(pages) \in Nat
  BY <1>1, PageLens DEF FilterInv, FilterType
<1> DEFINE n == Len(pages)
<1>4. /\ \A k \in 1..n : Len(pages[k].vals) = 0
      /\ \A k \in 0..n : Starts(pages)[k] = 0 /\ BitsBefore[k] = 0
  BY <1>1, <1>3, NoRowsNoBits DEF BitsBefore, BitsOf
<1>5. n \in 0..n /\ pos \in 0..n
  BY <1>3
<1>6. PassingUpTo(n) = PassingUpTo(pos)
  BY <1>4, <1>5 DEF PassingUpTo
<1>7. Len(bitmap) = BitsBefore[pos] /\ (RowsDecode => rows_passed = Len(PassingUpTo(pos)))
  BY <1>1 DEF FilterInv, FilterFused, Fusing, Reached
<1>8. FilterType'
  BY <1>1, <1>2, <1>3 DEF FilterInv, FilterType
<1>9. FilterHeld'
  BY <1>1, <1>2 DEF FilterInv, FilterHeld
<1>10. FilterFused'
  <2>1. Reached' = n
    BY <1>1 DEF Reached
  <2>2. PassingUpTo(Reached)' = PassingUpTo(n)
    BY <1>1, <1>2, <2>1 DEF PassingUpTo
  <2>3. Len(bitmap) = BitsBefore[n]
    BY <1>4, <1>5, <1>7
  <2>4. RowsDecode => rows_passed = Len(PassingUpTo(n))
    BY <1>6, <1>7
  <2>5. \A k \in 1..n : \A i \in 1..Len(pages[k].vals) : FALSE
    BY <1>4
  <2> QED BY <1>1, <1>2, <2>1, <2>2, <2>3, <2>4, <2>5 DEF FilterFused
<1> QED BY <1>1, <1>8, <1>9, <1>10 DEF FilterInv, FilterPull, FilterGathered, Gathering

(* The bits of one more page.                                              *)
LEMMA BitmapStep ==
  ASSUME FilterInv, Filtering, pos < Len(pages), NEW bits, bits = PageBits(pages[pos + 1]),
         Len(bitmap) = BitsBefore[pos],
         RowsDecode => \A k \in 1..pos : \A i \in 1..Len(pages[k].vals) :
                         bitmap[BitsBefore[k - 1] + i]
                           <=> PageRows(pages[k], f_dict)[i] \in request.predicate
  PROVE  /\ bitmap \o bits \in Seq(BOOLEAN)
         /\ Len(bitmap \o bits) = BitsBefore[pos + 1]
         /\ RowsDecode => \A k \in 1..(pos + 1) : \A i \in 1..Len(pages[k].vals) :
                            (bitmap \o bits)[BitsBefore[k - 1] + i]
                              <=> PageRows(pages[k], f_dict)[i] \in request.predicate
<1> DEFINE j == pos + 1
           bo == BitsBefore
           p == pages[j]
           l == Len(p.vals)
           size == CeilBytes(l) * Byte
           all == bitmap \o bits
<1>1. pages \in Seq(CodedPages) /\ pos \in 0..Len(pages) /\ Len(pages) \in Nat
      /\ bitmap \in Seq(BOOLEAN)
  BY PageLens DEF FilterInv, FilterType, Filtering
<1>2. j \in 1..Len(pages) /\ j - 1 = pos /\ pos \in Nat
  BY <1>1
<1>3. /\ bo \in [0..Len(pages) -> Nat]
      /\ \A k \in 1..Len(pages) : bo[k - 1] + Len(pages[k].vals) <= bo[k]
      /\ \A a \in 0..Len(pages) : \A b \in a..Len(pages) : bo[a] <= bo[b]
      /\ \A k \in 1..Len(pages) : bo[k] = bo[k - 1] + CeilBytes(Len(pages[k].vals)) * Byte
  BY <1>1, BitsSteps DEF BitsBefore, BitsOf
<1>4. l \in Nat
  BY <1>1, <1>2, PageLens
<1>5. size \in Nat /\ l <= size
  BY <1>4, CeilFills
<1>6. bits = [i \in 1..size |-> i <= l /\ mask[p.vals[i] + 1]]
  BY DEF PageBits
<1>7. bo[j] = bo[pos] + size
  BY <1>2, <1>3
<1>8. ASSUME RowsDecode, NEW i \in 1..l
      PROVE  mask[p.vals[i] + 1] <=> PageRows(p, f_dict)[i] \in request.predicate
  BY <1>2, <1>8, MaskAnswers
<1> HIDE DEF j, bo, p, l, size
<1>9. bits \in Seq(BOOLEAN) /\ Len(bits) = size
  <2>1. bits \in [1..size -> BOOLEAN]
    BY <1>6
  <2> QED BY <1>5, <2>1
<1>10. /\ all \in Seq(BOOLEAN) /\ Len(all) = Len(bitmap) + size
       /\ \A i \in 1..Len(bitmap) : all[i] = bitmap[i]
       /\ \A i \in 1..size : all[Len(bitmap) + i] = bits[i]
  <2>1. bitmap \in Seq(BOOLEAN) /\ bits \in Seq(BOOLEAN) /\ Len(bits) = size
    BY <1>1, <1>9
  <2>2. all \in Seq(BOOLEAN)
    BY <2>1
  <2>3. Len(all) = Len(bitmap) + Len(bits)
    <3>1. bitmap \in Seq(BOOLEAN) /\ bits \in Seq(BOOLEAN)
      BY <2>1
    <3> DEFINE S == BOOLEAN
               bm == bitmap
    <3>2. bm \in Seq(S) /\ bits \in Seq(S)
      BY <3>1
    <3> HIDE DEF S, bm
    <3>3. Len(bm \o bits) = Len(bm) + Len(bits)
      BY <3>2, ConcatProperties
    <3> QED BY <3>3 DEF bm
  <2>4. \A i \in 1..Len(bitmap) : all[i] = bitmap[i]
    BY <2>1
  <2>5. \A i \in 1..Len(bits) : all[Len(bitmap) + i] = bits[i]
    BY <2>1
  <2> QED BY <2>1, <2>2, <2>3, <2>4, <2>5
<1> HIDE DEF all
<1>11. Len(bitmap) = bo[pos]
  BY DEF bo
<1>12. ASSUME RowsDecode, NEW k \in 1..j, NEW i \in 1..Len(pages[k].vals)
       PROVE  all[bo[k - 1] + i] <=> PageRows(pages[k], f_dict)[i] \in request.predicate
  <2>1. CASE k = j
    <3>1. k - 1 = pos /\ pages[k] = p /\ i \in 1..l /\ i \in 1..size /\ i <= l
      BY <1>2, <1>4, <1>5, <2>1 DEF p, l
    <3>2. all[bo[k - 1] + i] = bits[i]
      BY <1>10, <1>11, <3>1
    <3>3. bits[i] <=> mask[p.vals[i] + 1]
      BY <1>6, <3>1
    <3>4. mask[p.vals[i] + 1] <=> PageRows(p, f_dict)[i] \in request.predicate
      BY <1>8, <1>12, <3>1
    <3> QED BY <3>1, <3>2, <3>3, <3>4
  <2>2. CASE k # j
    <3>1. k \in 1..pos /\ k \in 1..Len(pages) /\ k \in 0..Len(pages) /\ pos \in k..Len(pages)
          /\ k - 1 \in 0..Len(pages) /\ pos \in 0..Len(pages)
      BY <1>1, <1>2, <2>2
    <3>2. bo[k - 1] + Len(pages[k].vals) <= bo[k] /\ bo[k] <= bo[pos] /\ bo[k - 1] \in Nat
          /\ bo[k] \in Nat /\ bo[pos] \in Nat
      BY <1>3, <3>1
    <3>3. Len(pages[k].vals) \in Nat
      BY <1>1, <3>1, PageLens
    <3>4. bo[k - 1] + i \in 1..Len(bitmap)
      <4> DEFINE a == bo[k - 1]
                 b == bo[k]
                 c == bo[pos]
                 v == Len(pages[k].vals)
      <4>1. a \in Nat /\ b \in Nat /\ c \in Nat /\ v \in Nat /\ a + v <= b /\ b <= c
            /\ i \in 1..v /\ Len(bitmap) = c
        BY <1>11, <3>2, <3>3
      <4> HIDE DEF a, b, c, v
      <4>2. a + i \in 1..Len(bitmap)
        BY <4>1
      <4> QED BY <4>2 DEF a
    <3>5. bitmap[bo[k - 1] + i] <=> PageRows(pages[k], f_dict)[i] \in request.predicate
      BY <1>12, <3>1 DEF bo
    <3> QED BY <1>10, <3>4, <3>5
  <2> QED BY <2>1, <2>2
<1>13. Len(all) = bo[j]
  BY <1>7, <1>10, <1>11
<1> QED BY <1>10, <1>12, <1>13 DEF all, bo, j

LEMMA FusedStepInv ==
  ASSUME FilterInv, ProbePage \/ FusedPage PROVE FilterInv'
<1> DEFINE p == pages[pos + 1]
           j == pos + 1
<1>1. /\ f_pc \in {"probe", "fused"} /\ f_pc' = f_pc /\ request' = request /\ mask' = mask
      /\ bitmap' = bitmap \o PageBits(p) /\ rows_passed' = rows_passed + Passed(p)
      /\ pos' = j
      /\ UNCHANGED <<has_dict, f_dict, pages, values, dispatch>>
  BY DEF ProbePage, FusedPage, RunFused, pulled
<1>2. /\ FChunk' = FChunk /\ Rows' = Rows /\ RowsDecode' = RowsDecode
      /\ BitsBefore' = BitsBefore
      /\ Spelled(Rows, pages, f_dict)' = Spelled(Rows, pages, f_dict)
      /\ \A k : PassingUpTo(k)' = PassingUpTo(k)
  BY <1>1, PagesSettled
<1>3. pages \in Seq(CodedPages) /\ pos \in 0..Len(pages) /\ Len(pages) \in Nat
      /\ rows_passed \in Nat /\ Filtering
  BY <1>1, PageLens DEF FilterInv, FilterType, Filtering
<1>4. pos < Len(pages)
  <2>1. ProbePage => pos < ProbeEnd
    BY DEF ProbePage
  <2>2. FusedPage => pos < Len(pages)
    BY DEF FusedPage
  <2>3. ProbeEnd = Len(pages) \/ (ProbeEnd = request.options.probe_pages /\ ProbeEnd < Len(pages))
    BY DEF ProbeEnd
  <2>4. ASSUME ProbePage, ProbeEnd = request.options.probe_pages, ProbeEnd < Len(pages)
        PROVE  pos < Len(pages)
    <3>1. request.options \in Options
      BY <1>1 DEF FilterInv, FilterType
    <3>2. ProbeEnd \in Nat
      BY <2>4, <3>1, OptionsAssumption
    <3> QED BY <1>3, <2>1, <2>4, <3>2
  <2> QED BY <2>1, <2>2, <2>3, <2>4
<1>5. j \in 1..Len(pages) /\ j - 1 = pos /\ j \in 0..Len(pages)
  BY <1>3, <1>4
<1>6. /\ Len(bitmap) = BitsBefore[pos]
      /\ RowsDecode => /\ rows_passed = Len(PassingUpTo(pos))
                       /\ \A k \in 1..pos : \A i \in 1..Len(pages[k].vals) :
                            bitmap[BitsBefore[k - 1] + i]
                              <=> PageRows(pages[k], f_dict)[i] \in request.predicate
  BY <1>1 DEF FilterInv, FilterFused, Fusing, Reached
<1>7. /\ bitmap' \in Seq(BOOLEAN) /\ Len(bitmap') = BitsBefore[j]
      /\ RowsDecode => \A k \in 1..j : \A i \in 1..Len(pages[k].vals) :
                         bitmap'[BitsBefore[k - 1] + i]
                           <=> PageRows(pages[k], f_dict)[i] \in request.predicate
  BY <1>1, <1>3, <1>4, <1>6, BitmapStep
<1>8. Passed(p) \in Nat
  <2>1. Len(p.vals) \in Nat
    BY <1>3, <1>5, PageLens
  <2>2. IsFiniteSet(1..Len(p.vals)) /\ PassingRows(p) \subseteq 1..Len(p.vals)
    BY <2>1, FS_Interval DEF PassingRows
  <2>3. IsFiniteSet(PassingRows(p))
    BY <2>2, FS_Subset
  <2> QED BY <2>3, FS_CardinalityType DEF Passed
<1>9. RowsDecode => rows_passed' = Len(PassingUpTo(j))
  <2> SUFFICES ASSUME RowsDecode PROVE rows_passed' = Len(PassingUpTo(j))
    OBVIOUS
  <2> DEFINE front == PassingUpTo(pos)
             more == Selected(PageRows(p, f_dict), PassingRows(p))
  <2>1. /\ PassingUpTo(j) = front \o more /\ front \in Seq(Int) /\ more \in Seq(Int)
        /\ Len(more) = Passed(p)
    BY <1>3, <1>5, PassingStep
  <2>2. rows_passed' = Len(front) + Len(more)
    BY <1>1, <1>6, <2>1
  <2> HIDE DEF front, more
  <2>3. Len(front \o more) = Len(front) + Len(more)
    BY <2>1, ConcatProperties
  <2> QED BY <2>1, <2>2, <2>3
<1> HIDE DEF p, j
<1>10. rows_passed' \in Nat
  BY <1>1, <1>3, <1>8
<1>11. FilterType'
  BY <1>1, <1>2, <1>3, <1>5, <1>7, <1>10 DEF FilterInv, FilterType
<1>12. FilterHeld'
  BY <1>1, <1>2 DEF FilterInv, FilterHeld
<1>13. FilterFused'
  <2>1. Reached' = j
    BY <1>1 DEF Reached
  <2>2. PassingUpTo(Reached)' = PassingUpTo(j)
    BY <1>1, <1>2, <2>1 DEF PassingUpTo
  <2> QED BY <1>1, <1>2, <1>7, <1>9, <2>1, <2>2 DEF FilterFused
<1> QED BY <1>1, <1>11, <1>12, <1>13 DEF FilterInv, FilterPull, FilterGathered, Gathering

LEMMA CommitInv == ASSUME FilterInv, Commit PROVE FilterInv'
<1>1. /\ f_pc = "probe" /\ dispatch' = DispatchFor /\ request' = request /\ mask' = mask
      /\ f_pc' = IF DispatchFor = "Fused" THEN "fused" ELSE "materialise"
      /\ pos' = IF DispatchFor = "Fused" THEN pos ELSE 0
      /\ UNCHANGED <<has_dict, f_dict, pages, rows_passed, bitmap, values>>
  BY DEF Commit, CommitAt, pulled
<1>2. DispatchFor = "Fused" \/ DispatchFor = "Materialized"
  BY DEF DispatchFor
<1>3. /\ FChunk' = FChunk /\ Rows' = Rows /\ RowsDecode' = RowsDecode
      /\ BitsBefore' = BitsBefore
      /\ Spelled(Rows, pages, f_dict)' = Spelled(Rows, pages, f_dict)
      /\ \A k : PassingUpTo(k)' = PassingUpTo(k)
  BY <1>1, PagesSettled
<1>4. pages \in Seq(CodedPages) /\ pos \in 0..Len(pages) /\ Len(pages) \in Nat /\ values = << >>
  BY <1>1, PageLens DEF FilterInv, FilterType
<1>5. pos' \in 0..Len(pages)
  BY <1>1, <1>4
<1>6. FilterType'
  BY <1>1, <1>2, <1>3, <1>5 DEF FilterInv, FilterType
<1>7. FilterHeld'
  BY <1>1, <1>2, <1>3 DEF FilterInv, FilterHeld
<1>8. FilterFused'
  <2> SUFFICES ASSUME f_pc' = "fused" PROVE FilterFused'
    BY <1>1 DEF FilterFused, Fusing
  <2>1. Reached' = pos /\ Reached = pos
    BY <1>1 DEF Reached
  <2>2. PassingUpTo(Reached)' = PassingUpTo(pos)
    BY <1>1, <1>3, <2>1 DEF PassingUpTo
  <2> QED BY <1>1, <1>3, <2>1, <2>2 DEF FilterInv, FilterFused, Fusing
<1>9. FilterGathered'
  <2> SUFFICES ASSUME f_pc' = "materialise", RowsDecode PROVE values' = PassingUpTo(Reached)'
    BY <1>1, <1>3 DEF FilterGathered, Gathering
  <2>1. Reached' = 0
    BY <1>1 DEF Reached
  <2>2. PassingUpTo(Reached)' = PassingUpTo(0)
    BY <1>1, <1>3, <2>1 DEF PassingUpTo
  <2>3. Starts(pages)[0] = 0 /\ Rows \in Seq(Int)
    BY <1>1, <1>4, StartsSteps, RowsType
  <2>4. PassingUpTo(0) = << >>
    BY <2>3, PicksSteps DEF PassingUpTo
  <2> QED BY <1>1, <1>4, <2>2, <2>4
<1> QED BY <1>1, <1>6, <1>7, <1>8, <1>9 DEF FilterInv, FilterPull

LEMMA MaterialisePageInv == ASSUME FilterInv, MaterialisePage PROVE FilterInv'
<1> DEFINE p == pages[pos + 1]
           j == pos + 1
<1>1. /\ f_pc = "materialise" /\ f_pc' = f_pc /\ pos < Len(pages) /\ pos' = j
      /\ request' = request /\ mask' = mask
      /\ values' = values \o Selected(PageRows(p, f_dict), PassingRows(p))
      /\ UNCHANGED <<has_dict, f_dict, pages, rows_passed, bitmap, dispatch>>
  BY DEF MaterialisePage, pulled
<1>2. /\ FChunk' = FChunk /\ Rows' = Rows /\ RowsDecode' = RowsDecode
      /\ BitsBefore' = BitsBefore
      /\ Spelled(Rows, pages, f_dict)' = Spelled(Rows, pages, f_dict)
      /\ \A k : PassingUpTo(k)' = PassingUpTo(k)
  BY <1>1, PagesSettled
<1>3. pages \in Seq(CodedPages) /\ pos \in 0..Len(pages) /\ Len(pages) \in Nat /\ Filtering
  BY <1>1, PageLens DEF FilterInv, FilterType, Filtering
<1>4. j \in 1..Len(pages) /\ j - 1 = pos /\ j \in 0..Len(pages)
  BY <1>1, <1>3
<1>5. RowsDecode => values' = PassingUpTo(j)
  <2>1. RowsDecode => values = PassingUpTo(pos)
    BY <1>1 DEF FilterInv, FilterGathered, Gathering, Reached
  <2> QED BY <1>1, <1>3, <1>4, <2>1, PassingStep
<1> HIDE DEF p, j
<1>6. FilterType'
  BY <1>1, <1>2, <1>3, <1>4 DEF FilterInv, FilterType
<1>7. FilterHeld'
  BY <1>1, <1>2 DEF FilterInv, FilterHeld
<1>8. FilterGathered'
  <2>1. Reached' = j
    BY <1>1 DEF Reached
  <2>2. PassingUpTo(Reached)' = PassingUpTo(j)
    BY <1>1, <1>2, <2>1 DEF PassingUpTo
  <2> QED BY <1>2, <1>5, <2>2 DEF FilterGathered
<1> QED BY <1>1, <1>6, <1>7, <1>8 DEF FilterInv, FilterPull, FilterFused, Fusing

LEMMA ReturnInv == ASSUME FilterInv, Return PROVE FilterInv'
<1>1. /\ f_pc \in {"fused", "materialise"} /\ pos = Len(pages) /\ f_pc' = "done"
      /\ request' = request
      /\ UNCHANGED <<pos, has_dict, f_dict, pages, mask, rows_passed, bitmap, values, dispatch>>
  BY DEF Return, pulled, outputs
<1>2. /\ FChunk' = FChunk /\ Rows' = Rows /\ RowsDecode' = RowsDecode
      /\ BitsBefore' = BitsBefore
      /\ Spelled(Rows, pages, f_dict)' = Spelled(Rows, pages, f_dict)
      /\ \A k : PassingUpTo(k)' = PassingUpTo(k)
  BY <1>1, PagesSettled
<1>3. /\ f_pc = "fused" => dispatch = "Fused"
      /\ f_pc = "materialise" => dispatch = "Materialized"
  BY DEF FilterInv, FilterType
<1>4. Reached' = pos /\ Reached = pos
  BY <1>1 DEF Reached
<1>5. PassingUpTo(Reached)' = PassingUpTo(pos)
  BY <1>1, <1>2, <1>4 DEF PassingUpTo
<1>6. FilterType'
  BY <1>1, <1>2, <1>3 DEF FilterInv, FilterType
<1>7. FilterHeld'
  BY <1>1, <1>2 DEF FilterInv, FilterHeld
<1>8. FilterFused'
  BY <1>1, <1>2, <1>3, <1>4, <1>5 DEF FilterInv, FilterFused, Fusing
<1>9. FilterGathered'
  BY <1>1, <1>2, <1>3, <1>4, <1>5 DEF FilterInv, FilterGathered, Gathering
<1> QED BY <1>1, <1>6, <1>7, <1>8, <1>9 DEF FilterInv, FilterPull

-----------------------------------------------------------------------------
(* The invariant holds.                                                    *)

LEMMA InitFilter == LateInit => FilterInv
<1> SUFFICES ASSUME LateInit PROVE FilterInv
  OBVIOUS
<1>1. /\ f_pc = "idle" /\ pos = 0 /\ has_dict = FALSE /\ f_dict = << >> /\ pages = << >>
      /\ rows_passed = 0 /\ bitmap = << >> /\ values = << >>
  BY DEF LateInit, Idle
<1>2. << >> \in Seq(Int) /\ << >> \in Seq(CodedPages) /\ << >> \in Seq(BOOLEAN)
  OBVIOUS
<1>3. FilterType
  BY <1>1, <1>2 DEF FilterType
<1> QED BY <1>1, <1>3 DEF FilterInv, FilterPull, FilterHeld, FilterFused, FilterGathered,
                          Fusing, Gathering

(* A new call.                                                             *)
LEMMA CallInv == ASSUME FilterInv, Call PROVE FilterInv'
<1>1. PICK c \in DictChunks, p \in Predicates, o \in Options :
        request' = [chunk |-> c, predicate |-> p, options |-> o]
  BY DEF Call
<1>2. /\ f_pc = "idle" /\ f_pc' = "pull"
      /\ UNCHANGED <<pos, has_dict, f_dict, pages, rows_passed, bitmap, values, dispatch>>
  BY DEF Call, pulled
<1>3. /\ pos = 0 /\ has_dict = FALSE /\ f_dict = << >> /\ pages = << >>
  BY <1>2 DEF FilterInv, FilterType
<1>4. FChunk' = c /\ ChunkPagesOf' = c.pages /\ request'.options \in Options
  BY <1>1 DEF FChunk, ChunkPagesOf
<1>5. IntPages(c.pages) /\ c.total \in Nat /\ Len(c.pages) \in Nat
  BY DictChunk
<1>6. FRead'[0] = Opening
  <2> DEFINE ps == c.pages
             total == c.total
  <2>1. IntPages(ps) /\ total \in Int
    BY <1>5
  <2> HIDE DEF ps, total
  <2>2. After(ps, total)[0] = Opening
    BY <2>1, AfterPages
  <2> QED BY <1>4, <2>2 DEF FRead, ps, total
<1>7. FilterType'
  <2>1. pos' \in 0..Len(c.pages)
    BY <1>2, <1>3, <1>5
  <2> QED BY <1>2, <1>4, <2>1 DEF FilterInv, FilterType
<1>8. FilterPull'
  <2>1. ~\E j \in 1..0 : TRUE
    OBVIOUS
  <2>2. ~\E j \in 1..pos' : ChunkPagesOf'[j].kind = "dict"
    BY <1>2, <1>3, <2>1
  <2>3. FRead'[pos'] = Opening
    BY <1>2, <1>3, <1>6
  <2>4. Opening.out = << >> /\ Opening.dict = << >> /\ ~Opening.err /\ ~Opening.done
    BY DEF Opening
  <2>5. Spelled(<< >>, << >>, << >>)
    BY SpelledNone
  <2>6. Spelled(FRead[pos].out, pages, f_dict)' = Spelled(<< >>, << >>, << >>)
    BY <1>2, <1>3, <2>3, <2>4 DEF Spelled, RowCount, Starts
  <2> QED BY <1>2, <1>3, <2>2, <2>3, <2>4, <2>5, <2>6 DEF FilterPull
<1> QED BY <1>2, <1>7, <1>8 DEF FilterInv, FilterHeld, FilterFused, FilterGathered,
                                Fusing, Gathering

LEMMA NextFilter == FilterInv /\ [LateNext]_lateVars => FilterInv'
<1> SUFFICES ASSUME FilterInv, [LateNext]_lateVars PROVE FilterInv'
  OBVIOUS
<1>1. ASSUME filterVars' = filterVars PROVE FilterInv'
  <2>1. UNCHANGED <<request, f_pc, pos, has_dict, f_dict, pages, mask, rows_passed, bitmap,
                    values, dispatch>>
    BY <1>1 DEF filterVars
  <2>2. /\ ChunkPagesOf' = ChunkPagesOf /\ FChunk' = FChunk /\ FRead' = FRead
        /\ Rows' = Rows /\ RowsDecode' = RowsDecode
    BY <2>1, FilterSettled
  <2>3. /\ BitsBefore' = BitsBefore
        /\ Spelled(Rows, pages, f_dict)' = Spelled(Rows, pages, f_dict)
        /\ \A k : PassingUpTo(k)' = PassingUpTo(k)
    BY <2>1, PagesSettled
  <2>4. Reached' = Reached
    BY <2>1 DEF Reached
  <2>5. PassingUpTo(Reached)' = PassingUpTo(Reached)
    BY <2>1, <2>3, <2>4 DEF PassingUpTo, Rows, Wanted
  <2>6. Spelled(FRead[pos].out, pages, f_dict)' = Spelled(FRead[pos].out, pages, f_dict)
    BY <2>1, <2>2 DEF Spelled, RowCount, Starts
  <2>7. FilterType'
    BY <2>1, <2>2 DEF FilterInv, FilterType
  <2>8. FilterPull'
    BY <2>1, <2>2, <2>6 DEF FilterInv, FilterPull
  <2>9. FilterHeld'
    BY <2>1, <2>2, <2>3 DEF FilterInv, FilterHeld
  <2>10. FilterFused'
    BY <2>1, <2>2, <2>3, <2>4, <2>5 DEF FilterInv, FilterFused, Fusing
  <2>11. FilterGathered'
    BY <2>1, <2>2, <2>5 DEF FilterInv, FilterGathered, Gathering
  <2> QED BY <2>7, <2>8, <2>9, <2>10, <2>11 DEF FilterInv
<1>2. ASSUME Step PROVE FilterInv'
  BY <1>2, PullDictionaryInv, PullCodedInv, PullIndexPageInv, FailsInv, WalkEndsInv, BuildMaskInv,
     EmptyChunkInv, FusedStepInv, CommitInv, MaterialisePageInv, ReturnInv DEF Step
<1>3. ASSUME Call PROVE FilterInv'
  BY <1>3, CallInv
<1>4. filterVars' = filterVars \/ Step \/ Call
  BY DEF LateNext, FilterCall, FilterStep, GatherCall, CallerMaskCall, GatherStep, Returned,
         lateVars
<1> QED BY <1>1, <1>2, <1>3, <1>4

(* All the rows that pass.                                                 *)
LEMMA AllPassing ==
  ASSUME FilterInv, f_pc = "done", RowsDecode
  PROVE  PassingUpTo(Len(pages)) = Passing
<1>1. Rows \in Seq(Int) /\ Len(Rows) = RowCount(pages) /\ pages \in Seq(CodedPages)
  BY RowsType DEF FilterInv, FilterType, FilterHeld, Spelled
<1>2. Starts(pages)[Len(pages)] = RowCount(pages)
  BY <1>1, StartsSteps
<1>3. PassingUpTo(Len(pages)) = Selected(Rows, Wanted)
  BY <1>1, <1>2, SelectedPicks DEF PassingUpTo
<1> QED BY <1>3 DEF Passing, Wanted

(* run_adaptive_dict_chunk: whatever pages it probes and whichever output  *)
(* shape it commits to, the answer is the chunk's passing rows, or counts  *)
(* exactly them.                                                           *)
THEOREM AdaptiveIsFilter == LateSpec => []AnswerIsFilter
<1>1. ASSUME FilterInv PROVE AnswerIsFilter
  <2> SUFFICES ASSUME f_pc = "done", RowsDecode
               PROVE  \/ dispatch = "Materialized" /\ values = Passing
                      \/ dispatch = "Fused" /\ rows_passed = Len(Passing)
    BY DEF AnswerIsFilter
  <2>1. dispatch \in {"Fused", "Materialized"} /\ Reached = Len(pages)
    BY <1>1 DEF FilterInv, FilterType, Reached
  <2>2. PassingUpTo(Reached) = Passing
    BY <1>1, <2>1, AllPassing
  <2>3. dispatch = "Fused" => rows_passed = Len(Passing)
    BY <1>1, <2>2 DEF FilterInv, FilterFused, Fusing
  <2>4. dispatch = "Materialized" => values = Passing
    BY <1>1, <2>2 DEF FilterInv, FilterGathered, Gathering
  <2> QED BY <2>1, <2>3, <2>4
<1>2. QED
  BY <1>1, InitFilter, NextFilter, PTL DEF LateSpec

-----------------------------------------------------------------------------
(* The bitmap of one column as the row mask of another one.                *)

HandedOver ==
  f_pc # "idle" /\ m_pc # "idle" =>
    f_pc = "done" /\ dispatch = "Fused" /\ m_call.mask = bitmap

LEMMA InitHandedOver == LateInit => HandedOver
BY DEF LateInit, Idle, HandedOver

LEMMA NextHandedOver == HandedOver /\ [LateNext]_lateVars => HandedOver'
<1> SUFFICES ASSUME HandedOver, [LateNext]_lateVars PROVE HandedOver'
  OBVIOUS
<1>1. CASE UNCHANGED lateVars
  BY <1>1 DEF HandedOver, lateVars, filterVars, maskedVars
<1>2. CASE FilterCall
  BY <1>2 DEF FilterCall, maskedVars, HandedOver
<1>3. CASE FilterStep
  <2>1. f_pc # "idle" /\ f_pc # "done" /\ UNCHANGED maskedVars
    BY <1>3 DEF FilterStep, Step, PullDictionary, PullCoded, PullIndexPage, PullFails, WalkEnds,
                BuildMask, MaskFails, EmptyChunk, ProbePage, Commit, CommitAt, FusedPage,
                MaterialisePage, PageFails, Return, Pulling
  <2> QED BY <2>1 DEF HandedOver, maskedVars
<1>4. CASE GatherCall
  <2>1. PICK c \in MaskedChunks : CallMasked(c, bitmap)
    BY <1>4 DEF GatherCall
  <2>2. m_call'.mask = bitmap
    BY <2>1 DEF CallMasked
  <2> QED BY <1>4, <2>2 DEF GatherCall, filterVars, HandedOver
<1>5. CASE CallerMaskCall
  BY <1>5 DEF CallerMaskCall, filterVars, HandedOver
<1>6. CASE GatherStep
  <2>1. m_call' = m_call /\ m_pc # "idle" /\ UNCHANGED filterVars
    BY <1>6 DEF GatherStep, MaskedStep, MaskedDictionary, MaskedIndexPage, SkipPage, GatherPage,
                MaskedFails, MaskedEnds, AtPage
  <2> QED BY <2>1 DEF HandedOver, filterVars
<1>7. CASE Returned
  BY <1>7 DEF Returned, HandedOver, lateVars, filterVars, maskedVars
<1> QED BY <1>1, <1>2, <1>3, <1>4, <1>5, <1>6, <1>7 DEF LateNext

(* When every page but the last holds whole bytes, bit i is row i's.       *)
LEMMA RowBits ==
  ASSUME FilterInv, f_pc = "done", dispatch = "Fused", RowsDecode, PagesFillBytes
  PROVE  \A i \in 1..Len(Rows) : bitmap[i] <=> Rows[i] \in request.predicate
<1> DEFINE n == Len(pages)
           st == Starts(pages)
           bo == BitsBefore
           Good(i) == bitmap[i] <=> Rows[i] \in request.predicate
           D == {k \in 0..n : /\ k < n => bo[k] = st[k]
                              /\ \A i \in 1..st[k] : Good(i)}
<1>1. pages \in Seq(CodedPages) /\ n \in Nat
  BY PageLens DEF FilterInv, FilterType
<1>2. \A k \in 1..n : Len(pages[k].vals) \in Nat
  BY <1>1, PageLens
<1>3. /\ st \in [0..n -> Nat] /\ st[0] = 0
      /\ \A k \in 1..n : st[k] = st[k - 1] + Len(pages[k].vals)
      /\ st[n] = RowCount(pages)
  BY <1>1, StartsSteps
<1>4. /\ bo \in [0..n -> Nat] /\ bo[0] = 0
      /\ \A k \in 1..n : bo[k] = bo[k - 1] + CeilBytes(Len(pages[k].vals)) * Byte
  BY <1>1, BitsSteps DEF BitsBefore, BitsOf
<1>5. \A k \in 1..(n - 1) : CeilBytes(Len(pages[k].vals)) * Byte = Len(pages[k].vals)
  <2>1. ASSUME NEW k \in 1..(n - 1)
        PROVE  CeilBytes(Len(pages[k].vals)) * Byte = Len(pages[k].vals)
    <3>1. k \in 1..n
      BY <1>1
    <3>2. Len(pages[k].vals) \in Nat /\ Len(pages[k].vals) % Byte = 0
      BY <1>2, <3>1 DEF PagesFillBytes
    <3> QED BY <3>2, CeilFills
  <2> QED BY <2>1
<1>6. \A k \in 1..n : \A i \in 1..Len(pages[k].vals) :
        bitmap[bo[k - 1] + i] <=> PageRows(pages[k], f_dict)[i] \in request.predicate
  BY DEF FilterInv, FilterFused, Fusing, Reached
<1>7. /\ Len(Rows) = RowCount(pages)
      /\ \A k \in 1..n : \A i \in 1..Len(pages[k].vals) :
           Rows[st[k - 1] + i] = PageRows(pages[k], f_dict)[i]
  BY DEF FilterInv, FilterHeld, Spelled
<1> HIDE DEF n, st, bo
<1>8. 0 \in D
  BY <1>1, <1>3, <1>4
<1>9. ASSUME NEW k \in 0..(n - 1), k \in D PROVE k + 1 \in D
  <2> DEFINE j == k + 1
             l == Len(pages[j].vals)
  <2>1. j \in 1..n /\ j \in 0..n /\ k \in 0..n /\ k < n /\ j - 1 = k
    BY <1>1
  <2> HIDE DEF j
  <2>2. bo[k] = st[k] /\ \A i \in 1..st[k] : Good(i)
    BY <1>9, <2>1
  <2>3. l \in Nat /\ st[j] = st[k] + l /\ st[k] \in Nat
    BY <1>2, <1>3, <2>1
  <2>4. j < n => bo[j] = st[j]
    <3> SUFFICES ASSUME j < n PROVE bo[j] = st[j]
      OBVIOUS
    <3>1. j \in 1..(n - 1)
      BY <1>1, <2>1
    <3>2. CeilBytes(l) * Byte = l
      BY <1>5, <3>1
    <3> QED BY <1>4, <2>1, <2>2, <2>3, <3>2
  <2>5. \A i \in 1..l : Good(st[k] + i)
    BY <1>6, <1>7, <2>1, <2>2
  <2> HIDE DEF Good, l
  <2>6. ASSUME NEW i \in 1..st[j] PROVE Good(i)
    <3>1. CASE i <= st[k]
      BY <2>2, <2>3, <3>1
    <3>2. CASE i > st[k]
      <4> DEFINE q == i - st[k]
      <4>1. q \in 1..l /\ st[k] + q = i
        BY <2>3, <3>2
      <4> HIDE DEF q
      <4> QED BY <2>5, <4>1
    <3> QED BY <2>3, <3>1, <3>2
  <2> QED BY <2>1, <2>4, <2>6 DEF j
<1> HIDE DEF D
<1>10. \A k \in 0..n : k \in D
  BY <1>1, <1>8, <1>9, Climb
<1>11. n \in D
  BY <1>1, <1>10
<1>12. \A i \in 1..st[n] : Good(i)
  BY <1>11 DEF D
<1> QED BY <1>3, <1>7, <1>12

(* The fused answer's bitmap is what AdaptiveOutputKind::Bitmap says of it *)
(* for every chunk whose pages leave no gap between their bits.            *)
THEOREM RowwiseBitmap == LateSpec => []FilledBitmapIsRowwise
<1>1. ASSUME FilterInv PROVE FilledBitmapIsRowwise
  BY <1>1, RowBits DEF FilledBitmapIsRowwise, BitmapIsRowwise
<1>2. QED
  BY <1>1, InitFilter, NextFilter, PTL DEF LateSpec

(* Late materialisation: the rows gathered from one column are those whose *)
(* row of the filtered column passes, across different page boundaries.    *)
THEOREM GatherSelectsSame == LateSpec => []SelectsSameRows
<1>1. ASSUME FilterInv, MaskedInv, HandedOver, MaskedIsFilter PROVE SelectsSameRows
  <2> DEFINE other == OneShot(Blanked, m_call.chunk.total).out
             P == {i \in 1..Len(Rows) : Rows[i] \in request.predicate}
             Q == {i \in 1..Len(other) : m_call.mask[i]}
  <2> SUFFICES ASSUME f_pc = "done", m_pc = "done", RowsDecode, PagesFillBytes,
                      Len(other) = Len(Rows)
               PROVE  out = Selected(other, P)
    BY DEF SelectsSameRows
  <2>1. dispatch = "Fused" /\ m_call.mask = bitmap
    BY <1>1 DEF HandedOver
  <2>2. out = Selected(other, Q)
    BY <1>1 DEF MaskedIsFilter, MaskedRows
  <2>3. \A i \in 1..Len(Rows) : bitmap[i] <=> Rows[i] \in request.predicate
    BY <1>1, <2>1, RowBits
  <2>4. \A i \in 1..Len(other) : i \in Q <=> i \in P
    BY <2>1, <2>3
  <2>5. other \in Seq(Int)
    <3>1. m_call.chunk \in MaskedChunks
      BY <1>1 DEF MaskedInv, MaskedType
    <3> DEFINE bs == Blanked
               total == m_call.chunk.total
    <3>2. IntPages(bs) /\ total \in Int
      BY <3>1, BlankedPages, MaskedChunk
    <3> HIDE DEF bs, total
    <3>3. OneShot(bs, total) \in ReaderStates
      BY <3>2, OneShotType
    <3> QED BY <3>3 DEF bs, total, ReaderStates
  <2> HIDE DEF other, P, Q
  <2>6. Selected(other, Q) = Selected(other, P)
    BY <2>4, <2>5, SelectedSame
  <2> QED BY <2>2, <2>6
<1>2. ASSUME MaskedInv PROVE MaskedIsFilter
  BY <1>2, MaskedInvFilters
<1>3. QED
  BY <1>1, <1>2, InitFilter, NextFilter, InitMasked, NextMasked, InitHandedOver, NextHandedOver,
     PTL DEF LateSpec
=============================================================================
