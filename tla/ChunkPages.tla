------------------------------ MODULE ChunkPages ------------------------------
(***************************************************************************)
(* A column chunk as its readers see it: a sequence of pages, walked by    *)
(* PageWalker.  Values are small integers.  A page carries what its kind   *)
(* holds: the entries of a dictionary page, the values of a PLAIN page,    *)
(* the (0-based) indices of an RLE_DICTIONARY page.  "bad" stands for      *)
(* every page on which the code takes an error return: a header that does  *)
(* not parse, a body that does not decompress, an encoding that is not     *)
(* dispatched.                                                             *)
(***************************************************************************)
EXTENDS Integers, Sequences

PageKinds == {"dict", "index", "plain", "coded", "bad"}
Page == [kind : PageKinds, vals : Seq(Int)]

(* Decoding one page.                                                      *)

(* A dict-encoded page needs a non-empty dictionary and indices inside it. *)
Decodable(page, d) ==
  CASE page.kind = "plain" -> TRUE
    [] page.kind = "coded" ->
         /\ d # << >>
         /\ \A i \in 1..Len(page.vals) : page.vals[i] \in 0..(Len(d) - 1)
    [] OTHER -> FALSE

PageRows(page, d) ==
  IF page.kind = "plain" THEN page.vals
  ELSE [i \in 1..Len(page.vals) |-> d[page.vals[i] + 1]]

IsData(page) == page.kind \in {"plain", "coded"}

(* decode_chunk_into, the one-shot reader of the same chunk.  It stops once *)
(* `total' rows are out, or at the first page that cannot be decoded.      *)
Opening == [out |-> << >>, dict |-> << >>, err |-> FALSE, done |-> FALSE]

ReadPage(s, p, total) ==
  LET ok  == IsData(p) => Decodable(p, s.dict)
      out == IF IsData(p) /\ ok THEN s.out \o PageRows(p, s.dict) ELSE s.out
  IN  IF s.err \/ s.done THEN s
      ELSE [out  |-> out,
            dict |-> IF p.kind = "dict" THEN p.vals ELSE s.dict,
            err  |-> p.kind = "bad" \/ ~ok,
            done |-> Len(out) >= total]

(* The reader after each page.                                             *)
After(pages, total) ==
  LET after[k \in 0..Len(pages)] ==
        IF k = 0 THEN Opening ELSE ReadPage(after[k - 1], pages[k], total)
  IN  after

OneShot(pages, total) == After(pages, total)[Len(pages)]

(* The sum of the first k numbers of s, for every k.                       *)
RunningSum(s) ==
  LET sum[k \in 0..Len(s)] == IF k = 0 THEN 0 ELSE sum[k - 1] + s[k]
  IN  sum

(* The rows of s at the positions in P, pushed one after the other.        *)
Selected(s, P) ==
  LET upTo[i \in 0..Len(s)] ==
        IF i = 0 THEN << >>
        ELSE IF i \in P THEN Append(upTo[i - 1], s[i]) ELSE upTo[i - 1]
  IN  upTo[Len(s)]
=============================================================================
