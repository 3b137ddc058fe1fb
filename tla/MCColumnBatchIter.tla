------------------------- MODULE MCColumnBatchIter -------------------------
(* Instances of ColumnBatchIter for TLC: every chunk of up to three pages   *)
(* drawn from the templates, with a num_values in the footer that is right, *)
(* or one short of or one beyond what the pages hold.                       *)
EXTENDS ColumnBatchIter

P(kind, vals) == [kind |-> kind, vals |-> vals]

PageTemplates ==
  { P("dict", <<10, 11>>), P("dict", <<20>>), P("index", << >>), P("bad", << >>),
    P("plain", <<1, 2, 3>>), P("plain", <<4, 5>>),
    P("coded", <<0, 1, 0>>), P("coded", <<0>>) }

DataRows(pages) ==
  LET n[k \in 0..Len(pages)] ==
        IF k = 0 THEN 0
        ELSE n[k - 1] + IF IsData(pages[k]) THEN Len(pages[k].vals) ELSE 0
  IN n[Len(pages)]

PageSeqs == UNION {[1..n -> PageTemplates] : n \in 1..3}

(* Longer runs of equal pages, against which a batch size never settles.   *)
LongRuns == {[i \in 1..4 |-> P("plain", <<1, 2, 3>>)]}

(* A chunk with a page that does not decode has rows: the footer of an      *)
(* empty chunk is not combined with a page that is not one.                 *)
Totals(pages) ==
  LET n == DataRows(pages)
  IN IF n = 0 THEN {IF \E i \in 1..Len(pages) : pages[i].kind = "bad" THEN 1 ELSE 0}
     ELSE {n} \cup (IF n > 1 THEN {n - 1, n + 1} ELSE {})

MCChunks ==
  UNION {{[pages |-> ps, total |-> t] : t \in Totals(ps)} : ps \in PageSeqs \cup LongRuns}

(* The hypothesis of the refinement theorem.                               *)
ASSUME EmptyChunks == EmptyIsEmpty
=============================================================================
