-------------------------- MODULE MCLateMaterialise --------------------------
(***************************************************************************)
(* Two-row bytes.  The filtered column: chunks of a dictionary and up to   *)
(* three coded pages of up to three rows, and the chunks its reader has to *)
(* refuse.  The gathered column: other page boundaries over three and four *)
(* rows, pages that cannot be read among them.                             *)
(***************************************************************************)
EXTENDS LateMaterialise

Wide(kind, vals, width) == [kind |-> kind, vals |-> vals, width |-> width]
Narrow(kind, vals) == [kind |-> kind, vals |-> vals]

Coded(vals) == Wide("coded", vals, 1)
Entries == Wide("dict", <<5, 6>>, 0)

Chunk(ps) ==
  LET coded == SelectSeq(ps, LAMBDA p : p.kind \in {"coded", "plain"})
  IN [pages |-> ps, total |-> RowCount(coded)]

ShortPages == {Coded(<< >>), Coded(<<1>>), Coded(<<0, 1>>), Coded(<<1, 1>>), Coded(<<1, 0, 0>>)}

WellFormed ==
  {Chunk(<<Entries, p>>) : p \in ShortPages}
  \cup {Chunk(<<Entries, p, q>>) : p, q \in ShortPages}
  \cup {Chunk(<<Entries, Coded(<<0, 0>>), p, q>>) : p, q \in ShortPages}

Refused ==
  {Chunk(<< >>), Chunk(<<Coded(<<0, 1>>)>>),
   Chunk(<<Entries, Coded(<<0>>), Wide("plain", <<5, 5>>, 0)>>),
   Chunk(<<Entries, Wide("bad", << >>, 0), Coded(<<1, 0>>)>>),
   \* an index the dictionary does not reach, and a page wider than the mask
   Chunk(<<Wide("dict", <<5, 6, 7>>, 0), Wide("coded", <<3, 1, 2>>, 2)>>),
   Chunk(<<Entries, Coded(<<0, 0>>), Wide("coded", <<1>>, 2)>>),
   Chunk(<<Entries, Coded(<<0, 1>>), Coded(<<1>>), Wide("coded", <<2>>, 2)>>),
   \* a narrow page first, and a dictionary of one entry
   Chunk(<<Wide("dict", <<5, 6, 7>>, 0), Coded(<<1, 0>>), Wide("coded", <<2>>, 2)>>),
   Chunk(<<Wide("dict", <<5>>, 0), Wide("coded", <<0, 0>>, 0)>>)}

WithIndexPage ==
  {Chunk(<<Entries, Wide("index", << >>, 0), Coded(<<0, 1>>), Coded(<<0, 0>>)>>),
   [pages |-> <<Entries, Coded(<<1, 1>>)>>, total |-> 4]}

AllDictChunks == WellFormed \cup Refused \cup WithIndexPage

AllOptions ==
  [threshold : {<<0, 1>>, <<1, 2>>, <<1, 1>>}, probe_pages : 0..2]

AllPredicates == {{}, {5}, {6}, {5, 6}}

NarrowChunk(ps, rows) == [pages |-> ps, total |-> rows]
Dictionary == Narrow("dict", <<1, 2>>)

AllMaskedChunks ==
  {NarrowChunk(<<Narrow("plain", <<1, 2, 3>>)>>, 3),
   NarrowChunk(<<Narrow("plain", <<1>>), Narrow("plain", <<2, 3, 4>>)>>, 4),
   NarrowChunk(<<Dictionary, Narrow("coded", <<0, 1, 1>>), Narrow("plain", <<4>>)>>, 4),
   NarrowChunk(<<Dictionary, Narrow("coded", <<1>>), Narrow("index", << >>),
                 Narrow("coded", <<7, 7>>), Narrow("coded", <<0>>)>>, 4),
   NarrowChunk(<<Dictionary, Narrow("coded", <<0, 1>>), Narrow("bad", << >>),
                 Narrow("plain", <<3, 4>>)>>, 4),
   NarrowChunk(<<Narrow("coded", <<0, 1>>), Narrow("plain", <<3>>)>>, 3),
   NarrowChunk(<<Narrow("plain", <<1, 2>>)>>, 4)}

Masks(n) == [1..n -> BOOLEAN]
AllCallerMasks == Masks(2) \cup Masks(4)
=============================================================================
