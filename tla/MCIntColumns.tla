----------------------------- MODULE MCIntColumns -----------------------------
(***************************************************************************)
(* Integers of 1, 3, 5, 7 and 9 bits stand for 8 to 128: every boundary of *)
(* the code's widths is in Edges.                                          *)
(***************************************************************************)
EXTENDS IntColumns, SequencesExt

MCBits == [b \in Sizes |-> CASE b = 1 -> 1 [] b = 2 -> 3 [] b = 4 -> 5 [] b = 8 -> 7 [] OTHER -> 9]
MCHalf == [b \in Sizes |-> CASE b = 1 -> 1 [] b = 2 -> 4 [] b = 4 -> 16 [] b = 8 -> 64 [] OTHER -> 256]

Edges == {-64, -17, -16, -5, -4, -1, 0, 1, 3, 4, 7, 8, 15, 16, 31, 32, 63}

UpTo(S, n) == UNION {[1..k -> S] : k \in 0..n}
P(kind, vals) == [kind |-> kind, vals |-> vals]

NoIndex == [null_pages |-> << >>, min_values |-> << >>, max_values |-> << >>]
NoStats == [min_value |-> << >>, max_value |-> << >>, min |-> << >>, max |-> << >>]

Ask(kind, pages, total) ==
  [kind |-> kind, pages |-> pages, total |-> total, unsigned |-> FALSE, stats |-> NoStats,
   min |-> 0, max |-> 0, indexed |-> FALSE, index |-> NoIndex, lo |-> 0, hi |-> 0]

-----------------------------------------------------------------------------
(* Chunks of two or three rows with the bounds a and b: PLAIN; with a      *)
(* dictionary that has an entry of no row, whatever it is; one that the    *)
(* writer gave up on; one behind an index page; one with a bad page.       *)
Chunks(a, b) ==
  {<<P("plain", <<b, a>>)>>,
   <<P("plain", <<a>>), P("bad", << >>)>>,
   <<P("index", << >>), P("plain", <<a, b>>), P("plain", <<b>>)>>,
   <<P("dict", <<b, a>>), P("coded", <<1, 0>>), P("plain", <<a>>)>>}
  \cup {<<P("dict", <<a, b, x>>), P("coded", <<1>>), P("coded", <<0, 1>>)>> : x \in {-64, 32}}

(* Statistics of this library's writer, of older ones, of foreign ones.    *)
StatsOf(a, b, unsigned) ==
  LET own == compute_stats(<<a, b>>, unsigned)
  IN  {own, NoStats,
       [own EXCEPT !.min = << >>, !.max = << >>],
       [own EXCEPT !.min_value = <<0, 0>>, !.max_value = <<0, 0>>],
       [NoStats EXCEPT !.min = <<a>>, !.max = <<b>>],
       [NoStats EXCEPT !.min = <<a>>]}

Pairs == {p \in Edges \X Edges : p[1] <= p[2]}

Downcasts ==
  UNION {{[Ask("downcast", c, 3) EXCEPT !.stats = s, !.unsigned = u] :
            c \in Chunks(p[1], p[2]), s \in StatsOf(p[1], p[2], u)} :
         p \in Pairs, u \in BOOLEAN}

Given ==
  {[Ask(k, <<P("plain", <<p[2], p[1]>>)>>, 2) EXCEPT !.min = p[1], !.max = p[2]] :
     k \in {"auto", "frame"}, p \in Pairs}

-----------------------------------------------------------------------------
(* Ranges over up to three data pages, of which any may hold only nulls,   *)
(* with or without a dictionary; the index has all pages, all but the      *)
(* last, a bound too few, or a bound of another form.                      *)
DataPages == {P("plain", << >>), P("plain", <<-1>>), P("plain", <<3, 1>>), P("coded", <<0, 1>>)}
Ranges == {<<-2, 0>>, <<1, 1>>, <<2, 5>>, <<5, 2>>}

RangeChunks ==
  {<<P("dict", <<2, -5>>)>> \o ps : ps \in UpTo(DataPages, 3)}
  \cup {ps \in UpTo(DataPages, 3) : \A i \in DOMAIN ps : ps[i].kind = "plain"}

IndexOf(pages) ==
  LET data == SelectSeq(pages, IsData)
      rows(i) == ToSet(PageRows(data[i], pages[1].vals))
      nulls(i) == rows(i) = {}
      most(i) == CHOOSE x \in rows(i) : \A y \in rows(i) : y <= x
  IN  [null_pages |-> [i \in DOMAIN data |-> nulls(i)],
       min_values |-> [i \in DOMAIN data |-> IF nulls(i) THEN << >> ELSE <<Least(rows(i))>>],
       max_values |-> [i \in DOMAIN data |-> IF nulls(i) THEN << >> ELSE <<most(i)>>]]

Indexes(pages) ==
  LET all == IndexOf(pages)
      n == Len(all.null_pages)
  IN  {all, [all EXCEPT !.max_values = <<<<0, 0>>>> \o SubSeq(@, 2, n)],
       [null_pages |-> SubSeq(all.null_pages, 1, n - 1),
        min_values |-> SubSeq(all.min_values, 1, n - 1),
        max_values |-> SubSeq(all.max_values, 1, n - 1)]}
      \cup (IF n = 0 THEN {} ELSE {[all EXCEPT !.min_values = Tail(@)]})

InRange ==
  UNION {{[Ask("range", ps, 6) EXCEPT !.indexed = TRUE, !.index = ix, !.lo = r[1], !.hi = r[2]] :
            ix \in Indexes(ps), r \in Ranges} : ps \in RangeChunks}
  \cup {[Ask("range", ps, 2) EXCEPT !.lo = r[1], !.hi = r[2]] : ps \in RangeChunks, r \in Ranges}

MCRequests == Downcasts \cup Given \cup InRange \cup {Ask("delta", << >>, 0)}

-----------------------------------------------------------------------------
Shape(block, minis, spare) == [block |-> block, minis |-> minis, spare |-> spare]
Stream(ints, shape) == [ints |-> ints, shape |-> shape]
One == Shape(2, 1, 0)

GoodShapes == {One, Shape(4, 2, 0), Shape(4, 2, 9), Shape(4, 1, 0), Shape(8, 2, 200)}
BadShapes == {Shape(4, 0, 0), Shape(3, 2, 0), Shape(6, 3, 0), Shape(0, 1, 0)}

Integers_(kind, S, n) ==
  {[kind |-> kind, streams |-> <<Stream(ints, sh)>>, data |-> <<0>>, cut |-> c] :
     ints \in UpTo(S, n), sh \in GoodShapes, c \in {0, 1, 3}}
  \cup {[kind |-> kind, streams |-> <<Stream(ints, sh)>>, data |-> << >>, cut |-> 0] :
     ints \in UpTo({0, 3}, 3), sh \in BadShapes}

Lengths ==
  {[kind |-> "length", streams |-> <<Stream(ints, One)>>, data |-> SubSeq(<<1, 2, 3, 4>>, 1, n),
    cut |-> c] : ints \in UpTo({-1, 0, 1, 2}, 3), n \in {2, 4}, c \in 0..2}

Arrays ==
  {[kind |-> "byte_array", streams |-> <<Stream(p, sh), Stream(s, One)>>,
    data |-> SubSeq(<<1, 2, 3, 4>>, 1, n), cut |-> c] :
     p \in UpTo({-1, 0, 1, 2}, 2) \cup {<<0, x, y>> : x \in 0..2, y \in 0..3},
     s \in UpTo({0, 1, 2}, 2) \cup {<<2, x, y>> : x \in 0..2, y \in 0..2},
     sh \in {One, Shape(4, 2, 9)}, n \in {2, 4}, c \in {0, 1}}

MCPayloads ==
  Integers_("i32", {-16, -1, 0, 15}, 4) \cup Integers_("i64", {-64, 5, 63}, 4)
  \cup Integers_("i64", {-64, 63}, 6) \cup Lengths \cup Arrays
=============================================================================
