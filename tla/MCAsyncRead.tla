----------------------------- MODULE MCAsyncRead -----------------------------
(***************************************************************************)
(* AsyncRead over files with one, two and three row groups, so that a      *)
(* suffix of five units covers the footers of the first two and not of the *)
(* third, files of one and two row groups whose footers start where that   *)
(* of the third does, files of OPTIONAL columns, and objects that are not  *)
(* Parquet files.                                                          *)
(***************************************************************************)
EXTENDS AsyncRead

Plain(vals) == [kind |-> "plain", vals |-> vals]
Dict(vals) == [kind |-> "dict", vals |-> vals]
Coded(vals) == [kind |-> "coded", vals |-> vals]

Pages(ps, codec) ==
  LET upto[k \in 0..Len(ps)] ==
        IF k = 0 THEN << >> ELSE upto[k - 1] \o PageUnits(ps[k], codec, "v1")
  IN  upto[Len(ps)]

(* A file with one column, a row group per sequence of pages.              *)
File(groups, codec, rows) ==
  LET body[g \in 0..Len(groups)] ==
        IF g = 0 THEN Magic ELSE body[g - 1] \o Pages(groups[g], codec)
      dictLen(g) == IF groups[g][1].kind = "dict" THEN Len(Pages(<<groups[g][1]>>, codec)) ELSE 0
      chunk(g) == [dataAt |-> Len(body[g - 1]) + dictLen(g),
                   dictAt |-> IF dictLen(g) > 0 THEN Len(body[g - 1]) ELSE NoOffset,
                   compressed |-> Len(body[g]) - Len(body[g - 1]), rows |-> rows[g],
                   codec |-> codec, levels |-> FALSE]
      md == [groups |-> [g \in DOMAIN groups |-> [cols |-> <<chunk(g)>>]]]
  IN  body[Len(groups)] \o Piece("footer", md, FooterLen(md))
        \o Piece("length", FooterLen(md), 1) \o Magic

Rows3(a) == Plain(<<a, 2, 3>>)

(* A file of one OPTIONAL column: its version 1 pages have levels before   *)
(* the values, of the width of one value, `1'.                             *)
Levelled(page) == [page EXCEPT !.vals = <<1>> \o @]

Optional(vals, version) ==
  LET body  == Piece("body", [page   |-> IF version = "v1" THEN Levelled(Plain(vals)) ELSE Plain(vals),
                              behind |-> Plain(vals), codec |-> "plain"], Len(vals) + 1)
      units == <<[PageUnits(Levelled(Plain(vals)), "plain", version)[1]
                    EXCEPT !.of.count = Len(vals)]>> \o body
      md    == [groups |-> <<[cols |-> <<[dataAt |-> 1, dictAt |-> NoOffset, rows |-> Len(vals),
                                         compressed |-> Len(units), codec |-> "plain",
                                         levels |-> TRUE]>>]>>]
  IN  Magic \o units \o Piece("footer", md, 2) \o Piece("length", 2, 1) \o Magic

MCObjects ==
  LET one == File(<<<<Rows3(1)>>>>, "plain", <<3>>)
      two == File(<<<<Dict(<<7, 8>>), Coded(<<1, 0>>)>>, <<Rows3(1)>>>>, "plain", <<2, 3>>)
      length(n) == Piece("length", n, 1)
  IN  <<one,
        File(<<<<Rows3(4)>>>>, "plain", <<3>>),                             \* the footer of `one'
        two,
        File(<<<<Dict(<<5, 9>>), Coded(<<1, 0>>)>>, <<Rows3(4)>>>>, "plain", <<2, 3>>),
        File(<<<<Plain(<<1>>)>>, <<Plain(<<4>>), Plain(<<5>>)>>, <<Plain(<<2, 3>>)>>>>, "snappy",
             <<1, 2, 2>>),
        File(<<<<Rows3(1)>>, <<Rows3(4), Rows3(5)>>>>, "plain", <<3, 6>>),  \* one unit shorter
        File(<<<<Rows3(1), Rows3(4), Rows3(5)>>>>, "plain", <<9>>),         \* and two
        Optional(<<2, 3>>, "v1"), Optional(<<2, 3>>, "v2"),
        File(<<<<Coded(<<0>>)>>>>, "plain", <<1>>),                         \* no dictionary
        File(<< >>, "plain", << >>),
        Tail(one),                                                          \* no leading magic
        << >>, Magic, length(0) \o Magic, length(1) \o Magic,
        Magic \o Magic, Magic \o length(0) \o Magic, Magic \o length(1) \o Magic,
        Magic \o Pages(<<Rows3(1)>>, "plain") \o Magic>>

MCChunks == {<<1, 1>>, <<2, 1>>, <<1, 2>>}
=============================================================================
