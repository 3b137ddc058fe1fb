---------------------------- MODULE MCSidecarIndex ----------------------------
(* Four sources: a two-group file whose key 1 is on both pages and in both
   groups, so that its entries straddle the cut of the body; a rewrite of it
   with the rows of one page exchanged, which leaves the footer as it was; a
   file with one long page, where the sparse rowset wins; an empty file.     *)
EXTENDS SidecarIndex

Group(pages, b) == [pages |-> pages, b |-> b]

TwoGroups == <<Group(<< <<1, 0, 1>>, <<1, 2>> >>, <<2, 0, 1, 1, 0>>),
               Group(<< <<1, 1>> >>, <<0, 1>>)>>
Exchanged == <<Group(<< <<0, 1, 1>>, <<1, 2>> >>, <<2, 0, 1, 1, 0>>),
               Group(<< <<1, 1>> >>, <<0, 1>>)>>
LongPage  == <<Group(<< <<0, 0, 0, 0, 0, 0, 2, 0>> >>, <<1, 1, 0, 0, 2, 1, 0, 1>>)>>
Empty     == <<Group(<< <<>> >>, <<>>)>>

MCContents == {TwoGroups, Exchanged, LongPage, Empty}

\* Value 2 repeats a token, value 1 is one token, value 0 is blank text.
MCTokenize == [v \in 0 .. 3 |-> CASE v = 0 -> <<>> [] v = 1 -> <<7>>
                                   [] v = 2 -> <<8, 7, 8>> [] v = 3 -> <<8>>]

\* Values 1 and 2 together set the bits of 0: a false positive.
MCBits == [v \in 0 .. 3 |-> CASE v = 0 -> {1, 2} [] v = 1 -> {1, 3}
                              [] v = 2 -> {2, 4} [] v = 3 -> {3, 4}]

Query(op, x, y, tgt) == [op |-> op, x |-> x, y |-> y, tgt |-> tgt]

MCQueries ==
    {Query("eq", x, x, "b") : x \in {1, 2, 3}}
    \cup {Query("range", r[1], r[2], "b") : r \in {<<0, 1>>, <<1, 3>>, <<2, 1>>}}
    \cup {Query("composite_eq", 1, y, "b") : y \in {0, 1}}
    \cup {Query("prefix", 1, 1, "b"), Query("token", 1, 1, "b"),
          Query("token", 2, 2, "b"), Query("token", 3, 3, "b")}
    \cup {Query("bloom_eq", x, x, t) : x \in {0, 1}, t \in {"a", "b"}}
=============================================================================
