---------------------------- MODULE MCTableWriter ----------------------------
(***************************************************************************)
(* TableWriter on tables of one column, long enough for pages to outgrow   *)
(* their header, and of two columns with every mix of options.             *)
(***************************************************************************)
EXTENDS TableWriter

Column(type, vals) == [type |-> type, vals |-> vals]

Call(cols, size, version, codec, codecs, dicts, blooms) ==
  [columns |-> cols, rowGroupSize |-> size, version |-> version, defaultCodec |-> codec,
   codecs |-> codecs, dicts |-> dicts, blooms |-> blooms]

(* n rows of one value, then one of another: few indices' worth of body,   *)
(* and a count that wraps to less than 0, to 0, or to less than it was.    *)
Long(n) == [k \in 1..(n + 1) |-> IF k <= n THEN 1 ELSE 2]

Values == {<< >>, <<1>>, <<1, 1>>, <<1, 2>>, <<1, 2, 1>>, <<1, 2, 3, 4>>, <<1, 2, 1, 1, 2>>,
           <<1, 2, 3, 4, 5>>, Long(3), Long(7), Long(8)}

OneColumn ==
  {Call(<<Column("i64", v)>>, size, version, codec, << >>, dicts, blooms) :
     v \in Values, size \in {0, 1, 2, 3, 9}, version \in {"v1", "v2"},
     codec \in {"plain", "snappy", "lzo"},
     dicts \in {<< >>, <<TRUE>>}, blooms \in {<< >>, <<TRUE>>}}

Pairs == {<<Column("i64", v), Column(type, w)>> :
            v \in {<< >>, <<1, 2, 1>>, <<2, 2>>}, type \in {"i64", "u64", "bool"},
            w \in {<< >>, <<1, 2, 2>>, <<1, 2>>}}

TwoColumns ==
  {Call(cols, size, version, "plain", codecs, dicts, blooms) :
     cols \in {p \in Pairs : Len(p[1].vals) = Len(p[2].vals) \/ p[2].type = "i64"},
     size \in {1, 2, 9}, version \in {"v1", "v2"},
     codecs \in {<< >>, <<"snappy", "plain">>, <<"plain", "lzo">>, <<"plain">>},
     dicts \in {<< >>, <<TRUE, FALSE>>, <<FALSE, TRUE>>, <<TRUE, TRUE>>, <<TRUE>>},
     blooms \in {<< >>, <<TRUE, FALSE>>, <<FALSE, TRUE>>, <<TRUE>>}}

NoColumns == {Call(<< >>, 1, "v1", "plain", << >>, << >>, << >>)}

MCCalls == NoColumns \cup OneColumn \cup TwoColumns
=============================================================================
