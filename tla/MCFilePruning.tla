---------------------------- MODULE MCFilePruning ----------------------------
(***************************************************************************)
(* FilePruning over two indexes, one of a name the text does not keep, and *)
(* files with every kind of extension.                                     *)
(***************************************************************************)
EXTENDS FilePruning

a == <<"a">>
b == <<"quote", "wide">>
MCIndexes == {a, b}
MCTypeOf == [x \in MCIndexes |-> IF x = a THEN "i64" ELSE "bytes"]

K(type, v) == [type |-> type, v |-> v]
MCKeys == {K("i64", 1), K("i64", 2), K("i64", 3), K("bytes", 2)}

Summarised(name, min, max) == [name |-> name, min |-> min, max |-> max]
Here(name) == [dir |-> NoDirectory, name |-> name]

DF(keyMetadata, sidecar, summaries, rows) ==
  [path |-> "d", keyMetadata |-> keyMetadata, sidecar |-> sidecar, summaries |-> summaries,
   rows |-> [x \in MCIndexes |-> rows]]

MCFiles ==
  {DF("none", Here(<<"a">>), << >>, {1, 2}),
   DF("foreign", Here(<<"a">>), << >>, {2}),
   DF("EMTX", Here(<<"a">>), << >>, {1}),
   DF("EMTX", Here(<<"a">>), <<Summarised(a, K("i64", 1), K("i64", 2))>>, {1, 2}),
   DF("EMTX", Here(<<"wide", "quote">>), <<Summarised(a, NoKey, K("i64", 2)), Summarised(b, K("bytes", 3), NoKey)>>, {}),
   DF("EMTX", Here(<<"quote", "wide">>), <<Summarised(b, K("bytes", 2), K("bytes", 2)), Summarised(a, K("i64", 2), NoKey)>>,
      {2}),
   DF("EMTX", [dir |-> "elsewhere", name |-> <<"a">>],
      <<Summarised(a, K("i64", 3), K("i64", 3)), Summarised(a, K("i64", 0), K("i64", 4))>>, {3}),
   DF("EMTX", Here(<<"a", "control">>), <<Summarised(a, K("i64", 1), K("i64", 1))>>, {1})}
=============================================================================
