------------------------------ MODULE MCDictPage ------------------------------
(***************************************************************************)
(* DictPage on every column of up to MaxLen values over Few distinct ones  *)
(* (numbered by first occurrence: the code only compares values), on       *)
(* columns made of up to three runs, and on columns with so many distinct  *)
(* values that an index takes two bytes.                                   *)
(***************************************************************************)
EXTENDS DictPage, SequencesExt

CONSTANTS Few, Many, MaxLen, RunLengths

FirstOccurrenceOrder(s) ==
  \A k \in DOMAIN s : s[k] <= 1 + Cardinality({s[j] : j \in 1..(k - 1)})

ShortColumns ==
  UNION {{s \in [1..n -> 1..Few] : FirstOccurrenceOrder(s)} : n \in 0..MaxLen}

RunColumns ==
  {Repeat(1, l[1]) \o Repeat(2, l[2]) \o Repeat(k, l[3]) :
     l \in [1..3 -> RunLengths], k \in {1, 3}}

WideColumns ==
  {[j \in 1..Many |-> j] \o Repeat(Many, l) \o Repeat(k, 2) : l \in RunLengths, k \in {1, Many - 1}}

MCColumns == ShortColumns \cup RunColumns \cup WideColumns
MCKeys == 1..Many
=============================================================================
