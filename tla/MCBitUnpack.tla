---------------------------- MODULE MCBitUnpack -----------------------------
(***************************************************************************)
(* The calls TLC runs BitUnpack on: every build, every width, counts of    *)
(* values on both sides of the block (8 or 32) and chunk (32) sizes, and   *)
(* slices from one byte short to 26 bytes longer than needed, so that each *)
(* kernel runs all, all but one and none of its blocks.                    *)
(***************************************************************************)
EXTENDS BitUnpack

Archs == {"neon", "avx2", "scalar"}
Pads == (-1 .. 8) \cup {10, 11, 13, 16, 26}
Bytes(n, w, pad) == LET l == (n * w + 7) \div 8 + pad IN IF l < 0 THEN 0 ELSE l

(* A dictionary or dict_mask short of 2^w entries by `less`; a few rows.   *)
Entries(w, less) == IF less > 2 ^ w THEN 0 ELSE 2 ^ w - less
Row(n, i) == IF i < 0 THEN {} ELSE {IF i < n THEN i ELSE n - 1} \cap (0 .. n)

IndexCalls(op, archs, ws, ns, pads) ==
    {[op |-> op, arch |-> a, w |-> w, n |-> n, len |-> Bytes(n, w, p),
      dict |-> 0, big |-> {}] : a \in archs, w \in ws, n \in ns, p \in pads}

DictCalls(op, ws, ns, lesses, pads) ==
    {[op |-> op, arch |-> a, w |-> w, n |-> n, len |-> Bytes(n, w, p),
      dict |-> Entries(w, l), big |-> Row(n, i)] :
        a \in Archs, w \in ws, n \in ns, l \in lesses,
        i \in {-1, 0, 8, 64}, p \in pads}

(* Two NEON widths load further than their check provides for; here they   *)
(* get slices with room behind the values.  UncoveredCalls are the others. *)
Uncovered(c) == /\ c.arch = "neon" /\ c.w \in {5, 21}
                /\ c.op \in {"indices", "lookup", "bitmap"}
                /\ c.len < Required(c) + 16

CoveredCalls ==
    {c \in IndexCalls("indices", Archs, 0 .. 33, {0, 1, 8, 9, 16, 33, 64, 65}, Pads)
         \cup DictCalls("lookup", 0 .. 24, {0, 1, 9, 16, 33, 65},
                        {0, 1, 2 ^ 25}, {-1, 0, 4, 16})
         \cup DictCalls("bitmap", FusedWidths, {0, 1, 9, 16, 33}, {0, 1},
                        {-1, 0, 4, 16})
         \cup DictCalls("bitmap", (1 .. 11) \cup {13, 19, 20}, {0, 1, 9, 33}, {0},
                        {-1, 0, 16})
         \cup IndexCalls("indices64", {"scalar"}, 0 .. 65, {0, 1, 33, 64}, {-1, 0}) :
        ~Uncovered(c)}

(* Every entry of the tables satisfies what the proofs about values ask,   *)
(* every entry but those two what the proofs about loads ask.              *)
OneCall(a, op, w) == [op |-> op, arch |-> a, w |-> w, n |-> 1, len |-> 64,
                      dict |-> 1, big |-> {}]
ASSUME TablesSound ==
    \A a \in Archs, op \in {"indices", "lookup", "bitmap"}, w \in 0 .. 32 :
        LET c == OneCall(a, op, w)
        IN  HasKernel(c) /\ ~Uncovered([c EXCEPT !.len = 0]) => Sound(c, Arm(c))

ASSUME TablesExact ==
    \A a \in Archs, op \in {"indices", "lookup", "bitmap"}, w \in 0 .. 32 :
        LET c == OneCall(a, op, w)
        IN  HasKernel(c) => Aligned(c, Arm(c)) /\ InOrder(Arm(c))

UncoveredCalls ==
    {c \in IndexCalls("indices", {"neon"}, {5, 21}, {8, 9, 16, 17}, {0, 1, 2}) :
        Uncovered(c)}
=============================================================================
