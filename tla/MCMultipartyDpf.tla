-------------------------- MODULE MCMultipartyDpf --------------------------
(* Three evaluators, words of one bit and a PRG that tells two seeds apart in *)
(* some columns and not in others.                                            *)
EXTENDS MultipartyDpf

MCSizes == {1, 3, 7}
MCExpand(seed, c) == IF seed = "s1" THEN (IF c % 2 = 0 THEN Bits ELSE {})
                     ELSE IF seed = "s2" THEN (IF c % 3 = 0 THEN {} ELSE Bits)
                     ELSE (IF c % 2 = 0 THEN {} ELSE Bits)
MCWordVectors(mu) == {[c \in 0 .. mu - 1 |-> {}],
                      [c \in 0 .. mu - 1 |-> IF c % 2 = 1 THEN Bits ELSE {}]}

\* Columns by size of the set of holders; those of odd size also reversed.
MCShuffles(columns) ==
  LET n == Cardinality(columns)
      orders == {o \in [0 .. n - 1 -> columns] : {o[j] : j \in 0 .. n - 1} = columns}
      weight(c) == 10 * Cardinality(c) + (IF 0 \in c THEN 1 ELSE 0) + (IF 1 \in c THEN 2 ELSE 0)
  IN {o \in orders : \/ \A j \in 1 .. n - 1 : weight(o[j - 1]) < weight(o[j])
                     \/ Cardinality(o[0]) % 2 = 1 /\ \A j \in 1 .. n - 1 : weight(o[j - 1]) > weight(o[j])}

\* A point may go to no slot, to one or to several, a slot may get several
\* points, and the last slot is padding.
MCRouted(x) == IF x % 4 = 3 THEN {} ELSE IF x % 4 = 2 THEN {"a", "b"} ELSE {"a"}
=============================================================================
