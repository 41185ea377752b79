------------------------- MODULE MCMultipartyQuery -------------------------
(* Three evaluators and two partitions.  The second generation has other      *)
(* points in its second partition and two evaluators in the other order; the  *)
(* third has the points and the order of the first with other candidates.     *)
EXTENDS MultipartyQuery

Snapshot(points, extra) == [x \in points |-> {x} \cup extra]
Straight == [i \in Parties |-> i]
Swapped == [Straight EXCEPT ![0] = 1, ![1] = 0]

MCSnapshots ==
  <<<<Snapshot({2, 3}, {}), Snapshot({4}, {})>>,
    <<Snapshot({2, 3}, {}), Snapshot({1, 3}, {9})>>,
    <<Snapshot({2, 3}, {8}), Snapshot({4}, {})>>>>
MCOrder == <<Straight, Swapped, Straight>>
=============================================================================
