------------------------------ MODULE MCTwoHop ------------------------------
(***************************************************************************)
(* Two owners over two real entities and two relations.  Every owner has   *)
(* up to three of five rows; handles tell the rows apart, scores tie on    *)
(* purpose, and paths fan out, meet again and loop.                        *)
(***************************************************************************)
EXTENDS TwoHopRetrieval

Edge(source, relation, target, handle, score) ==
    [source |-> source, relation |-> relation, target |-> target,
     handle |-> handle, score |-> score]

AllRows == <<Edge(1, 1, 2, 9, 1),
             Edge(1, 1, 1, 8, 1),
             Edge(2, 2, 2, 7, 0),
             Edge(2, 2, 1, 6, 1),
             Edge(1, 2, 2, 5, 1)>>

\* The file with the rows of S, in the order of the list above.
FileOf(S) ==
    [i \in 1 .. Cardinality(S) |->
        AllRows[CHOOSE n \in S : Cardinality({m \in S : m <= n}) = i]]

\* Up to two rows, or three of which two share a key.
ChosenFiles ==
    {FileOf(S) : S \in {T \in SUBSET (1 .. 5) :
        \/ Cardinality(T) <= 2
        \/ Cardinality(T) = 3 /\ ({1, 2} \subseteq T \/ {3, 4} \subseteq T)}}

Query(source, relation1, relation2) ==
    [source |-> source, relation1 |-> relation1, relation2 |-> relation2]

\* A query with a join, and one whose first hop uses the other relation.
ChosenQueries == {Query(1, 1, 2), Query(2, 2, 2)}

Circuit(reads, width) == [reads |-> reads, frontier |-> width]

AllCircuits ==
    {Circuit("stacks", "global"), Circuit("pages", "global"),
     Circuit("pages", "owner"), Circuit("pages", "full"),
     Circuit("scan", "owner"), Circuit("scan", "full"),
     Circuit("records", "global"), Circuit("baseline", "full")}

RecordCircuit == {Circuit("records", "global")}
=============================================================================
