------------------------ MODULE MCPagedDirectories ------------------------
(***************************************************************************)
(* Two owners, three real entities of two types and two relations: the     *)
(* first two entities are in the first relation's domain, the third in the *)
(* second's.  Files leave out or hold every key, alone and in pairs, with  *)
(* groups of up to five rows, unsorted and repeated ones among them.       *)
(***************************************************************************)
EXTENDS PagedDirectories

Edge(source, relation, target, handle) ==
    [source |-> source, relation |-> relation, target |-> target,
     handle |-> handle, score |-> 0]

AllKeys == Entities \X Relations

\* One row for each key of S, the later keys first.
Sparse(S) ==
    LET Rank(key) == Cardinality({j \in S : LexBefore(key, j)}) + 1
    IN  [i \in 1 .. Cardinality(S) |->
            LET key == CHOOSE j \in S : Rank(j) = i
            IN  Edge(key[1], key[2], 1, i)]

\* n rows of one key, targets descending by pairs, so that rows repeat.
Group(source, relation, n) ==
    [i \in 1 .. n |-> Edge(source, relation, 3 - (i \div 2), 1)]

ChosenFiles ==
    {Sparse(S) : S \in {T \in SUBSET AllKeys : Cardinality(T) <= 2}} \cup
    {Group(1, 1, n) : n \in 2 .. 5} \cup
    {Group(3, 1, n) \o <<Edge(1, 1, 2, 4)>> : n \in 2 .. 4} \cup
    {Group(3, 1, 3) \o Group(1, 1, 3)} \cup
    {<<Edge(2, 2, 4, 1)>>, <<Edge(1, 2, 2, 0)>>}

NoOntology == [typeOf |-> <<>>, domain |-> <<>>]
TwoTypes == [typeOf |-> <<"A", "A", "B">>, domain |-> <<"A", "B">>]
OneType == [typeOf |-> <<"A", "A", "B">>, domain |-> <<"A", "A">>]
Scattered == [typeOf |-> <<"A", "B", "A">>, domain |-> <<"A", "B">>]
Unknown == [typeOf |-> <<"A", "A", "A">>, domain |-> <<"A", "B">>]

Shape(kind, buckets, slots, perElement, ontology) ==
    [kind |-> kind, buckets |-> buckets, slots |-> slots,
     perElement |-> perElement, typeOf |-> ontology.typeOf,
     domain |-> ontology.domain]

ChosenShapes ==
    {Shape("dense", 1, 1, 2, NoOntology),
     Shape("compact", 2, 1, 1, NoOntology),
     Shape("compact", 4, 2, 2, NoOntology),
     Shape("hybrid", 2, 1, 2, TwoTypes),
     Shape("hybrid", 4, 1, 1, OneType),
     Shape("hybrid", 2, 2, 1, Scattered),
     Shape("hybrid", 2, 2, 2, Unknown),
     Shape("partitioned", 1, 2, 2, TwoTypes),
     Shape("partitioned", 2, 1, 1, OneType)}
=============================================================================
