-------------------------- MODULE PagedDirectories --------------------------
(***************************************************************************)
(* The four layouts of the paged directory, from the owner's file to the   *)
(* descriptor the circuit reads at a secret key.                           *)
(*                                                                         *)
(*   "dense"        a row for every entity and relation.                   *)
(*   "compact"      a public hash sends a key to a bucket, in which every  *)
(*                  owner has its own slots; a slot holds a tag above the  *)
(*                  descriptor.                                            *)
(*   "hybrid"       a block of rows per relation for the entities of the   *)
(*                  relation's domain, and a compact residual table for    *)
(*                  the keys outside the ontology's blocks.                *)
(*   "partitioned"  the same, with a residual table per relation.          *)
(*                                                                         *)
(* Owners build their vectors alone; a server adds the vectors up, with    *)
(* several owners' descriptors in one field element.  The circuit hashes,  *)
(* checks blocks and compares tags on its own side.  The second hop folds  *)
(* the tables by the queried relation first, or does not.  The bound check *)
(* evaluates a polynomial at every key's count over the federation.        *)
(***************************************************************************)
EXTENDS RelationPages, FiniteSetsExt, Functions

CONSTANTS
    Multiplier,    \* the odd constant of the hash
    HashWordBits,  \* the word the product is truncated to
    Prime,         \* the modulus of the field the bound check computes in
    Shapes         \* the directory layouts a configuration may ask for

VARIABLES
    shape,       \* the layout: kind, buckets, slots, perElement and, where
                 \* there is an ontology, typeOf and domain
    vectors,     \* vectors[o]: the primary and hashed vectors owner o shared
    assembled,   \* the tables a server's input adds up to
    violations   \* what the bound check opened

tableVars == <<vectors, assembled, violations>>
vars == <<layoutVars, phase, shape, tableVars>>

Unshared == [primary |-> <<>>, hashed |-> <<>>]
Unopened == -1

\* A key can hold no more than this even if every owner is full.
MaximumCount == OwnerCount * SlotsPerKey

ASSUME DirectoryAssumption ==
    /\ Multiplier \in Nat /\ Multiplier % 2 = 1
    /\ HashWordBits \in Nat \ {0}
    /\ GlobalFrontier < MaximumCount /\ MaximumCount < Prime
    /\ DirectoryRows < Prime
    \* A prime modulus has no divisors of zero.
    /\ Prime \in Nat /\ \A a, b \in 1 .. Prime - 1 : (a * b) % Prime # 0
    /\ \A s \in Shapes :
          /\ s.kind \in {"dense", "compact", "hybrid", "partitioned"}
          /\ {s.perElement, s.slots} \subseteq Nat \ {0}
          /\ \E width \in 0 .. HashWordBits : s.buckets = 2 ^ width
          \* With one bucket the selector has a row more than the table.
          /\ s.kind \in {"compact", "hybrid"} => s.buckets > 1
          /\ s.kind = "partitioned" => RelationCount * s.buckets > 1

Entities == 1 .. EntityCount - 1
Relations == 1 .. RelationCount
Hybrid == shape.kind \in {"hybrid", "partitioned"}
Hashes == shape.kind # "dense"
Partitioned == shape.kind = "partitioned"

DescriptorBits == PageBaseBits + BitLength(PagesPerKey)

EntityOf(k) == k \div RelationCount
RelationOf(k) == (k % RelationCount) + 1
Stored(o) == {k \in 0 .. DirectoryRows - 1 : directory[o][k] # EmptyDescriptor}

-----------------------------------------------------------------------------
(* The ontology's blocks, as the owners and the generated program use them. *)

MembersOf(type) == {e \in Entities : shape.typeOf[e] = type}
TypeSize(type) == Cardinality(MembersOf(type))
TypeStart(type) == Min(MembersOf(type))

\* Entities of one type have consecutive numbers, and a domain has entities.
ValidOntology ==
    Hybrid =>
        /\ \A e \in Entities :
              LET type == shape.typeOf[e]
              IN  MembersOf(type) =
                    TypeStart(type) .. TypeStart(type) + TypeSize(type) - 1
        /\ \A r \in Relations : MembersOf(shape.domain[r]) # {}

BlockWidth(r) == TypeSize(shape.domain[r])

\* Row zero is the dummy row; the blocks follow in the order of relations.
BlockStart(r) == 1 + SumFunctionOnSet([s \in Relations |-> BlockWidth(s)], 1 .. r - 1)

Coefficient(r) == BlockStart(r) - TypeStart(shape.domain[r])

OwnBlock(k) ==
    LET start == TypeStart(shape.domain[RelationOf(k)])
    IN  EntityOf(k) \in start .. start + BlockWidth(RelationOf(k)) - 1

PrimaryRows == IF Hybrid THEN BlockStart(RelationCount + 1) ELSE DirectoryRows

\* The keys an owner keeps in the primary and in the hashed table.
InPrimary(o) ==
    CASE Hybrid -> {k \in Stored(o) : OwnBlock(k)}
      [] shape.kind = "dense" -> Stored(o)
      [] OTHER -> {}
InHashed(o) == Stored(o) \ InPrimary(o)

PrimaryRow(k) ==
    IF Hybrid THEN Coefficient(RelationOf(k)) + EntityOf(k) ELSE k

PrimaryVector(o) ==
    [row \in 0 .. PrimaryRows - 1 |->
        SumFunctionOnSet(directory[o], {k \in InPrimary(o) : PrimaryRow(k) = row})]

-----------------------------------------------------------------------------
(* The hashed table. *)

BucketBits == BitLength(shape.buckets) - 1
BucketWidth == OwnerCount * shape.slots

\* The top bits of the product's word.
BucketOf(tag) ==
    IF shape.buckets = 1 THEN 0
    ELSE ((tag * Multiplier) % 2 ^ HashWordBits) \div 2 ^ (HashWordBits - BucketBits)

TagOf(k) == IF Partitioned THEN EntityOf(k) + 1 ELSE k + 1
TagBits == BitLength(IF Partitioned THEN EntityCount ELSE DirectoryRows)

HashedRow(k) ==
    IF Partitioned
    THEN (RelationOf(k) - 1) * shape.buckets + BucketOf(TagOf(k))
    ELSE BucketOf(TagOf(k))

\* A selector has a power of two of rows, and the table is padded to it.
HashedRows ==
    IF Partitioned
    THEN LET logical == RelationCount * shape.buckets
         IN  IF logical = 1 THEN 1 ELSE 2 ^ BitLength(logical - 1)
    ELSE shape.buckets

SharingRow(o, row) == {k \in InHashed(o) : HashedRow(k) = row}

BucketsHold(o) ==
    \A row \in 0 .. HashedRows - 1 : Cardinality(SharingRow(o, row)) <= shape.slots

\* The keys of a bucket take the owner's columns in the order of their tags.
ColumnOf(o, k) ==
    (o - 1) * shape.slots
        + Cardinality({j \in SharingRow(o, HashedRow(k)) : TagOf(j) < TagOf(k)})

Slot(o, k) == TagOf(k) * 2 ^ DescriptorBits + directory[o][k]

HashedVector(o) ==
    [row \in 0 .. HashedRows - 1 |->
        [column \in 0 .. BucketWidth - 1 |->
            SumFunction([k \in {j \in SharingRow(o, row) : ColumnOf(o, j) = column} |->
                            Slot(o, k)])]]

-----------------------------------------------------------------------------
(* Assembly of a server's input; the shares of three servers add up to it. *)

Columns == (OwnerCount + shape.perElement - 1) \div shape.perElement
ColumnOfOwner(o) == (o - 1) \div shape.perElement
OffsetOfOwner(o) == ((o - 1) % shape.perElement) * DescriptorBits
SharingColumn(column) == {o \in Owners : ColumnOfOwner(o) = column}

\* Owner o's descriptor in a row of packed elements.
Unpacked(elements, o) ==
    (elements[ColumnOfOwner(o)] \div 2 ^ OffsetOfOwner(o)) % 2 ^ DescriptorBits

\* The owners' descriptors, by owner, packed by columns.
PackedElements(descriptors) ==
    [column \in 0 .. Columns - 1 |->
        SumFunction([o \in SharingColumn(column) |->
                        descriptors[o] * 2 ^ OffsetOfOwner(o)])]

Tables ==
    [primary |->
        IF shape.kind = "compact" THEN <<>>
        ELSE [row \in 0 .. PrimaryRows - 1 |->
                 PackedElements([o \in Owners |-> vectors[o].primary[row]])],
     hashed |->
        IF ~Hashes THEN <<>>
        ELSE [row \in 0 .. HashedRows - 1 |->
                 [column \in 0 .. BucketWidth - 1 |->
                     SumFunction([o \in Owners |-> vectors[o].hashed[row][column]])]]]

-----------------------------------------------------------------------------
(* The bound check: 1[x > GlobalFrontier], interpolated on 0 .. MaximumCount. *)

InverseOf(x) == CHOOSE y \in 1 .. Prime - 1 : (x * y) % Prime = 1

\* The coefficients of the product of x - other, over all other points.
Basis(point) ==
    LET product[n \in 0 .. MaximumCount + 1] ==
            IF n = 0 THEN [d \in 0 .. MaximumCount |-> IF d = 0 THEN 1 ELSE 0]
            ELSE LET before == product[n - 1]
                 IN  IF n - 1 = point THEN before
                     ELSE [d \in 0 .. MaximumCount |->
                             ((IF d = 0 THEN 0 ELSE before[d - 1])
                                 - (n - 1) * before[d]) % Prime]
    IN  product[MaximumCount + 1]

Denominator(point) ==
    LET product[n \in 0 .. MaximumCount + 1] ==
            IF n = 0 THEN 1
            ELSE IF n - 1 = point THEN product[n - 1]
            ELSE (product[n - 1] * (point - (n - 1))) % Prime
    IN  product[MaximumCount + 1]

\* Mutant: the points above the bound begin at the bound.
CoefficientsFromBound ==
    [d \in 0 .. MaximumCount |->
        SumFunction([point \in GlobalFrontier .. MaximumCount |->
                        Basis(point)[d] * InverseOf(Denominator(point))]) % Prime]

Coefficients ==
    [d \in 0 .. MaximumCount |->
        SumFunction([point \in GlobalFrontier + 1 .. MaximumCount |->
                        Basis(point)[d] * InverseOf(Denominator(point))]) % Prime]

\* Horner's scheme, over every key's count.
Overflow(x) ==
    LET horner[d \in 0 .. MaximumCount] ==
            IF d = MaximumCount THEN Coefficients[d]
            ELSE (horner[d + 1] * x + Coefficients[d]) % Prime
    IN  horner[0]

\* Every owner's count at the key's row; the sum is the federation's count.
Occupancy(k) == SumFunction([o \in Owners |-> Degree(o, k)])

Violations ==
    SumFunction([k \in 0 .. DirectoryRows - 1 |-> Overflow(Occupancy(k))]) % Prime

-----------------------------------------------------------------------------
Init ==
    /\ LayoutInit
    /\ shape \in Shapes
    /\ vectors = [o \in Owners |-> Unshared]
    /\ assembled = Unshared
    /\ violations = Unopened

\* A configuration whose ontology has no blocks is refused when it is loaded.
RefuseConfig ==
    /\ phase = "build"
    /\ ~ValidOntology
    /\ phase' = "refused"
    /\ UNCHANGED <<layoutVars, shape, tableVars>>

BuildOwner ==
    /\ ValidOntology
    /\ \/ \E k \in Keys(owner) : PlaceKey(k)
       \/ RefuseLayout
    /\ UNCHANGED <<shape, tableVars>>

\* An owner whose groups are all placed shares its vectors, unless a bucket
\* overflows.
ShareOwner ==
    /\ ValidOntology
    /\ IF Hashes => BucketsHold(owner)
       THEN /\ FinishOwner
            /\ vectors' = [vectors EXCEPT ![owner] =
                  [primary |-> IF shape.kind = "compact" THEN <<>>
                               ELSE PrimaryVector(owner),
                   hashed |-> IF Hashes THEN HashedVector(owner) ELSE <<>>]]
       ELSE /\ phase = "build"
            /\ placed = Keys(owner)
            /\ phase' = "refused"
            /\ UNCHANGED <<layoutVars, vectors>>
    /\ UNCHANGED <<shape, assembled, violations>>

\* A server adds up the vectors of all owners.
Assemble ==
    /\ phase \notin {"build", "refused"}
    /\ assembled = Unshared
    /\ assembled' = Tables
    /\ UNCHANGED <<layoutVars, phase, shape, vectors, violations>>

\* The parties open the number of keys over the bound, before the retrieval
\* or after a server has assembled its input.
CheckBound ==
    /\ phase = "check"
    /\ violations' = Violations
    /\ phase' = IF Violations = 0 THEN "hop1" ELSE "refused"
    /\ UNCHANGED <<layoutVars, shape, vectors, assembled>>

Next ==
    \/ RefuseConfig
    \/ BuildOwner
    \/ ShareOwner
    \/ Assemble
    \/ CheckBound

Spec == Init /\ [][Next]_vars

-----------------------------------------------------------------------------
(* The circuit.  A read returns a row of packed elements; e, r and valid are *)
(* secret, and r may be no relation.                                         *)

RelationOk(r) == r # 0 /\ r <= RelationCount

\* What the selector over relations picks: the first one for no relation.
PickedRelation(r) == IF RelationOk(r) THEN r ELSE 1

\* Mutant: the end of the block is compared with "at most".
InBlockToEnd(e, r) ==
    LET start == TypeStart(shape.domain[PickedRelation(r)])
    IN  e >= start /\ e <= start + BlockWidth(PickedRelation(r))

InBlock(e, r) ==
    LET start == TypeStart(shape.domain[PickedRelation(r)])
    IN  e >= start /\ e < start + BlockWidth(PickedRelation(r))

\* The row of the primary table, or the dummy row.
Address(e, r, valid) ==
    IF ~(valid /\ KeyOk(e, r)) THEN 0
    ELSE IF ~Hybrid THEN DirectoryIndex(e, r)
    ELSE IF InBlock(e, r) THEN Coefficient(r) + e ELSE 0

NoDescriptors == [column \in 0 .. Columns - 1 |-> 0]

\* A selector may have rows behind the table's; they select nothing.
ReadPrimary(e, r, valid) ==
    LET row == Address(e, r, valid)
    IN  IF row < PrimaryRows THEN assembled.primary[row] ELSE NoDescriptors

\* Contracted by the relation first, then read at the entity, or at its place
\* in the block of the relation.
FoldedDense(e, r) == assembled.primary[DirectoryIndex(e, PickedRelation(r))]

FoldedBlock(e, r, valid) ==
    LET picked == PickedRelation(r)
        offset == e - TypeStart(shape.domain[picked])
    IN  IF valid /\ InBlock(e, r) /\ offset < BlockWidth(picked)
        THEN assembled.primary[BlockStart(picked) + offset]
        ELSE NoDescriptors

\* The bits of the product from the word's end down, as many as an index has.
CircuitBucket(tag) ==
    IF shape.buckets = 1 THEN 0
    ELSE LET bits == BitLength(shape.buckets - 1)
         IN  ((tag * Multiplier) \div 2 ^ (HashWordBits - bits)) % 2 ^ bits

WantedTag(e, r, valid) ==
    IF ~valid THEN 0 ELSE IF Partitioned THEN e + 1 ELSE e * RelationCount + r

\* The descriptors of the slots whose tag is the wanted one, owner by owner.
Resolved(row, tag) ==
    LET Found(o, n) ==
            LET cell == row[(o - 1) * shape.slots + n]
            IN  IF (cell \div 2 ^ DescriptorBits) % 2 ^ TagBits = tag % 2 ^ TagBits
                THEN cell % 2 ^ DescriptorBits
                ELSE 0
    IN  PackedElements([o \in Owners |->
            SumFunction([n \in 0 .. shape.slots - 1 |-> Found(o, n)])])

ReadHashed(e, r, valid) ==
    LET tag == WantedTag(e, r, valid)
        row == IF ~Partitioned THEN CircuitBucket(tag)
               ELSE IF valid /\ RelationOk(r)
               THEN (r - 1) * shape.buckets + CircuitBucket(tag)
               ELSE 0
    IN  Resolved(assembled.hashed[row], tag)

\* The slice of the wanted relation first, then the bucket of the entity.
FoldedHashed(e, r, valid) ==
    LET tag == WantedTag(e, r, valid)
    IN  Resolved(assembled.hashed[(PickedRelation(r) - 1) * shape.buckets
                                    + CircuitBucket(tag)], tag)

Added(primary, hashed) ==
    [column \in 0 .. Columns - 1 |-> primary[column] + hashed[column]]

FirstHop(e, r) ==
    LET ok == KeyOk(e, r)
    IN  CASE shape.kind = "dense" -> ReadPrimary(e, r, TRUE)
          [] shape.kind = "compact" -> ReadHashed(e, r, ok)
          [] OTHER -> Added(ReadPrimary(e, r, TRUE), ReadHashed(e, r, ok))

\* A frontier entry that is no match reads entity zero.
SecondHop(e, r, match, foldPrimary, foldHashed) ==
    LET ok == match /\ KeyOk(e, r)
        entity == IF ok THEN e ELSE 0
        primary == IF ~foldPrimary THEN ReadPrimary(entity, r, ok)
                   ELSE IF Hybrid THEN FoldedBlock(entity, r, ok)
                   ELSE FoldedDense(entity, r)
        hashed == IF foldHashed /\ Partitioned THEN FoldedHashed(entity, r, ok)
                                               ELSE ReadHashed(entity, r, ok)
    IN  CASE shape.kind = "dense" -> primary
          [] shape.kind = "compact" -> hashed
          [] OTHER -> Added(primary, hashed)

-----------------------------------------------------------------------------
(* However a directory is laid out, and whichever way a hop reads it, the   *)
(* circuit finds for every key, present or absent, inside or outside its    *)
(* ontology block, and for every owner the descriptor that owner placed,    *)
(* and the empty one for what is no key or no match (page_program.py: both  *)
(* variants "must return identical descriptors"; compact_directory.py,      *)
(* "the reference the circuit must match").                                 *)
DescriptorsExact ==
    assembled # Unshared =>
        \A e \in 0 .. EntityCount, r \in 0 .. RelationCount + 1 :
            LET first == FirstHop(e, r)
                Placed(o) == IF KeyOk(e, r) THEN directory[o][DirectoryIndex(e, r)]
                             ELSE EmptyDescriptor
            IN  /\ \A o \in Owners : Unpacked(first, o) = Placed(o)
                /\ \A match, foldPrimary, foldHashed \in BOOLEAN :
                      LET second == SecondHop(e, r, match, foldPrimary, foldHashed)
                      IN  \A o \in Owners :
                              Unpacked(second, o) =
                                  IF match THEN Placed(o) ELSE EmptyDescriptor

(* What the bound check opens is the number of keys that hold more edges    *)
(* over the whole federation than the frontier has entries, although it is  *)
(* computed by a polynomial in a field (bound_check_program.py, "the exact  *)
(* predicate").                                                             *)
BoundVerdictExact ==
    violations # Unopened =>
        violations = Cardinality({k \in 0 .. DirectoryRows - 1 :
                                     FederationDegree(k) > GlobalFrontier})
=============================================================================
