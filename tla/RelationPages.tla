---------------------------- MODULE RelationPages ----------------------------
(***************************************************************************)
(* The owners' relation-paged layouts.                                     *)
(*                                                                         *)
(* An owner groups its edges by (source, relation), sorts every group and  *)
(* appends it to a pool of fixed-size pages; a directory row per key keeps *)
(* one number that packs the first page and the page count.  Page 0 is the *)
(* dummy page every absent key resolves to.  A group that needs too many   *)
(* pages or too many dependent reads, or a pool past its budget, refuses   *)
(* the whole preparation, and so does a key that is too wide when the      *)
(* groups of all owners are added up.                                      *)
(***************************************************************************)
EXTENDS Integers, Sequences, FiniteSets

CONSTANTS
    OwnerCount,        \* owners of the federation, in their public order
    EntityCount,       \* entity slots; slot 0 is the dummy entity
    RelationCount,     \* relation identifiers 1 .. RelationCount
    PageSize,          \* edges on a page
    PagesPerKey,       \* pages one key may hold
    PageBudget,        \* pages one owner may fill, the dummy page included
    FrontierPerOwner,  \* edges one key of one owner may hold
    GlobalFrontier,    \* edges one key may hold in the whole federation
    EdgeFiles          \* the files, sequences of edges, an owner may have

ASSUME PageAssumption ==
    /\ {OwnerCount, EntityCount, RelationCount, PageSize, PagesPerKey,
        FrontierPerOwner, GlobalFrontier} \subseteq Nat \ {0}
    /\ PageBudget \in Nat /\ PageBudget >= 2
    /\ FrontierPerOwner <= PageSize * PagesPerKey

ASSUME FileAssumption ==
    EdgeFiles \subseteq Seq([source : Int, relation : Int, target : Int,
                             handle : Int, score : Int])

Owners == 1 .. OwnerCount
SlotsPerKey == PageSize * PagesPerKey
PoolRows == PageBudget + PagesPerKey - 1
DirectoryRows == EntityCount * RelationCount

VARIABLES
    edges,       \* edges[o]: the edge file of owner o
    owner,       \* the owner whose layout is being built
    placed,      \* the keys that owner has placed
    directory,   \* directory[o][k]: the descriptor of key k, k from 0
    pool,        \* pool[o][p + 1]: page p
    phase        \* "build", "check", then the phases of the circuit

layoutVars == <<edges, owner, placed, directory, pool>>

-----------------------------------------------------------------------------
\* The least number of bits that holds n, and at least one.
BitLength(n) == CHOOSE b \in 1 .. n + 1 : 2 ^ b > n /\ (b = 1 \/ 2 ^ (b - 1) <= n)

PageBaseBits == BitLength(PageBudget - 1)

Descriptor(base, count) == base + count * 2 ^ PageBaseBits
PageBase(d) == d % 2 ^ PageBaseBits
PageCount(d) == d \div 2 ^ PageBaseBits
EmptyDescriptor == 0

\* The directory row of a key.
DirectoryIndex(entity, relation) == entity * RelationCount + relation - 1

ValidEdge(e) ==
    /\ e.source \in 1 .. EntityCount - 1
    /\ e.target \in 1 .. EntityCount - 1
    /\ e.relation \in 1 .. RelationCount
    /\ e.handle > 0
    /\ e.score >= 0

\* What a page slot keeps of an edge, and the slot that keeps none.
Packed(e) ==
    [target |-> e.target, relation |-> e.relation,
     handle |-> e.handle, score |-> e.score]
NoEdge == [target |-> 0, relation |-> 0, handle |-> 0, score |-> 0]

KeyOf(e) == DirectoryIndex(e.source, e.relation)

\* The rows of owner o's file that belong to key k.
Rows(o, k) == {n \in DOMAIN edges[o] : KeyOf(edges[o][n]) = k}

Degree(o, k) == Cardinality(Rows(o, k))

Keys(o) == {KeyOf(edges[o][n]) : n \in DOMAIN edges[o]}

\* Rows are compared by target, handle and score; the sort is stable.
SortKey(o, n) ==
    LET e == edges[o][n] IN <<e.target, e.handle, e.score, n>>

LexBefore(s, t) ==
    \E i \in DOMAIN s : s[i] < t[i] /\ \A j \in 1 .. i - 1 : s[j] = t[j]

\* The sorted order of a key's rows.
Orders(o, k) ==
    {order \in [1 .. Degree(o, k) -> Rows(o, k)] :
        \A i, j \in 1 .. Degree(o, k) :
            i < j => LexBefore(SortKey(o, order[i]), SortKey(o, order[j]))}

PagesFor(n) == (n + PageSize - 1) \div PageSize

EmptyPage == [j \in 1 .. PageSize |-> NoEdge]

\* Page p of a key whose sorted rows are order, counted from 0.
PageOf(o, order, p) ==
    [j \in 1 .. PageSize |->
        IF p * PageSize + j \in DOMAIN order
        THEN Packed(edges[o][order[p * PageSize + j]])
        ELSE NoEdge]

-----------------------------------------------------------------------------
LayoutInit ==
    /\ edges \in [Owners -> EdgeFiles]
    /\ owner = 1
    /\ placed = {}
    /\ directory = [o \in Owners |->
                      [k \in 0 .. DirectoryRows - 1 |-> EmptyDescriptor]]
    /\ pool = [o \in Owners |-> <<EmptyPage>>]
    /\ phase = "build"

\* The keys of an owner are placed in ascending order.
IsNextKey(k) ==
    /\ k \in Keys(owner) \ placed
    /\ \A other \in Keys(owner) \ placed : k <= other

\* Mutant: the page budget is compared without the pages of the key itself.
FitsLate(k) ==
    /\ PagesFor(Degree(owner, k)) <= PagesPerKey
    /\ Degree(owner, k) <= FrontierPerOwner
    /\ Len(pool[owner]) <= PageBudget

Fits(k) ==
    /\ PagesFor(Degree(owner, k)) <= PagesPerKey
    /\ Degree(owner, k) <= FrontierPerOwner
    /\ Len(pool[owner]) + PagesFor(Degree(owner, k)) <= PageBudget

\* Mutant: the number of pages is rounded down.
PlaceFullPages(k) ==
    /\ phase = "build"
    /\ \A n \in DOMAIN edges[owner] : ValidEdge(edges[owner][n])
    /\ IsNextKey(k)
    /\ Fits(k)
    /\ LET count == Degree(owner, k) \div PageSize
       IN  \E order \in Orders(owner, k) :
             /\ pool' = [pool EXCEPT ![owner] = @ \o
                           [p \in 1 .. count |-> PageOf(owner, order, p - 1)]]
             /\ directory' = [directory EXCEPT ![owner][k] =
                                Descriptor(Len(pool[owner]), count)]
    /\ placed' = placed \cup {k}
    /\ UNCHANGED <<edges, owner, phase>>

\* The pages of a key are appended to the pool and its descriptor is set.
PlaceKey(k) ==
    /\ phase = "build"
    /\ \A n \in DOMAIN edges[owner] : ValidEdge(edges[owner][n])
    /\ IsNextKey(k)
    /\ Fits(k)
    /\ LET count == PagesFor(Degree(owner, k))
       IN  \E order \in Orders(owner, k) :
             /\ pool' = [pool EXCEPT ![owner] = @ \o
                           [p \in 1 .. count |-> PageOf(owner, order, p - 1)]]
             /\ directory' = [directory EXCEPT ![owner][k] =
                                Descriptor(Len(pool[owner]), count)]
    /\ placed' = placed \cup {k}
    /\ UNCHANGED <<edges, owner, phase>>

\* An invalid edge or a key that does not fit refuses the preparation.
RefuseLayout ==
    /\ phase = "build"
    /\ \/ \E n \in DOMAIN edges[owner] : ~ValidEdge(edges[owner][n])
       \/ \E k \in Keys(owner) : IsNextKey(k) /\ ~Fits(k)
    /\ phase' = "refused"
    /\ UNCHANGED layoutVars

\* The pool is padded to its public height; the next owner follows.
FinishOwner ==
    /\ phase = "build"
    /\ placed = Keys(owner)
    /\ pool' = [pool EXCEPT ![owner] = @ \o
                  [p \in 1 .. PoolRows - Len(@) |-> EmptyPage]]
    /\ placed' = {}
    /\ IF owner = OwnerCount
       THEN phase' = "check" /\ UNCHANGED owner
       ELSE owner' = owner + 1 /\ UNCHANGED phase
    /\ UNCHANGED <<edges, directory>>

\* The edges of key k in the files of all owners, added up owner by owner.
FederationDegree(k) ==
    LET upTo[o \in 0 .. OwnerCount] == IF o = 0 THEN 0 ELSE upTo[o - 1] + Degree(o, k)
    IN  upTo[OwnerCount]

WithinGlobalFrontier ==
    \A k \in 0 .. DirectoryRows - 1 : FederationDegree(k) <= GlobalFrontier

CheckFrontier ==
    /\ phase = "check"
    /\ phase' = IF WithinGlobalFrontier THEN "hop1" ELSE "refused"
    /\ UNCHANGED layoutVars

-----------------------------------------------------------------------------
KeyOk(entity, relation) ==
    /\ entity # 0 /\ entity < EntityCount
    /\ relation # 0 /\ relation <= RelationCount

\* What one owner's two stacks answer for a key: PagesPerKey pages, the ones
\* past the page count of the key read from the dummy page and masked out.
Window(o, entity, relation) ==
    LET row == IF KeyOk(entity, relation)
               THEN DirectoryIndex(entity, relation) ELSE 0
        d == directory[o][row]
    IN  [s \in 1 .. SlotsPerKey |->
            LET p == (s - 1) \div PageSize
            IN  IF KeyOk(entity, relation) /\ PageCount(d) > p
                THEN pool[o][PageBase(d) + p + 1][((s - 1) % PageSize) + 1]
                ELSE NoEdge]

\* The rows of a key in sorted order, padded to the width of a key.
PaddedGroup(o, order) ==
    [s \in 1 .. SlotsPerKey |->
        IF s \in DOMAIN order THEN Packed(edges[o][order[s]]) ELSE NoEdge]

Complete(o, k) ==
    \/ o < owner
    \/ phase # "build"
    \/ o = owner /\ k \in placed
    \/ k \notin Keys(o)

(* Reading a key back through its descriptor and its window of pages gives *)
(* exactly the owner's edges of that key, in sorted order, and nothing     *)
(* else: no edge is dropped, truncated, duplicated or borrowed from a      *)
(* neighbouring key, and an absent key reads as empty                      *)
(* (relation_pages.py, "No edge is ever silently dropped").                *)
Lossless ==
    phase # "refused" =>
        \A o \in Owners, e \in 1 .. EntityCount - 1, r \in 1 .. RelationCount :
            LET k == DirectoryIndex(e, r)
            IN  Complete(o, k) =>
                  \E order \in Orders(o, k) :
                      Window(o, e, r) = PaddedGroup(o, order)

Phases == {"build", "check", "refused", "hop1", "compact", "hop2", "rank", "done"}

Slots == [target : 0 .. EntityCount - 1, relation : 0 .. RelationCount,
          handle : Nat, score : Nat]

(* Pages have a fixed width, descriptors stay inside the bits the circuit  *)
(* decomposes, the pool never outgrows the budget before its tail, and a   *)
(* finished one has its public height, which leaves the tail that keeps    *)
(* the widest window in range.                                             *)
LayoutTypeOK ==
    /\ edges \in [Owners -> EdgeFiles]
    /\ owner \in Owners
    /\ placed \subseteq Keys(owner)
    /\ phase \in Phases
    /\ \A o \in Owners :
          /\ DOMAIN directory[o] = 0 .. DirectoryRows - 1
          /\ \A k \in 0 .. DirectoryRows - 1 :
                /\ PageBase(directory[o][k]) < PageBudget
                /\ PageCount(directory[o][k]) <= PagesPerKey
          /\ \A p \in DOMAIN pool[o] : pool[o][p] \in [1 .. PageSize -> Slots]
          /\ o < owner \/ phase \notin {"build", "refused"} => Len(pool[o]) = PoolRows
          /\ o = owner /\ phase = "build" => Len(pool[o]) <= PageBudget
=============================================================================
