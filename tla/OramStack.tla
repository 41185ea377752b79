------------------------------ MODULE OramStack ------------------------------
(***************************************************************************)
(* The owner-side construction of a recursive tree-ORAM stack.             *)
(*                                                                         *)
(* Level 0 holds the data records.  Level l+1 holds the leaf labels of     *)
(* level l, Chi of them per entry, and the labels of the last level Top    *)
(* are the base that the circuit scans.  The owner draws a uniform leaf    *)
(* label for every entry of a level and draws the whole level again when   *)
(* a leaf bucket would overflow; after MaxAttempts draws it gives up.      *)
(*                                                                         *)
(* Buckets are heap indexed: leaf b of level l is bucket b + Leaves[l], an *)
(* access reads the buckets from there up to the root, and every entry     *)
(* starts in its leaf bucket.                                              *)
(***************************************************************************)
EXTENDS Integers, FiniteSets

CONSTANTS
    Top,            \* the last tree level
    Chi,            \* leaf labels packed into one entry of an upper level
    BaseThreshold,  \* a level this small is scanned instead of indexed
    Size,           \* Size[l]: entries of level l
    Stride,         \* Stride[l]: level-0 addresses under one entry of level l
    Depth,          \* Depth[l]: height of the tree of level l
    Leaves,         \* Leaves[l]: its leaf buckets
    BucketSize,     \* BucketSize[l]: slots of one bucket
    MaxAttempts,    \* draws the owner makes for one level
    Table,          \* the level-0 records
    ZeroRecord      \* the all-zero record

Levels == 0 .. Top
Indices(l) == 0 .. Size[l] - 1
LeafLabels(l) == 0 .. Leaves[l] - 1
Offsets == 0 .. Chi - 1

\* A level is the last one when its labels are few enough to scan.
Scannable(n) == n <= BaseThreshold \/ n <= Chi

CeilDiv(n, d) == (n + d - 1) \div d

\* The shape both the owner and the circuit derive from the record count.
ASSUME StackAssumption ==
    /\ Top \in Nat
    /\ Chi \in Nat /\ Chi >= 2
    /\ BaseThreshold \in Nat
    /\ MaxAttempts \in Nat \ {0}
    /\ Size \in [Levels -> Nat \ {0}]
    /\ Depth \in [Levels -> Nat]
    /\ Leaves \in [Levels -> Nat \ {0}]
    /\ \A l \in Levels : Leaves[l] = 2 ^ Depth[l]
    /\ BucketSize \in [Levels -> Nat \ {0}]
    /\ Stride \in [Levels -> Nat \ {0}]
    /\ Stride[0] = 1
    /\ \A l \in Levels \ {Top} :
          /\ ~Scannable(Size[l])
          /\ Size[l + 1] = CeilDiv(Size[l], Chi)
          /\ Stride[l + 1] = Stride[l] * Chi
    /\ Scannable(Size[Top])
    /\ DOMAIN Table = Indices(0)

VARIABLES
    pos,        \* pos[l][i]: leaf label of entry i of level l
    built,      \* levels placed so far, from level 0 upwards
    attempts,   \* draws rejected for the level being placed
    phase       \* "build", then "serve"; "aborted" when placement failed

stackVars == <<pos, built, attempts, phase>>

-----------------------------------------------------------------------------
\* Index at level l of the entry on the way to level-0 address a.
LevelIndex(a, l) == a \div Stride[l]

\* Position of the label of entry i inside the packed entry one level up.
ChildOffset(i) == i % Chi

\* Labels of level l - 1 packed into entry i of level l, zero padded.
Packed(l, i) ==
    [k \in Offsets |->
        IF i * Chi + k \in Indices(l - 1) THEN pos[l - 1][i * Chi + k] ELSE 0]

\* The payload of entry i of level l.
Record(l, i) == IF l = 0 THEN Table[i] ELSE Packed(l, i)

ZeroValue(l) == IF l = 0 THEN ZeroRecord ELSE [k \in Offsets |-> 0]

Occupants(l, map, leaf) == {i \in Indices(l) : map[i] = leaf}

\* Mutant: a leaf bucket may hold one entry too many.
FitsOneMore(l, map) ==
    \A leaf \in LeafLabels(l) :
        Cardinality(Occupants(l, map, leaf)) <= BucketSize[l] + 1

Fits(l, map) ==
    \A leaf \in LeafLabels(l) :
        Cardinality(Occupants(l, map, leaf)) <= BucketSize[l]

\* Entries of a leaf are written to consecutive slots in index order.
SlotOffset(l, i) ==
    Cardinality({j \in Occupants(l, pos[l], pos[l][i]) : j < i})

Slot(l, i) == (pos[l][i] + Leaves[l]) * BucketSize[l] + SlotOffset(l, i)

\* The bucket whose slots hold entry i.
BucketOf(l, i) == Slot(l, i) \div BucketSize[l]

\* The buckets one access reads, from a leaf to the root.
Path(l, leaf) == {(leaf + Leaves[l]) \div 2 ^ k : k \in 0 .. Depth[l]}

OnPath(l, leaf, i) == BucketOf(l, i) \in Path(l, leaf)

-----------------------------------------------------------------------------
StackInit ==
    /\ pos = [l \in Levels |-> [i \in Indices(l) |-> 0]]
    /\ built = 0
    /\ attempts = 0
    /\ phase = "build"

\* A draw that fits is kept and its labels become the level above.
PlaceLevel ==
    /\ phase = "build"
    /\ \E map \in [Indices(built) -> LeafLabels(built)] :
          /\ Fits(built, map)
          /\ pos' = [pos EXCEPT ![built] = map]
    /\ built' = built + 1
    /\ attempts' = 0
    /\ phase' = IF built = Top THEN "serve" ELSE "build"

\* A draw that overflows a leaf bucket is thrown away.
RejectDraw ==
    /\ phase = "build"
    /\ \E map \in [Indices(built) -> LeafLabels(built)] : ~Fits(built, map)
    /\ attempts' = attempts + 1
    /\ phase' = IF attempts + 1 = MaxAttempts THEN "aborted" ELSE "build"
    /\ UNCHANGED <<pos, built>>

StackTypeOK ==
    /\ DOMAIN pos = Levels
    /\ \A l \in Levels : pos[l] \in [Indices(l) -> LeafLabels(l)]
    /\ built \in 0 .. Top + 1
    /\ attempts \in 0 .. MaxAttempts
    /\ phase \in {"build", "serve", "aborted"}

\* Every level placed so far fits, and building stops at the last level.
PlacedFits == \A l \in Levels : l < built => Fits(l, pos[l])

BuildProgress ==
    /\ phase = "build" => built <= Top /\ attempts < MaxAttempts
    /\ phase = "serve" => built = Top + 1
=============================================================================
