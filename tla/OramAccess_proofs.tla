-------------------------- MODULE OramAccess_proofs --------------------------
(***************************************************************************)
(* Proofs that every access of a recursive ORAM stack returns the record   *)
(* it was asked for and opens each real leaf label at most once, for any   *)
(* number of levels, any packing, any table and any access budget.         *)
(***************************************************************************)
EXTENDS OramAccess, FiniteSetTheorems, WellFoundedInduction, TLAPS

-----------------------------------------------------------------------------
(* Natural numbers.                                                        *)

(* Every non-empty set of naturals has a least element.                    *)
LEMMA LeastNatural ==
    ASSUME NEW S \in SUBSET Nat, S # {}
    PROVE  \E m \in S : \A k \in S : m <= k
<1> DEFINE R == OpToRel(<, Nat)
<1>1. IsWellFoundedOn(R, Nat)
    BY NatLessThanWellFounded
<1>2. PICK m \in S : \A k \in S : <<k, m>> \notin R
    <2> HIDE DEF R
    <2> QED
        BY <1>1, WFMin
<1>3. \A k \in S : ~ (k < m)
    BY <1>2 DEF OpToRel
<1> QED
    BY <1>3

(* Induction on a set of naturals: the minimal counterexample is neither 0 *)
(* nor a successor.                                                        *)
LEMMA NatSetInduction ==
    ASSUME NEW S \in SUBSET Nat, 0 \in S, \A n \in S : n + 1 \in S
    PROVE  S = Nat
<1> SUFFICES ASSUME Nat \ S # {} PROVE FALSE
    OBVIOUS
<1>1. PICK m \in Nat \ S : \A k \in Nat \ S : m <= k
    BY LeastNatural
<1>2. m # 0 /\ m - 1 \in Nat /\ m - 1 \in S
    BY <1>1
<1> QED
    BY <1>1, <1>2

(* Dividing twice is dividing by the product.                              *)
LEMMA DivDiv ==
    ASSUME NEW a \in Nat, NEW s \in Nat \ {0}, NEW c \in Nat \ {0}
    PROVE  (a \div s) \div c = a \div (s * c)
    BY SMTT(30)

(* Quotient and remainder recombine.                                       *)
LEMMA DivMod ==
    ASSUME NEW a \in Nat, NEW c \in Nat \ {0}
    PROVE  /\ (a \div c) * c + (a % c) = a
           /\ a % c \in 0 .. c - 1
           /\ a \div c \in Nat
    BY SMTT(30)

(* An index below n lies in one of the ceil(n / c) groups of c.            *)
LEMMA DivBelowCeil ==
    ASSUME NEW a \in Nat, NEW n \in Nat, NEW c \in Nat \ {0}, a < n
    PROVE  a \div c <= ((n + c - 1) \div c) - 1
    BY SMTT(30)

-----------------------------------------------------------------------------
(* Lemmas about the shape of a stack.                                      *)

(* The entry on the way to an address lies inside its level: by induction  *)
(* on the level, since each level has one entry per Chi of the one below.  *)
LEMMA IndexInLevel ==
    ASSUME NEW a \in Indices(0)
    PROVE  \A l \in Levels : LevelIndex(a, l) \in Indices(l)
<1> DEFINE Good == {l \in Nat : l \in Levels => LevelIndex(a, l) \in Indices(l)}
<1>1. 0 \in Good
    BY StackAssumption DEF LevelIndex, Levels, Indices
<1>2. ASSUME NEW l \in Good PROVE l + 1 \in Good
    <2> SUFFICES ASSUME l + 1 \in Levels
                 PROVE  LevelIndex(a, l + 1) \in Indices(l + 1)
        OBVIOUS
    <2>1. l \in Levels \ {Top} /\ l \in Nat
        BY StackAssumption DEF Levels
    <2>2. LevelIndex(a, l) \in Indices(l)
        BY <2>1
    <2>3. LevelIndex(a, l + 1) = LevelIndex(a, l) \div Chi
        <3>1. Stride[l] \in Nat \ {0} /\ Chi \in Nat \ {0} /\ a \in Nat
            BY <2>1, StackAssumption DEF Indices, Levels
        <3>2. (a \div Stride[l]) \div Chi = a \div (Stride[l] * Chi)
            BY <3>1, DivDiv
        <3> QED
            BY <3>2, <2>1, StackAssumption DEF LevelIndex
    <2>4. LevelIndex(a, l) \in Nat /\ LevelIndex(a, l) < Size[l] /\ Size[l] \in Nat
        BY <2>1, <2>2, StackAssumption DEF Indices, Levels
    <2>5. Size[l + 1] = (Size[l] + Chi - 1) \div Chi
        BY <2>1, StackAssumption DEF CeilDiv
    <2>6. LevelIndex(a, l) \div Chi <= Size[l + 1] - 1
        BY <2>4, <2>5, StackAssumption, DivBelowCeil
    <2>7. LevelIndex(a, l) \div Chi \in Nat
        <3>1. Chi \in Nat \ {0}
            BY StackAssumption
        <3> QED
            BY <2>4, <3>1, DivMod
    <2>8. Size[l + 1] \in Nat
        BY StackAssumption DEF Levels
    <2> QED
        BY <2>3, <2>6, <2>7, <2>8 DEF Indices
<1>3. Good = Nat
    <2> HIDE DEF Good
    <2>1. Good \in SUBSET Nat
        BY DEF Good
    <2> QED
        BY <1>1, <1>2, <2>1, NatSetInduction
<1> QED
    BY <1>3 DEF Levels

(* The offset picked in a packed entry leads back to the entry below.      *)
LEMMA IndexSplits ==
    ASSUME NEW a \in Indices(0), NEW l \in Levels, l > 0
    PROVE  /\ ChildOffset(LevelIndex(a, l - 1)) \in Offsets
           /\ LevelIndex(a, l) * Chi + ChildOffset(LevelIndex(a, l - 1))
                = LevelIndex(a, l - 1)
<1>1. l - 1 \in Levels \ {Top} /\ (l - 1) + 1 = l
    BY StackAssumption DEF Levels
<1>2. /\ Stride[l - 1] \in Nat \ {0} /\ Chi \in Nat \ {0} /\ a \in Nat
      /\ Stride[l] = Stride[l - 1] * Chi
    BY <1>1, StackAssumption DEF Indices, Levels
<1>3. LevelIndex(a, l - 1) \in Nat
    BY <1>2, DivMod DEF LevelIndex
<1>4. LevelIndex(a, l) = LevelIndex(a, l - 1) \div Chi
    BY <1>2, DivDiv DEF LevelIndex
<1> QED
    BY <1>2, <1>3, <1>4, DivMod DEF ChildOffset, Offsets

(* So a packed entry, read at that offset, gives the label of the entry.   *)
LEMMA PackedGivesLabel ==
    ASSUME NEW a \in Indices(0), NEW l \in Levels, l > 0
    PROVE  Record(l, LevelIndex(a, l))[ChildOffset(LevelIndex(a, l - 1))]
             = pos[l - 1][LevelIndex(a, l - 1)]
<1>1. l - 1 \in Levels /\ l # 0
    BY StackAssumption DEF Levels
<1>2. LevelIndex(a, l - 1) \in Indices(l - 1)
    BY <1>1, IndexInLevel
<1> QED
    BY <1>1, <1>2, IndexSplits DEF Record, Packed

(* An entry of a level that fits its buckets is met on the path of its     *)
(* label: its slot is one of the slots of its leaf bucket.                 *)
LEMMA EntryOnPath ==
    ASSUME StackTypeOK, NEW l \in Levels, NEW i \in Indices(l),
           Fits(l, pos[l])
    PROVE  OnPath(l, pos[l][i], i)
<1> DEFINE leafOf == pos[l][i]
           here == Occupants(l, pos[l], leafOf)
           before == {j \in here : j < i}
           bucket == leafOf + Leaves[l]
<1>1. leafOf \in LeafLabels(l) /\ i \in here
    BY DEF StackTypeOK, Occupants
<1>2. /\ BucketSize[l] \in Nat \ {0} /\ Size[l] \in Nat
      /\ Depth[l] \in Nat /\ bucket \in Nat
    <2>1. /\ BucketSize[l] \in Nat \ {0} /\ Size[l] \in Nat
          /\ Depth[l] \in Nat /\ Leaves[l] \in Nat
        BY StackAssumption
    <2> QED
        BY <1>1, <2>1 DEF LeafLabels
<1>3. IsFiniteSet(here)
    <2>1. IsFiniteSet(0 .. Size[l] - 1)
        <3>1. 0 \in Int /\ Size[l] - 1 \in Int
            BY <1>2
        <3> QED
            BY <3>1, FS_Interval
    <2> QED
        BY <2>1, FS_Subset DEF Occupants, Indices
<1>4. Cardinality(here) <= BucketSize[l] /\ Cardinality(here) \in Nat
    BY <1>1, <1>3, FS_CardinalityType DEF Fits
<1>5. /\ Cardinality(before) \in Nat
      /\ Cardinality(before) < Cardinality(here)
    <2>1. before \in SUBSET here /\ i \notin before
        BY <1>2 DEF Indices, Occupants
    <2> HIDE DEF here, before
    <2>2. /\ IsFiniteSet(before)
          /\ Cardinality(before) <= Cardinality(here)
          /\ Cardinality(here) = Cardinality(before) => here = before
        BY <2>1, <1>3, FS_Subset
    <2>3. Cardinality(before) \in Nat
        BY <2>2, FS_CardinalityType
    <2> QED
        BY <1>1, <1>4, <2>1, <2>2, <2>3
<1>6. SlotOffset(l, i) \in Nat /\ SlotOffset(l, i) < BucketSize[l]
    BY <1>2, <1>4, <1>5 DEF SlotOffset
<1>7. BucketOf(l, i) = bucket
    <2>1. \A b \in Nat, s \in Nat \ {0}, o \in Nat :
             o < s => (b * s + o) \div s = b
        BY SMTT(30)
    <2> QED
        BY <1>2, <1>6, <2>1 DEF BucketOf, Slot
<1>8. bucket \in Path(l, leafOf)
    <2>1. 0 \in 0 .. Depth[l] /\ 2 ^ 0 = 1
        BY <1>2
    <2>2. bucket \div 1 = bucket
        BY <1>2
    <2> QED
        BY <2>1, <2>2 DEF Path
<1> QED
    BY <1>7, <1>8 DEF OnPath

-----------------------------------------------------------------------------
(* The steps of the machine keep the inductive invariant.                  *)

LEMMA InitInv == Init => IInv
<1> SUFFICES ASSUME Init PROVE IInv
    OBVIOUS
<1> USE DEF Init, StackInit
<1>1. StackTypeOK
    <2>1. ASSUME NEW l \in Levels
          PROVE  pos[l] \in [Indices(l) -> LeafLabels(l)]
        <3>1. Leaves[l] \in Nat \ {0}
            BY StackAssumption
        <3>2. 0 \in LeafLabels(l)
            BY <3>1 DEF LeafLabels
        <3> QED
            BY <3>2
    <2>2. 0 \in 0 .. Top + 1 /\ 0 \in 0 .. MaxAttempts
        BY StackAssumption
    <2> QED
        BY <2>1, <2>2 DEF StackTypeOK
<1>2. TypeOK
    <2>1. Top \in Levels /\ 0 \in 0 .. MaxAccesses
        BY StackAssumption, AccessAssumption DEF Levels
    <2> QED
        BY <1>1, <2>1 DEF TypeOK
<1>3. PlacedFits /\ BuildProgress
    BY StackAssumption DEF PlacedFits, BuildProgress, Levels
<1>4. ChainFollowsMap
    BY DEF ChainFollowsMap
<1>5. StashTrue
    BY DEF StashTrue, EmptySlot
<1>6. OpenedIsStashed /\ RealLeafOnce /\ ReadCorrect
    BY DEF OpenedIsStashed, RealLeafOnce, ReadCorrect
<1> QED
    BY <1>2, <1>3, <1>4, <1>5, <1>6 DEF IInv

(* Before the stack is served nothing has been stashed.                    *)
LEMMA NothingStashedBeforeServing ==
    ASSUME IInv, phase # "serve"
    PROVE  \A l \in Levels, n \in Accesses : ~ stash[l][n].valid
<1>1. served = 0 /\ ~busy
    BY DEF IInv, ChainFollowsMap
<1> QED
    BY <1>1, AccessAssumption DEF IInv, StashTrue, Passed, Accesses

LEMMA BuildInv == IInv /\ Build => IInv'
<1> SUFFICES ASSUME IInv, Build PROVE IInv'
    OBVIOUS
<1> USE DEF IInv
<1>1. UNCHANGED accessVars /\ phase = "build"
    BY DEF Build, PlaceLevel, RejectDraw
<1>2. ~busy /\ served = 0 /\ ~busy' /\ served' = 0
    BY <1>1 DEF ChainFollowsMap, accessVars
<1>3. built \in 0 .. Top /\ attempts \in 0 .. MaxAttempts - 1
    BY <1>1, StackAssumption DEF BuildProgress, TypeOK, StackTypeOK
<1>4. StackTypeOK' /\ PlacedFits' /\ BuildProgress'
    <2>1. CASE PlaceLevel
        <3>1. PICK map \in [Indices(built) -> LeafLabels(built)] :
                 Fits(built, map) /\ pos' = [pos EXCEPT ![built] = map]
            BY <2>1 DEF PlaceLevel
        <3>2. /\ built' = built + 1 /\ attempts' = 0
              /\ phase' = IF built = Top THEN "serve" ELSE "build"
            BY <2>1 DEF PlaceLevel
        <3>3. DOMAIN pos = Levels /\ built \in Levels
            BY <1>3 DEF TypeOK, StackTypeOK, Levels
        <3>4. /\ DOMAIN pos' = Levels
              /\ \A l \in Levels : pos'[l] = IF l = built THEN map ELSE pos[l]
            BY <3>1, <3>3
        <3>5. StackTypeOK'
            <4>1. \A l \in Levels : pos'[l] \in [Indices(l) -> LeafLabels(l)]
                BY <3>1, <3>4 DEF TypeOK, StackTypeOK
            <4>2. built' \in 0 .. Top + 1 /\ attempts' \in 0 .. MaxAttempts
                BY <1>3, <3>2, StackAssumption
            <4> QED
                BY <3>2, <3>4, <4>1, <4>2 DEF StackTypeOK
        <3>6. PlacedFits'
            <4> SUFFICES ASSUME NEW l \in Levels, l < built'
                         PROVE  Fits(l, pos'[l])
                BY DEF PlacedFits, Fits, Occupants
            <4>1. CASE l = built
                BY <4>1, <3>1, <3>4
            <4>2. CASE l # built
                <5>1. l < built
                    BY <4>2, <3>2, <1>3, StackAssumption DEF Levels
                <5> QED
                    BY <4>2, <5>1, <3>4 DEF PlacedFits
            <4> QED
                BY <4>1, <4>2
        <3>7. BuildProgress'
            BY <1>3, <3>2, StackAssumption DEF BuildProgress
        <3> QED
            BY <3>5, <3>6, <3>7
    <2>2. CASE RejectDraw
        <3>1. /\ attempts' = attempts + 1 /\ UNCHANGED <<pos, built>>
              /\ phase' = IF attempts + 1 = MaxAttempts THEN "aborted" ELSE "build"
            BY <2>2 DEF RejectDraw
        <3>2. attempts' \in 0 .. MaxAttempts
            BY <1>3, <3>1, StackAssumption
        <3>3. StackTypeOK'
            BY <3>1, <3>2 DEF TypeOK, StackTypeOK
        <3>4. PlacedFits'
            BY <3>1 DEF PlacedFits, Fits, Occupants
        <3>5. BuildProgress'
            BY <1>3, <3>1, StackAssumption DEF BuildProgress
        <3> QED
            BY <3>3, <3>4, <3>5
    <2> QED
        BY <2>1, <2>2 DEF Build
<1>5. TypeOK'
    BY <1>1, <1>4 DEF TypeOK, accessVars
<1>6. ChainFollowsMap'
    BY <1>2 DEF ChainFollowsMap
<1>7. StashTrue'
    <2>1. \A l \in Levels, n \in Accesses : ~ stash'[l][n].valid
        BY <1>1, NothingStashedBeforeServing DEF accessVars
    <2> QED
        BY <2>1 DEF StashTrue
<1>8. OpenedIsStashed' /\ RealLeafOnce' /\ ReadCorrect'
    BY <1>1 DEF OpenedIsStashed, RealLeafOnce, ReadCorrect, accessVars, InRange
<1> QED
    BY <1>4, <1>5, <1>6, <1>7, <1>8

(* Facts about the entry an access in progress wants.                      *)
LEMMA WantedFacts ==
    ASSUME IInv, busy
    PROVE  /\ phase = "serve" /\ built = Top + 1
           /\ served \in Accesses
           /\ Address(request) \in Indices(0)
           /\ Wanted \in Indices(level)
           /\ OnPath(level, leaf, Wanted)
<1> USE DEF IInv
<1>1. phase = "serve" /\ built = Top + 1 /\ served \in Accesses
    BY AccessAssumption DEF ChainFollowsMap, BuildProgress, TypeOK, Accesses
<1>2. Address(request) \in Indices(0)
    BY StackAssumption DEF Address, InRange, Indices, Levels
<1>3. level \in Levels
    BY DEF TypeOK
<1>4. Wanted \in Indices(level)
    BY <1>2, <1>3, IndexInLevel DEF Wanted
<1>5. Fits(level, pos[level])
    BY <1>1, <1>3, StackAssumption DEF PlacedFits, Levels
<1>6. OnPath(level, pos[level][Wanted], Wanted)
    BY <1>3, <1>4, <1>5, EntryOnPath DEF TypeOK
<1> QED
    BY <1>1, <1>2, <1>4, <1>6 DEF ChainFollowsMap

LEMMA StartInv ==
    ASSUME IInv, NEW a \in Requests, StartAccess(a)
    PROVE  IInv'
<1> USE DEF IInv
<1>1. /\ phase = "serve" /\ ~busy /\ served < MaxAccesses
      /\ busy' = TRUE /\ request' = a /\ level' = Top
      /\ leaf' = pos[Top][LevelIndex(Address(a), Top)]
      /\ chainValid' = InRange(a)
      /\ UNCHANGED <<stackVars, served, stash, opened, answer>>
    BY DEF StartAccess
<1>2. UNCHANGED <<pos, built, attempts, phase>>
    BY <1>1 DEF stackVars
<1>3. Top \in Levels
    BY StackAssumption DEF Levels
<1>4. leaf' \in Nat
    <2>1. Address(a) \in Indices(0)
        BY StackAssumption DEF Address, InRange, Indices, Levels
    <2>2. LevelIndex(Address(a), Top) \in Indices(Top)
        BY <2>1, <1>3, IndexInLevel
    <2>3. pos[Top] \in [Indices(Top) -> LeafLabels(Top)]
        BY <1>3 DEF TypeOK, StackTypeOK
    <2> QED
        BY <1>1, <2>2, <2>3 DEF LeafLabels
<1>5. StackTypeOK' /\ PlacedFits' /\ BuildProgress'
    BY <1>2 DEF TypeOK, StackTypeOK, PlacedFits, BuildProgress, Fits, Occupants
<1>6. TypeOK'
    <2>1. chainValid' \in BOOLEAN
        BY <1>1 DEF InRange
    <2> QED
        BY <1>1, <1>3, <1>4, <1>5, <2>1 DEF TypeOK
<1>7. ChainFollowsMap'
    <2>1. Wanted' = LevelIndex(Address(a), Top)
        BY <1>1 DEF Wanted, LevelIndex, Address, InRange
    <2>2. chainValid' <=> InRange(request')
        BY <1>1 DEF InRange
    <2> QED
        BY <1>1, <1>2, <2>1, <2>2 DEF ChainFollowsMap, InRange
<1>8. StashTrue'
    <2>1. \A l \in Levels, n \in Accesses : Passed(n, l) => Passed(n, l)'
        BY <1>1 DEF Passed
    <2> QED
        BY <1>1, <1>2, <2>1 DEF StashTrue, Record, Packed
<1>9. OpenedIsStashed' /\ RealLeafOnce' /\ ReadCorrect'
    BY <1>1 DEF OpenedIsStashed, RealLeafOnce, ReadCorrect, InRange
<1> QED
    BY <1>5, <1>6, <1>7, <1>8, <1>9

(* Reading a level with the true record of the wanted entry in hand leads  *)
(* to the true label of the entry below, or to a right answer.             *)
LEMMA DescendCorrect ==
    ASSUME IInv, busy, UNCHANGED stackVars,
           NEW value, value = Record(level, Wanted),
           NEW valid, valid = chainValid,
           Descend(value, valid)
    PROVE  /\ served' \in 0 .. MaxAccesses
           /\ busy' \in BOOLEAN
           /\ request' = request
           /\ level' \in Levels
           /\ leaf' \in Nat
           /\ chainValid' \in BOOLEAN
           /\ ChainFollowsMap'
           /\ ReadCorrect'
           /\ ~ Passed(served, level)
           /\ \A n \in Accesses, l \in Levels :
                 Passed(n, l)' <=> Passed(n, l) \/ (n = served /\ l = level)
<1> USE DEF IInv
<1>1. /\ served \in Accesses /\ level \in Levels /\ Address(request) \in Indices(0)
      /\ phase = "serve" /\ served \in Nat /\ level \in Nat
    BY WantedFacts, AccessAssumption DEF TypeOK, Accesses, Levels
<1>2. UNCHANGED <<pos, phase, built>>
    BY DEF stackVars
<1>3. CASE level > 0
    <2>1. /\ leaf' = value[ChildOffset(LevelIndex(Address(request), level - 1))]
          /\ level' = level - 1 /\ chainValid' = chainValid
          /\ UNCHANGED <<served, busy, request, answer>>
        BY <1>3 DEF Descend
    <2>2. level - 1 \in Levels
        BY <1>1, <1>3, StackAssumption DEF Levels
    <2>3. Wanted' = LevelIndex(Address(request), level - 1)
        BY <2>1 DEF Wanted, LevelIndex, Address, InRange
    <2>4. leaf' = pos[level - 1][Wanted']
        BY <1>1, <1>3, <2>1, <2>3, PackedGivesLabel DEF Wanted
    <2>5. leaf' \in Nat
        <3>1. LevelIndex(Address(request), level - 1) \in Indices(level - 1)
            BY <1>1, <2>2, IndexInLevel
        <3>2. pos[level - 1] \in [Indices(level - 1) -> LeafLabels(level - 1)]
            BY <2>2 DEF TypeOK, StackTypeOK
        <3> QED
            BY <3>1, <3>2, <2>3, <2>4 DEF LeafLabels
    <2>6. ChainFollowsMap'
        BY <1>1, <1>2, <2>1, <2>4 DEF ChainFollowsMap, InRange
    <2>7. ReadCorrect'
        BY <2>1 DEF ReadCorrect, InRange
    <2>8. /\ ~ Passed(served, level)
          /\ \A n \in Accesses, l \in Levels :
                Passed(n, l)' <=> Passed(n, l) \/ (n = served /\ l = level)
        BY <1>1, <2>1 DEF Passed, Levels
    <2> QED
        BY <2>1, <2>2, <2>5, <2>6, <2>7, <2>8 DEF TypeOK
<1>4. CASE level = 0
    <2>1. /\ answer' = [address |-> request, valid |-> chainValid, value |-> value]
          /\ busy' = FALSE /\ served' = served + 1 /\ chainValid' = chainValid
          /\ UNCHANGED <<request, level, leaf>>
        BY <1>4 DEF Descend
    <2>2. served' \in 0 .. MaxAccesses
        BY <1>1, <2>1, AccessAssumption DEF Accesses
    <2>3. ChainFollowsMap'
        BY <1>1, <1>2, <2>1 DEF ChainFollowsMap
    <2>4. ReadCorrect'
        <3>1. chainValid <=> InRange(request)
            BY DEF ChainFollowsMap
        <3>2. InRange(request) => Wanted = request
            <4>1. ASSUME InRange(request) PROVE request \div 1 = request
                BY <4>1 DEF InRange, Indices
            <4> QED
                BY <1>4, <4>1, StackAssumption DEF Wanted, Address, LevelIndex
        <3>3. value = Table[Wanted]
            BY <1>4 DEF Record
        <3> QED
            BY <2>1, <3>1, <3>2, <3>3 DEF ReadCorrect, InRange
    <2>5. /\ ~ Passed(served, level)
          /\ \A n \in Accesses, l \in Levels :
                Passed(n, l)' <=> Passed(n, l) \/ (n = served /\ l = level)
        BY <1>1, <1>4, <2>1 DEF Passed, Levels, Accesses
    <2> QED
        BY <2>1, <2>2, <2>3, <2>4, <2>5 DEF TypeOK
<1> QED
    BY <1>1, <1>3, <1>4

LEMMA HitInv == IInv /\ ServeFromStash => IInv'
<1> SUFFICES ASSUME IInv, ServeFromStash PROVE IInv'
    OBVIOUS
<1> USE DEF IInv
<1>1. busy /\ UNCHANGED stackVars /\ UNCHANGED <<pos, built, attempts, phase>>
    BY DEF ServeFromStash, stackVars
<1>2. PICK n \in Hits : Descend(stash[level][n].value, chainValid)
    BY DEF ServeFromStash
<1>3. PICK label \in LeafLabels(level) : Open(label, FALSE)
    BY DEF ServeFromStash
<1>4. stash' = [stash EXCEPT ![level][served] = EmptySlot(level)]
    BY DEF ServeFromStash
<1>5. served \in Accesses /\ level \in Levels /\ Wanted \in Nat
    <2>1. \A l \in Levels : Indices(l) \subseteq Nat
        BY DEF Indices
    <2> QED
        BY <1>1, <2>1, WantedFacts DEF TypeOK
<1>6. stash[level][n].value = Record(level, Wanted)
    <2>1. n \in Accesses
        BY <1>2, <1>5, AccessAssumption DEF Hits, Accesses
    <2> QED
        BY <1>2, <1>5, <2>1 DEF Hits, StashTrue
<1>7. /\ served' \in 0 .. MaxAccesses /\ busy' \in BOOLEAN /\ request' = request
      /\ level' \in Levels /\ leaf' \in Nat /\ chainValid' \in BOOLEAN
      /\ ChainFollowsMap' /\ ReadCorrect'
      /\ ~ Passed(served, level)
      /\ \A m \in Accesses, l \in Levels :
            Passed(m, l)' <=> Passed(m, l) \/ (m = served /\ l = level)
    BY <1>1, <1>2, <1>6, DescendCorrect
<1>8. StackTypeOK' /\ PlacedFits' /\ BuildProgress'
    BY <1>1 DEF TypeOK, StackTypeOK, PlacedFits, BuildProgress, Fits, Occupants
<1>9. /\ DOMAIN stash' = Levels
      /\ \A l \in Levels : DOMAIN stash'[l] = Accesses
      /\ \A l \in Levels, m \in Accesses :
            stash'[l][m] = IF l = level /\ m = served THEN EmptySlot(level)
                                                      ELSE stash[l][m]
    BY <1>4, <1>5 DEF TypeOK
<1>10. ~ EmptySlot(level).valid
    BY DEF EmptySlot
<1>11. opened' = opened \cup
          {[access |-> served, level |-> level, index |-> Wanted,
            leaf |-> label, real |-> FALSE]}
    BY <1>3 DEF Open
<1>12. TypeOK'
    <2>1. label \in Nat
        BY <1>3 DEF LeafLabels
    <2>2. [access |-> served, level |-> level, index |-> Wanted,
           leaf |-> label, real |-> FALSE] \in Openings
        BY <1>5, <2>1 DEF Openings
    <2>3. opened' \subseteq Openings
        BY <1>11, <2>2 DEF TypeOK
    <2> QED
        BY <1>7, <1>8, <1>9, <2>3 DEF TypeOK
<1>13. StashTrue'
    <2> SUFFICES ASSUME NEW l \in Levels, NEW m \in Accesses, stash'[l][m].valid
                 PROVE  /\ Passed(m, l)'
                        /\ stash'[l][m].index \in Indices(l)
                        /\ (stash[l][m].value = Record(l, stash[l][m].index))'
        BY DEF StashTrue, Indices
    <2>1. stash'[l][m] = stash[l][m]
        BY <1>9, <1>10
    <2> QED
        BY <1>1, <1>7, <2>1 DEF StashTrue, Record, Packed
<1>14. OpenedIsStashed'
    <2> SUFFICES ASSUME NEW x \in opened, x.real
                 PROVE  /\ stash'[x.level][x.access].valid
                        /\ stash'[x.level][x.access].index = x.index
        BY <1>11 DEF OpenedIsStashed
    <2>1. x.level \in Levels /\ x.access \in Accesses
        BY DEF TypeOK, Openings
    <2>2. stash[x.level][x.access].valid
        BY DEF OpenedIsStashed
    <2>3. ~ (x.level = level /\ x.access = served)
        BY <1>7, <2>1, <2>2 DEF StashTrue
    <2> QED
        BY <1>9, <2>1, <2>3 DEF OpenedIsStashed
<1>15. RealLeafOnce'
    BY <1>11 DEF RealLeafOnce
<1> QED
    BY <1>7, <1>8, <1>12, <1>13, <1>14, <1>15

LEMMA FetchInv == IInv /\ FetchFromPath => IInv'
<1> SUFFICES ASSUME IInv, FetchFromPath PROVE IInv'
    OBVIOUS
<1> USE DEF IInv
<1> DEFINE kept == [valid |-> TRUE, index |-> Wanted,
                    value |-> Record(level, Wanted)]
<1>1. busy /\ UNCHANGED stackVars /\ UNCHANGED <<pos, built, attempts, phase>>
    BY DEF FetchFromPath, stackVars
<1>2. OnPath(level, leaf, Wanted)
    BY <1>1, WantedFacts
<1>3. /\ Hits = {} /\ Open(leaf, TRUE)
      /\ Descend(Record(level, Wanted), chainValid /\ TRUE)
      /\ stash' = [stash EXCEPT ![level][served] = kept]
    BY <1>2 DEF FetchFromPath
<1>4. (chainValid /\ TRUE) = chainValid
    BY DEF TypeOK
<1>5. served \in Accesses /\ level \in Levels /\ Wanted \in Indices(level)
      /\ Wanted \in Nat
    <2>1. \A l \in Levels : Indices(l) \subseteq Nat
        BY DEF Indices
    <2> QED
        BY <1>1, <2>1, WantedFacts DEF TypeOK
<1>6. /\ served' \in 0 .. MaxAccesses /\ busy' \in BOOLEAN /\ request' = request
      /\ level' \in Levels /\ leaf' \in Nat /\ chainValid' \in BOOLEAN
      /\ ChainFollowsMap' /\ ReadCorrect'
      /\ ~ Passed(served, level)
      /\ \A m \in Accesses, l \in Levels :
            Passed(m, l)' <=> Passed(m, l) \/ (m = served /\ l = level)
    BY <1>1, <1>3, <1>4, DescendCorrect
<1>7. StackTypeOK' /\ PlacedFits' /\ BuildProgress'
    BY <1>1 DEF TypeOK, StackTypeOK, PlacedFits, BuildProgress, Fits, Occupants
<1>8. /\ DOMAIN stash' = Levels
      /\ \A l \in Levels : DOMAIN stash'[l] = Accesses
      /\ \A l \in Levels, m \in Accesses :
            stash'[l][m] = IF l = level /\ m = served THEN kept ELSE stash[l][m]
    <2> HIDE DEF kept
    <2> QED
        BY <1>3, <1>5 DEF TypeOK
<1>9. opened' = opened \cup
         {[access |-> served, level |-> level, index |-> Wanted,
           leaf |-> leaf, real |-> TRUE]}
    BY <1>3 DEF Open
<1>10. TypeOK'
    <2>1. [access |-> served, level |-> level, index |-> Wanted,
           leaf |-> leaf, real |-> TRUE] \in Openings
        BY <1>5 DEF TypeOK, Openings
    <2>2. opened' \subseteq Openings
        BY <1>9, <2>1 DEF TypeOK
    <2> QED
        BY <1>6, <1>7, <1>8, <2>2 DEF TypeOK
<1>11. StashTrue'
    <2> SUFFICES ASSUME NEW l \in Levels, NEW m \in Accesses, stash'[l][m].valid
                 PROVE  /\ Passed(m, l)'
                        /\ stash'[l][m].index \in Indices(l)
                        /\ (stash[l][m].value = Record(l, stash[l][m].index))'
        BY DEF StashTrue, Indices
    <2>1. CASE l = level /\ m = served
        <3>1. stash'[l][m].index = Wanted /\ stash'[l][m].value = Record(l, Wanted)
            BY <1>8, <2>1
        <3>2. Record(l, Wanted) =
                 IF l = 0 THEN Table[Wanted]
                 ELSE [k \in Offsets |->
                         IF Wanted * Chi + k \in Indices(l - 1)
                         THEN pos'[l - 1][Wanted * Chi + k] ELSE 0]
            BY <1>1 DEF Record, Packed
        <3>3. (stash[l][m].value = Record(l, stash[l][m].index))'
            BY <3>1, <3>2 DEF Record, Packed
        <3> QED
            BY <1>5, <1>6, <2>1, <3>1, <3>3
    <2>2. CASE ~ (l = level /\ m = served)
        <3>1. stash'[l][m] = stash[l][m]
            BY <1>8, <2>2
        <3> QED
            BY <1>1, <1>6, <3>1 DEF StashTrue, Record, Packed
    <2> QED
        BY <2>1, <2>2
<1>12. OpenedIsStashed'
    <2> SUFFICES ASSUME NEW x \in opened', x.real
                 PROVE  /\ stash'[x.level][x.access].valid
                        /\ stash'[x.level][x.access].index = x.index
        BY DEF OpenedIsStashed
    <2>1. CASE x \in opened
        <3>1. x.level \in Levels /\ x.access \in Accesses
            BY <2>1 DEF TypeOK, Openings
        <3>2. ~ (x.level = level /\ x.access = served)
            BY <1>6, <2>1, <3>1 DEF StashTrue, OpenedIsStashed
        <3> QED
            BY <1>8, <2>1, <3>1, <3>2 DEF OpenedIsStashed
    <2>2. CASE x \notin opened
        BY <1>5, <1>8, <1>9, <2>2
    <2> QED
        BY <2>1, <2>2
<1>13. RealLeafOnce'
    <2>1. ASSUME NEW x \in opened, x.real, x.level = level, x.index = Wanted
          PROVE  FALSE
        <3>1. x.level \in Levels /\ x.access \in Accesses
            BY <2>1 DEF TypeOK, Openings
        <3>2. /\ stash[level][x.access].valid
              /\ stash[level][x.access].index = Wanted
            BY <2>1 DEF OpenedIsStashed
        <3>3. x.access < served
            BY <1>6, <2>1, <3>1, <3>2 DEF StashTrue, Passed
        <3>4. x.access \in Hits
            BY <1>5, <3>1, <3>2, <3>3 DEF Hits, Accesses
        <3> QED
            BY <1>3, <3>4
    <2> QED
        BY <1>9, <2>1 DEF RealLeafOnce
<1> QED
    BY <1>6, <1>7, <1>10, <1>11, <1>12, <1>13

LEMMA StutterInv == IInv /\ UNCHANGED vars => IInv'
    BY DEF IInv, vars, stackVars, accessVars, TypeOK, StackTypeOK, PlacedFits,
           BuildProgress, Fits, Occupants, ChainFollowsMap, Wanted, LevelIndex,
           Address, InRange, StashTrue, Passed, Record, Packed,
           OpenedIsStashed, RealLeafOnce, ReadCorrect

-----------------------------------------------------------------------------
(* The inductive invariant holds in every reachable state: whatever the    *)
(* owner drew and whatever addresses are asked for, the label in hand is   *)
(* the true one, the stash holds true records, every real opening left its *)
(* entry in the stash.                                                     *)
THEOREM InductiveInvariant == Spec => []IInv
<1>1. IInv /\ [Next]_vars => IInv'
    <2> SUFFICES ASSUME IInv, [Next]_vars PROVE IInv'
        OBVIOUS
    <2>1. CASE Build
        BY <2>1, BuildInv
    <2>2. CASE \E a \in Requests : StartAccess(a)
        BY <2>2, StartInv
    <2>3. CASE ServeFromStash
        BY <2>3, HitInv
    <2>4. CASE FetchFromPath
        BY <2>4, FetchInv
    <2>5. CASE Stopped \/ UNCHANGED vars
        BY <2>5, StutterInv DEF Stopped
    <2> QED
        BY <2>1, <2>2, <2>3, <2>4, <2>5 DEF Next, ReadLevel
<1> QED
    BY <1>1, InitInv, PTL DEF Spec

(* Every variable of the stack and of the access machine keeps its type.   *)
THEOREM TypeCorrect == Spec => []TypeOK
<1>1. IInv => TypeOK
    BY DEF IInv
<1> QED
    BY <1>1, InductiveInvariant, PTL

(* For every stack shape and every access budget, the real label of an     *)
(* entry is opened by at most one access of the epoch at each level.       *)
THEOREM LeavesOpenedOnce == Spec => []RealLeafOnce
<1>1. IInv => RealLeafOnce
    BY DEF IInv
<1> QED
    BY <1>1, InductiveInvariant, PTL

(* For every stack shape and every table, a valid answer is the record of  *)
(* the address asked for, and every address of the table gets one.         *)
THEOREM ReadsCorrect == Spec => []ReadCorrect
<1>1. IInv => ReadCorrect
    BY DEF IInv
<1> QED
    BY <1>1, InductiveInvariant, PTL

-----------------------------------------------------------------------------
\* What access n opened at level l.
OpenedBy(n, l) == {x \in opened : x.access = n /\ x.level = l}

\* A level that was passed opened one label, a level ahead opened none.
OneOpening ==
    \A n \in Accesses, l \in Levels :
        IF Passed(n, l) THEN \E x : OpenedBy(n, l) = {x} ELSE OpenedBy(n, l) = {}

(* Reading a level opens a label there, whether it hits or misses.         *)
LEMMA ReadOpens ==
    ASSUME IInv, OneOpening, busy, NEW label, NEW real, NEW value, NEW valid,
           Open(label, real), Descend(value, valid)
    PROVE  OneOpening'
<1> DEFINE new == [access |-> served, level |-> level, index |-> Wanted,
                   leaf |-> label, real |-> real]
<1>1. /\ served \in Accesses /\ served \in Nat /\ level \in Levels /\ level \in Nat
    BY StackAssumption, AccessAssumption DEF IInv, TypeOK, ChainFollowsMap, Accesses, Levels
<1>2. opened' = opened \cup {new} /\ new.access = served /\ new.level = level
    BY DEF Open
<1> HIDE DEF new
<1>3. ASSUME NEW n \in Accesses, NEW l \in Levels
      PROVE  Passed(n, l)' <=> Passed(n, l) \/ (n = served /\ l = level)
    <2>1. n \in Nat /\ l \in Nat
        BY DEF Accesses, Levels
    <2>2. CASE level > 0
        <3>1. level' = level - 1 /\ served' = served /\ busy' = busy
            BY <2>2 DEF Descend
        <3> QED
            BY <1>1, <2>1, <2>2, <3>1 DEF Passed
    <2>3. CASE ~(level > 0)
        <3>1. level = 0 /\ served' = served + 1 /\ busy' = FALSE
            BY <1>1, <2>3 DEF Descend
        <3> QED
            BY <1>1, <2>1, <3>1 DEF Passed
    <2> QED
        BY <2>2, <2>3
<1>4. OpenedBy(served, level) = {}
    <2>1. ~Passed(served, level)
        BY <1>1 DEF Passed
    <2> QED
        BY <1>1, <2>1 DEF OneOpening
<1>5. ASSUME NEW n \in Accesses, NEW l \in Levels
      PROVE  IF Passed(n, l)' THEN \E x : OpenedBy(n, l)' = {x} ELSE OpenedBy(n, l)' = {}
    <2>1. CASE n = served /\ l = level
        <3>1. OpenedBy(n, l)' = {new}
            BY <1>2, <1>4, <2>1 DEF OpenedBy
        <3> QED
            BY <1>3, <2>1, <3>1
    <2>2. CASE ~(n = served /\ l = level)
        <3>1. OpenedBy(n, l)' = OpenedBy(n, l)
            BY <1>2, <2>2 DEF OpenedBy
        <3>2. Passed(n, l)' <=> Passed(n, l)
            BY <1>3, <2>2
        <3> QED
            BY <3>1, <3>2 DEF OneOpening
    <2> QED
        BY <2>1, <2>2
<1> QED
    BY <1>5 DEF OneOpening

LEMMA OneOpeningKept == IInv /\ OneOpening /\ [Next]_vars => OneOpening'
<1> SUFFICES ASSUME IInv, OneOpening, [Next]_vars PROVE OneOpening'
    OBVIOUS
<1>1. CASE UNCHANGED <<served, busy, level, opened>>
    BY <1>1 DEF OneOpening, Passed, OpenedBy
<1>2. CASE Build
    BY <1>1, <1>2 DEF Build, accessVars
<1>3. ASSUME NEW a \in Requests, StartAccess(a)
      PROVE  OneOpening'
    <2>1. served' = served /\ ~busy /\ level' = Top /\ opened' = opened
        BY <1>3 DEF StartAccess
    <2>2. ASSUME NEW n \in Accesses, NEW l \in Levels
          PROVE  Passed(n, l)' <=> Passed(n, l)
        <3>1. ~(Top < l)
            BY StackAssumption DEF Levels
        <3> QED
            BY <2>1, <3>1 DEF Passed
    <2> QED
        BY <2>1, <2>2 DEF OneOpening, OpenedBy
<1>4. CASE ServeFromStash
    <2>1. busy
        BY <1>4 DEF ServeFromStash
    <2>2. PICK n \in Hits : Descend(stash[level][n].value, chainValid)
        BY <1>4 DEF ServeFromStash
    <2>3. PICK label \in LeafLabels(level) : Open(label, FALSE)
        BY <1>4 DEF ServeFromStash
    <2> QED
        BY <2>1, <2>2, <2>3, ReadOpens
<1>5. CASE FetchFromPath
    <2>1. /\ busy /\ Open(leaf, TRUE)
          /\ \E value, valid : Descend(value, valid)
        BY <1>5 DEF FetchFromPath
    <2> QED
        BY <2>1, ReadOpens
<1>6. CASE Stopped \/ UNCHANGED vars
    BY <1>1, <1>6 DEF Stopped, vars, accessVars
<1> QED
    BY <1>2, <1>3, <1>4, <1>5, <1>6 DEF Next, ReadLevel

(* For every stack shape, table and request sequence, an access that is    *)
(* over has opened one label at every level, on a hit as on a miss.        *)
THEOREM OpeningsScheduled == Spec => []FixedSchedule
<1>1. Init => OneOpening
    <2> SUFFICES ASSUME Init PROVE OneOpening
        OBVIOUS
    <2>1. \A n \in Accesses, l \in Levels : ~Passed(n, l)
        BY DEF Init, Passed, Accesses
    <2> QED
        BY <2>1 DEF Init, OneOpening, OpenedBy
<1>2. IInv /\ OneOpening => FixedSchedule
    <2> SUFFICES ASSUME IInv, OneOpening, NEW n \in 0 .. served - 1, NEW l \in Levels
                 PROVE  Cardinality({x \in opened : x.access = n /\ x.level = l}) = 1
        BY DEF FixedSchedule
    <2>1. n \in Accesses /\ Passed(n, l)
        BY StackAssumption, AccessAssumption DEF IInv, TypeOK, Accesses, Passed
    <2>2. PICK x : OpenedBy(n, l) = {x}
        BY <2>1 DEF OneOpening
    <2> QED
        BY <2>2, FS_Singleton DEF OpenedBy
<1>3. IInv /\ OneOpening /\ [Next]_vars => OneOpening'
    BY OneOpeningKept
<1> QED
    BY <1>1, <1>2, <1>3, InductiveInvariant, PTL DEF Spec

-----------------------------------------------------------------------------
(* Reading a level is a step of the abstract store: the last one replies,  *)
(* the others change nothing the store can see.                            *)
LEMMA DescendImplementsStore ==
    ASSUME IInv, busy, UNCHANGED stackVars,
           NEW value, value = Record(level, Wanted),
           NEW valid, valid = chainValid,
           Descend(value, valid)
    PROVE  [Store!Next]_(Store!vars)
<1> USE DEF IInv
<1>1. CASE level > 0
    BY <1>1 DEF Descend, Store!vars
<1>2. CASE level = 0
    <2>1. /\ answer' = [address |-> request, valid |-> chainValid, value |-> value]
          /\ busy' = FALSE /\ served' = served + 1
        BY <1>2 DEF Descend
    <2>2. request \in Requests /\ (chainValid <=> InRange(request))
        BY DEF ChainFollowsMap
    <2>3. /\ value = Table[Address(request)]
          /\ Address(request) \in DOMAIN Table
        <3>1. Address(request) \in Indices(0)
            BY WantedFacts
        <3>2. \A a \in Indices(0) : a \div 1 = a
            BY DEF Indices
        <3>3. Wanted = Address(request)
            BY <1>2, <3>1, <3>2, StackAssumption DEF Wanted, LevelIndex
        <3> QED
            BY <1>2, <3>1, <3>3, StackAssumption DEF Record
    <2>4. answer' \in Store!Answers(request)
        <3>1. CASE InRange(request)
            <4>1. chainValid = TRUE
                BY <2>2, <3>1 DEF TypeOK
            <4>2. Address(request) = request
                BY <3>1 DEF Address
            <4> QED
                BY <2>1, <2>3, <4>1, <4>2 DEF Store!Answers
        <3>2. CASE ~ InRange(request)
            <4>1. chainValid = FALSE
                BY <2>2, <3>2 DEF TypeOK
            <4>2. request \notin DOMAIN Table
                BY <3>2, StackAssumption DEF InRange
            <4> QED
                BY <2>1, <2>3, <4>1, <4>2 DEF Store!Answers
        <3> QED
            BY <3>1, <3>2
    <2>5. Store!Reply(request)
        BY <2>1, <2>4 DEF Store!Reply
    <2> QED
        BY <2>2, <2>5 DEF Store!Next
<1> QED
    BY <1>1, <1>2 DEF TypeOK, Levels

(* The recursive ORAM implements the plain read-only table: seen from the  *)
(* circuit, trees, labels, stashes and dummy openings do not exist.        *)
THEOREM StackImplementsStore == Spec => StoreSpec
<1>1. Init => Store!Init
    BY DEF Init, Store!Init, NoAnswer, Store!NoAnswer
<1>2. IInv /\ [Next]_vars => [Store!Next]_(Store!vars)
    <2> SUFFICES ASSUME IInv, [Next]_vars PROVE [Store!Next]_(Store!vars)
        OBVIOUS
    <2>1. CASE Build
        BY <2>1 DEF Build, accessVars, Store!vars
    <2>2. ASSUME NEW a \in Requests, StartAccess(a)
          PROVE  [Store!Next]_(Store!vars)
        <3>1. Store!Ask(a)
            BY <2>2 DEF StartAccess, Store!Ask
        <3> QED
            BY <3>1 DEF Store!Next
    <2>3. CASE ServeFromStash
        <3>1. busy /\ UNCHANGED stackVars
            BY <2>3 DEF ServeFromStash
        <3>2. PICK n \in Hits : Descend(stash[level][n].value, chainValid)
            BY <2>3 DEF ServeFromStash
        <3>3. stash[level][n].value = Record(level, Wanted)
            <4>1. n \in Accesses /\ level \in Levels
                BY <3>1, <3>2, WantedFacts, AccessAssumption
                DEF IInv, TypeOK, Hits, Accesses
            <4> QED
                BY <3>2, <4>1 DEF IInv, Hits, StashTrue
        <3> QED
            BY <3>1, <3>2, <3>3, DescendImplementsStore
    <2>4. CASE FetchFromPath
        <3>1. busy /\ UNCHANGED stackVars
            BY <2>4 DEF FetchFromPath
        <3>2. OnPath(level, leaf, Wanted)
            BY <3>1, WantedFacts
        <3>3. Descend(Record(level, Wanted), chainValid /\ TRUE)
            BY <2>4, <3>2 DEF FetchFromPath
        <3>4. (chainValid /\ TRUE) = chainValid
            BY DEF IInv, TypeOK
        <3> QED
            BY <3>1, <3>3, <3>4, DescendImplementsStore
    <2>5. CASE Stopped \/ UNCHANGED vars
        BY <2>5 DEF Stopped, vars, accessVars, Store!vars
    <2> QED
        BY <2>1, <2>2, <2>3, <2>4, <2>5 DEF Next, ReadLevel
<1> QED
    BY <1>1, <1>2, InductiveInvariant, PTL DEF Spec, StoreSpec, Store!Spec
=============================================================================
