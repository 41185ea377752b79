-------------------------- MODULE RelationPages_proofs --------------------------
(***************************************************************************)
(* Proofs about the owners' paged layouts, for any federation, edge files, *)
(* page size, widths and budget: what an owner has placed reads back       *)
(* through its descriptor and its window of pages as exactly the sorted    *)
(* edges of the key, and pages, descriptors and pools keep their shape.    *)
(* One lemma for each step of the layout; the components that lay out      *)
(* pages, PagedDirectories and TwoHopRetrieval, cite them for their own    *)
(* steps.                                                                  *)
(***************************************************************************)
EXTENDS RelationPages, FiniteSetTheorems, WellFoundedInduction, TLAPS

-----------------------------------------------------------------------------
(* Natural numbers.                                                        *)

(* Every non-empty set of naturals has a least element.                    *)
LEMMA LeastNatural ==
    ASSUME NEW S \in SUBSET Nat, S # {}
    PROVE  \E m \in S : \A k \in S : m <= k
<1> DEFINE R == OpToRel(<, Nat)
<1>1. IsWellFoundedOn(R, Nat)
    BY NatLessThanWellFounded
<1>2. PICK m \in S : \A k \in S : <<k, m>> \notin R
    <2> HIDE DEF R
    <2> QED
        BY <1>1, WFMin
<1>3. \A k \in S : ~ (k < m)
    BY <1>2 DEF OpToRel
<1> QED
    BY <1>3

(* Induction on a set of naturals: the minimal counterexample is neither 0 *)
(* nor a successor.                                                        *)
LEMMA NatSetInduction ==
    ASSUME NEW S \in SUBSET Nat, 0 \in S, \A n \in S : n + 1 \in S
    PROVE  S = Nat
<1> SUFFICES ASSUME Nat \ S # {} PROVE FALSE
    OBVIOUS
<1>1. PICK m \in Nat \ S : \A k \in Nat \ S : m <= k
    BY LeastNatural
<1>2. m # 0 /\ m - 1 \in Nat /\ m - 1 \in S
    BY <1>1
<1> QED
    BY <1>1, <1>2

(* Quotient and remainder recombine.                                       *)
LEMMA DivMod ==
    ASSUME NEW a \in Nat, NEW c \in Nat \ {0}
    PROVE  /\ (a \div c) * c + (a % c) = a
           /\ a % c \in 0 .. c - 1
           /\ a \div c \in Nat
    BY SMTT(30)

(* Multiplication distributes over a step of one and is monotone.          *)
LEMMA Products ==
    ASSUME NEW a \in Nat, NEW b \in Nat, NEW c \in Nat, a <= b
    PROVE  /\ a * c \in Nat /\ b * c \in Nat
           /\ (a + 1) * c = a * c + c
           /\ a * c <= b * c
<1>1. PICK d \in Nat : b = a + d
    <2>1. b - a \in Nat /\ b = a + (b - a)
        OBVIOUS
    <2> QED
        BY <2>1
<1>2. a * c \in Nat /\ d * c \in Nat /\ b * c = a * c + d * c
    BY <1>1
<1>3. (a + 1) * c = a * c + c
    OBVIOUS
<1> QED
    BY <1>2, <1>3

(* A number packed above w values below it comes apart again.              *)
LEMMA Unpacking ==
    ASSUME NEW w \in Nat \ {0}, NEW low \in Nat, NEW high \in Nat, low < w
    PROVE  /\ low + high * w \in Nat
           /\ (low + high * w) % w = low
           /\ (low + high * w) \div w = high
    BY SMTT(30)

(* A power of two counts the subsets of an interval, singletons among them.   *)
LEMMA PowersOfTwo ==
  ASSUME NEW n \in Nat
  PROVE  2 ^ n \in Nat \ {0} /\ n <= 2 ^ n
<1> DEFINE S == 1 .. n
           f == [i \in S |-> {i}]
<1>1. IsFiniteSet(S) /\ Cardinality(S) = n
  BY FS_Interval
<1>2. IsFiniteSet(SUBSET S) /\ Cardinality(SUBSET S) = 2 ^ n
  BY <1>1, FS_SUBSET
<1>3. Cardinality(SUBSET S) \in Nat
  BY <1>2, FS_CardinalityType
<1>4. SUBSET S # {}
  OBVIOUS
<1>5. 2 ^ n # 0
  BY <1>2, <1>4, FS_EmptySet
<1>6. f \in Injection(S, SUBSET S)
  <2>1. f \in [S -> SUBSET S]
    OBVIOUS
  <2>2. \A i, j \in S : f[i] = f[j] => i = j
    OBVIOUS
  <2> HIDE DEF f, S
  <2> QED
    BY <2>1, <2>2 DEF Injection, IsInjective
<1>7. Cardinality(S) <= Cardinality(SUBSET S)
  <2> HIDE DEF f, S
  <2> QED
    BY <1>2, <1>6, FS_Injection
<1> QED
  BY <1>1, <1>2, <1>3, <1>5, <1>7

-----------------------------------------------------------------------------
(* The invariant of the layouts.                                           *)

AllKeys == 0 .. DirectoryRows - 1
Page == [1 .. PageSize -> Slots]

\* Every page of the owner is there, or the one it has just placed.
IsPlaced(o, k) ==
    /\ k \in Keys(o)
    /\ o < owner \/ phase # "build" \/ (o = owner /\ k \in placed)

\* The descriptor of a key points at pages that hold its sorted rows.
KeyStored(o, k) ==
    \E order \in Orders(o, k), base \in 1 .. PageBudget - 1 :
        LET count == PagesFor(Degree(o, k))
        IN  /\ directory[o][k] = Descriptor(base, count)
            /\ base + count <= Len(pool[o])
            /\ \A p \in 0 .. count - 1 : pool[o][base + p + 1] = PageOf(o, order, p)

LayoutShape ==
    /\ edges \in [Owners -> EdgeFiles]
    /\ owner \in Owners
    /\ placed \subseteq Keys(owner)
    /\ phase \in Phases
    /\ directory \in [Owners -> [AllKeys -> Nat]]
    /\ pool \in [Owners -> Seq(Page)]

DescriptorsSmall ==
    \A o \in Owners, k \in AllKeys :
        /\ PageBase(directory[o][k]) < PageBudget
        /\ PageCount(directory[o][k]) <= PagesPerKey

PoolHeights ==
    \A o \in Owners :
        /\ Len(pool[o]) >= 1
        /\ o < owner \/ phase \notin {"build", "refused"} => Len(pool[o]) = PoolRows
        /\ o = owner /\ phase = "build" => Len(pool[o]) <= PageBudget
        /\ o > owner /\ phase = "build" => Len(pool[o]) = 1

KeysStored ==
    phase # "refused" =>
        \A o \in Owners, k \in AllKeys :
            IF IsPlaced(o, k) THEN KeyStored(o, k)
            ELSE directory[o][k] = EmptyDescriptor

LayoutInv == LayoutShape /\ DescriptorsSmall /\ PoolHeights /\ KeysStored

-----------------------------------------------------------------------------
\* What a descriptor's page number is taken modulo.
Wide == 2 ^ PageBaseBits

(* The bits of a page number hold every page of the budget.                *)
LEMMA BitLengthHolds ==
    ASSUME NEW n \in Nat
    PROVE  /\ BitLength(n) \in Nat \ {0} /\ n < 2 ^ BitLength(n)
           /\ BitLength(n) # 1 => 2 ^ (BitLength(n) - 1) <= n
<1> DEFINE Enough == {b \in 1 .. n + 1 : 2 ^ b > n}
<1>1. n + 1 \in Enough
    BY PowersOfTwo, n + 1 \in Nat
<1>2. PICK b \in Enough : \A c \in Enough : b <= c
    <2>1. Enough \in SUBSET Nat /\ Enough # {}
        BY <1>1
    <2> HIDE DEF Enough
    <2> QED
        BY <2>1, LeastNatural
<1>3. b = 1 \/ 2 ^ (b - 1) <= n
    <2>1. CASE b # 1
        <3>1. b - 1 \in 1 .. n + 1 /\ b - 1 \notin Enough /\ 2 ^ (b - 1) \in Nat
            BY <1>2, <2>1, PowersOfTwo
        <3> QED
            BY <3>1
    <2> QED
        BY <2>1
<1>4. \E c \in 1 .. n + 1 : 2 ^ c > n /\ (c = 1 \/ 2 ^ (c - 1) <= n)
    BY <1>2, <1>3
<1>5. /\ BitLength(n) \in 1 .. n + 1 /\ 2 ^ BitLength(n) > n
      /\ BitLength(n) = 1 \/ 2 ^ (BitLength(n) - 1) <= n
    BY <1>4 DEF BitLength
<1>6. 2 ^ BitLength(n) \in Nat
    BY <1>5, PowersOfTwo
<1> QED
    BY <1>5, <1>6

LEMMA Sizes ==
    /\ OwnerCount \in Nat \ {0} /\ EntityCount \in Nat \ {0}
    /\ RelationCount \in Nat \ {0} /\ PageSize \in Nat \ {0}
    /\ PagesPerKey \in Nat \ {0} /\ PageBudget \in Nat /\ PageBudget >= 2
    /\ Wide \in Nat \ {0} /\ PageBudget <= Wide
    /\ SlotsPerKey = PageSize * PagesPerKey /\ SlotsPerKey \in Nat
    /\ PoolRows = PageBudget + PagesPerKey - 1 /\ PoolRows \in Nat
    /\ DirectoryRows = EntityCount * RelationCount /\ DirectoryRows \in Nat
<1>1. Wide \in Nat /\ PageBudget <= Wide
    <2>1. PageBudget - 1 \in Nat
        BY PageAssumption
    <2>2. PageBaseBits \in Nat \ {0} /\ PageBudget - 1 < 2 ^ PageBaseBits
        BY <2>1, BitLengthHolds DEF PageBaseBits
    <2>3. 2 ^ PageBaseBits \in Nat
        BY <2>2, PowersOfTwo
    <2> QED
        BY <2>2, <2>3, PageAssumption DEF Wide
<1> HIDE DEF Wide
<1> QED
    BY <1>1, PageAssumption DEF SlotsPerKey, PoolRows, DirectoryRows

(* A descriptor gives back its page and its page count, and the empty one  *)
(* says that there is no page.                                             *)
LEMMA DescriptorParts ==
    ASSUME NEW base \in Nat, NEW count \in Nat, base < PageBudget
    PROVE  /\ Descriptor(base, count) \in Nat
           /\ PageBase(Descriptor(base, count)) = base
           /\ PageCount(Descriptor(base, count)) = count
<1> USE DEF Wide
<1>1. Wide \in Nat \ {0} /\ base < Wide
    BY Sizes
<1>2. /\ Descriptor(base, count) = base + count * Wide
      /\ \A d : PageBase(d) = d % Wide /\ PageCount(d) = d \div Wide
    BY DEF Descriptor, PageBase, PageCount
<1> HIDE DEF Wide
<1> QED
    BY <1>1, <1>2, Unpacking

LEMMA EmptyParts ==
    EmptyDescriptor \in Nat /\ PageBase(EmptyDescriptor) = 0 /\ PageCount(EmptyDescriptor) = 0
<1>1. Wide \in Nat \ {0} /\ Wide = 2 ^ PageBaseBits
    BY Sizes DEF Wide
<1> HIDE DEF Wide
<1>2. 0 % Wide = 0 /\ 0 \div Wide = 0
    BY <1>1, DivMod
<1> QED
    BY <1>1, <1>2 DEF EmptyDescriptor, PageBase, PageCount

-----------------------------------------------------------------------------
(* The rows of a key.                                                      *)
LEMMA RowsFinite ==
    ASSUME edges \in [Owners -> EdgeFiles], NEW o \in Owners, NEW k
    PROVE  /\ edges[o] \in Seq([source : Int, relation : Int, target : Int,
                                handle : Int, score : Int])
           /\ Rows(o, k) \subseteq DOMAIN edges[o]
           /\ Degree(o, k) \in Nat
           /\ k \in Keys(o) <=> Degree(o, k) # 0
           /\ Degree(o, k) = 0 <=> Rows(o, k) = {}
<1>1. edges[o] \in Seq([source : Int, relation : Int, target : Int,
                        handle : Int, score : Int])
    BY FileAssumption
<1>2. Rows(o, k) \subseteq DOMAIN edges[o]
    BY DEF Rows
<1>3. IsFiniteSet(DOMAIN edges[o])
    <2>1. DOMAIN edges[o] = 1 .. Len(edges[o]) /\ Len(edges[o]) \in Nat
        BY <1>1
    <2> QED
        BY <2>1, FS_Interval
<1>4. IsFiniteSet(Rows(o, k))
    BY <1>2, <1>3, FS_Subset
<1>5. Degree(o, k) \in Nat /\ (Degree(o, k) = 0 <=> Rows(o, k) = {})
    BY <1>4, FS_CardinalityType, FS_EmptySet DEF Degree
<1>6. k \in Keys(o) <=> Rows(o, k) # {}
    BY DEF Keys, Rows
<1> QED
    BY <1>1, <1>2, <1>5, <1>6

(* The pages of a group hold all of it, and none of them is empty.         *)
LEMMA PagesHold ==
    ASSUME NEW n \in Nat
    PROVE  /\ PagesFor(n) \in Nat /\ n <= PagesFor(n) * PageSize
           /\ n # 0 => PagesFor(n) >= 1
<1>1. PageSize \in Nat \ {0} /\ n + PageSize - 1 \in Nat
    BY Sizes
<1> DEFINE q == (n + PageSize - 1) \div PageSize
           r == (n + PageSize - 1) % PageSize
<1>2. q * PageSize + r = n + PageSize - 1 /\ r \in 0 .. PageSize - 1 /\ q \in Nat
    BY <1>1, DivMod
<1>3. PagesFor(n) = q
    BY DEF PagesFor
<1> HIDE DEF q, r
<1>4. q * PageSize \in Nat
    BY <1>1, <1>2, Products
<1>5. n <= q * PageSize
    BY <1>1, <1>2, <1>4
<1>6. q = 0 => n = 0
    <2>1. 0 * PageSize = 0
        BY <1>1
    <2> QED
        BY <1>1, <1>5, <2>1
<1> QED
    BY <1>2, <1>3, <1>5, <1>6

(* The key of a valid edge is a row of the directory.                      *)
LEMMA IndexInDirectory ==
    ASSUME NEW e \in 1 .. EntityCount - 1, NEW r \in 1 .. RelationCount
    PROVE  DirectoryIndex(e, r) \in AllKeys
<1>1. e \in Nat /\ e + 1 \in Nat /\ e + 1 <= EntityCount /\ EntityCount \in Nat
    BY Sizes
<1>2. /\ e * RelationCount \in Nat
      /\ (e + 1) * RelationCount = e * RelationCount + RelationCount
    BY <1>1, Sizes, Products
<1>3. (e + 1) * RelationCount <= EntityCount * RelationCount
    BY <1>1, Sizes, Products
<1> DEFINE m == e * RelationCount
           n == (e + 1) * RelationCount
<1>4. m \in Nat /\ n = m + RelationCount /\ n <= DirectoryRows
    BY <1>2, <1>3, Sizes
<1>5. DirectoryIndex(e, r) = m + r - 1
    BY DEF DirectoryIndex
<1> HIDE DEF m, n
<1> QED
    BY <1>4, <1>5, Sizes DEF AllKeys

(* A page of valid edges has the width of a page.                          *)
LEMMA PageOfIsPage ==
    ASSUME edges \in [Owners -> EdgeFiles], NEW o \in Owners, NEW k,
           \A n \in DOMAIN edges[o] : ValidEdge(edges[o][n]),
           NEW order \in Orders(o, k), NEW p
    PROVE  PageOf(o, order, p) \in Page
<1>1. NoEdge \in Slots
    BY Sizes DEF NoEdge, Slots
<1>2. ASSUME NEW i \in DOMAIN order
      PROVE  Packed(edges[o][order[i]]) \in Slots
    <2>1. order[i] \in DOMAIN edges[o]
        BY RowsFinite DEF Orders
    <2>2. /\ edges[o][order[i]] \in [source : Int, relation : Int, target : Int,
                                      handle : Int, score : Int]
          /\ ValidEdge(edges[o][order[i]])
        <3>1. ASSUME NEW S, NEW file \in Seq(S), NEW n \in DOMAIN file
              PROVE  file[n] \in S
            BY <3>1
        <3> QED
            BY <2>1, <3>1, RowsFinite
    <2> QED
        BY <2>2, Sizes DEF Packed, Slots, ValidEdge
<1>3. \A j \in 1 .. PageSize :
        (IF p * PageSize + j \in DOMAIN order
         THEN Packed(edges[o][order[p * PageSize + j]]) ELSE NoEdge) \in Slots
    BY <1>1, <1>2
<1> QED
    BY <1>3 DEF PageOf, Page

-----------------------------------------------------------------------------
(* Slot s of a key is slot j of page p.                                    *)
LEMMA SlotPosition ==
    ASSUME NEW s \in 1 .. SlotsPerKey
    PROVE  LET p == (s - 1) \div PageSize
               j == ((s - 1) % PageSize) + 1
           IN  p \in Nat /\ j \in 1 .. PageSize /\ p * PageSize + j = s
<1>1. s - 1 \in Nat /\ s \in Nat /\ PageSize \in Nat \ {0}
    BY Sizes
<1> DEFINE p == (s - 1) \div PageSize
           r == (s - 1) % PageSize
<1>2. p * PageSize + r = s - 1 /\ r \in 0 .. PageSize - 1 /\ p \in Nat
    BY <1>1, DivMod
<1> HIDE DEF p, r
<1>3. p * PageSize \in Nat
    BY <1>1, <1>2, Products
<1>4. p \in Nat /\ r + 1 \in 1 .. PageSize /\ p * PageSize + (r + 1) = s
    BY <1>1, <1>2, <1>3
<1> QED
    BY <1>4 DEF p, r

(* The window of a stored key is its padded group.                         *)
LEMMA StoredReadsBack ==
    ASSUME LayoutShape, NEW o \in Owners,
           NEW e \in 1 .. EntityCount - 1, NEW r \in 1 .. RelationCount,
           KeyStored(o, DirectoryIndex(e, r))
    PROVE  \E order \in Orders(o, DirectoryIndex(e, r)) :
               Window(o, e, r) = PaddedGroup(o, order)
<1> DEFINE k == DirectoryIndex(e, r)
           n == Degree(o, k)
           count == PagesFor(n)
           d == directory[o][k]
<1>1. KeyOk(e, r)
    BY Sizes DEF KeyOk
<1>2. n \in Nat /\ count \in Nat /\ n <= count * PageSize
    BY RowsFinite, PagesHold DEF LayoutShape
<1>3. PICK order \in Orders(o, k), base \in 1 .. PageBudget - 1 :
        /\ d = Descriptor(base, count)
        /\ base + count <= Len(pool[o])
        /\ \A p \in 0 .. count - 1 : pool[o][base + p + 1] = PageOf(o, order, p)
    BY DEF KeyStored
<1>4. DOMAIN order = 1 .. n
    BY <1>3 DEF Orders
<1>5. PageBase(d) = base /\ PageCount(d) = count
    <2>1. base \in Nat /\ base < PageBudget
        BY Sizes
    <2> QED
        BY <1>2, <1>3, <2>1, DescriptorParts
<1> DEFINE P(s) == (s - 1) \div PageSize
           J(s) == ((s - 1) % PageSize) + 1
<1>6. Window(o, e, r) = [s \in 1 .. SlotsPerKey |->
                           IF count > P(s) THEN pool[o][base + P(s) + 1][J(s)] ELSE NoEdge]
    BY <1>1, <1>5 DEF Window
<1>7. ASSUME NEW s \in 1 .. SlotsPerKey
      PROVE  (IF count > P(s) THEN pool[o][base + P(s) + 1][J(s)] ELSE NoEdge)
             = (IF s \in DOMAIN order THEN Packed(edges[o][order[s]]) ELSE NoEdge)
    <2>1. P(s) \in Nat /\ J(s) \in 1 .. PageSize /\ P(s) * PageSize + J(s) = s
        BY SlotPosition
    <2> DEFINE ps == P(s)
               js == J(s)
    <2> HIDE DEF k, n, count, d, P, J
    <2>2. CASE count > ps
        <3>1. pool[o][base + ps + 1] = PageOf(o, order, ps)
            BY <1>2, <1>3, <2>1, <2>2
        <3>2. pool[o][base + ps + 1][js] =
                IF ps * PageSize + js \in DOMAIN order
                THEN Packed(edges[o][order[ps * PageSize + js]]) ELSE NoEdge
            BY <2>1, <3>1 DEF PageOf
        <3> QED
            BY <2>1, <2>2, <3>2
    <2>3. CASE ~(count > ps)
        <3>1. count * PageSize \in Nat /\ ps * PageSize \in Nat
              /\ count * PageSize <= ps * PageSize
            BY <1>2, <2>1, <2>3, Sizes, Products
        <3> DEFINE low == count * PageSize
                   high == ps * PageSize
        <3>2. /\ n \in Nat /\ n <= low /\ low <= high /\ low \in Nat /\ high \in Nat
              /\ high + js = s /\ js \in 1 .. PageSize /\ PageSize \in Nat
            BY <1>2, <2>1, <3>1, Sizes
        <3> HIDE DEF low, high
        <3>3. n < s
            BY <3>2
        <3> QED
            BY <1>2, <1>4, <2>3, <3>3
    <2> QED
        BY <2>2, <2>3
<1>8. Window(o, e, r) = PaddedGroup(o, order)
    BY <1>6, <1>7 DEF PaddedGroup
<1> QED
    BY <1>3, <1>8

(* The window of a key without a descriptor is empty.                      *)
LEMMA AbsentReadsEmpty ==
    ASSUME LayoutShape, NEW o \in Owners,
           NEW e \in 1 .. EntityCount - 1, NEW r \in 1 .. RelationCount,
           DirectoryIndex(e, r) \notin Keys(o),
           directory[o][DirectoryIndex(e, r)] = EmptyDescriptor
    PROVE  \E order \in Orders(o, DirectoryIndex(e, r)) :
               Window(o, e, r) = PaddedGroup(o, order)
<1> DEFINE k == DirectoryIndex(e, r)
           none == [i \in 1 .. 0 |-> i]
<1>1. Degree(o, k) = 0
    BY RowsFinite DEF LayoutShape
<1>2. none \in Orders(o, k)
    BY <1>1 DEF Orders
<1>3. Window(o, e, r) = [s \in 1 .. SlotsPerKey |-> NoEdge]
    <2>1. KeyOk(e, r)
        BY Sizes DEF KeyOk
    <2>2. \A s \in 1 .. SlotsPerKey : ~(PageCount(EmptyDescriptor) > (s - 1) \div PageSize)
        BY EmptyParts, SlotPosition
    <2> QED
        BY <2>1, <2>2 DEF Window
<1>4. PaddedGroup(o, none) = [s \in 1 .. SlotsPerKey |-> NoEdge]
    BY DEF PaddedGroup
<1> QED
    BY <1>2, <1>3, <1>4

LEMMA LosslessFromInv == LayoutInv => Lossless
<1> SUFFICES ASSUME LayoutInv, phase # "refused",
                    NEW o \in Owners, NEW e \in 1 .. EntityCount - 1,
                    NEW r \in 1 .. RelationCount,
                    Complete(o, DirectoryIndex(e, r))
             PROVE  \E order \in Orders(o, DirectoryIndex(e, r)) :
                        Window(o, e, r) = PaddedGroup(o, order)
    BY DEF Lossless
<1> DEFINE k == DirectoryIndex(e, r)
<1>1. k \in AllKeys
    BY IndexInDirectory
<1>2. IF IsPlaced(o, k) THEN KeyStored(o, k) ELSE directory[o][k] = EmptyDescriptor
    BY <1>1 DEF LayoutInv, KeysStored
<1>3. CASE IsPlaced(o, k)
    BY <1>2, <1>3, StoredReadsBack DEF LayoutInv
<1>4. CASE ~IsPlaced(o, k)
    <2>1. k \notin Keys(o)
        BY <1>4 DEF Complete, IsPlaced
    <2> QED
        BY <1>2, <1>4, <2>1, AbsentReadsEmpty DEF LayoutInv
<1> QED
    BY <1>3, <1>4

LEMMA LayoutTypeFromInv == LayoutInv => LayoutTypeOK
<1> SUFFICES ASSUME LayoutInv PROVE LayoutTypeOK
    OBVIOUS
<1>1. phase \in Phases
    BY DEF LayoutInv, LayoutShape, Phases
<1>2. ASSUME NEW o \in Owners
      PROVE  /\ DOMAIN directory[o] = 0 .. DirectoryRows - 1
             /\ \A k \in 0 .. DirectoryRows - 1 :
                   /\ PageBase(directory[o][k]) < PageBudget
                   /\ PageCount(directory[o][k]) <= PagesPerKey
             /\ \A p \in DOMAIN pool[o] : pool[o][p] \in [1 .. PageSize -> Slots]
             /\ o < owner \/ phase \notin {"build", "refused"} => Len(pool[o]) = PoolRows
             /\ o = owner /\ phase = "build" => Len(pool[o]) <= PageBudget
    <2>1. directory[o] \in [AllKeys -> Nat] /\ pool[o] \in Seq(Page)
        BY DEF LayoutInv, LayoutShape
    <2>2. \A p \in DOMAIN pool[o] : pool[o][p] \in Page
        <3>1. ASSUME NEW S, NEW file \in Seq(S), NEW n \in DOMAIN file
              PROVE  file[n] \in S
            BY <3>1
        <3> QED
            BY <2>1, <3>1
    <2> QED
        BY <2>1, <2>2 DEF LayoutInv, DescriptorsSmall, PoolHeights, AllKeys, Page
<1> QED
    BY <1>1, <1>2 DEF LayoutTypeOK, LayoutInv, LayoutShape

-----------------------------------------------------------------------------
(* What depends on the files alone stays while the files do.               *)
LEMMA FilesKeep ==
    ASSUME edges' = edges
    PROVE  /\ \A o, k : /\ Degree(o, k)' = Degree(o, k)
                        /\ Orders(o, k)' = Orders(o, k)
           /\ \A o : Keys(o)' = Keys(o)
           /\ \A o, order, p : PageOf(o, order, p)' = PageOf(o, order, p)
<1>1. \A o, k : Rows(o, k)' = Rows(o, k)
    BY DEF Rows
<1>2. \A o, k : Degree(o, k)' = Degree(o, k)
    BY <1>1 DEF Degree
<1>3. \A o, n : SortKey(o, n)' = SortKey(o, n)
    BY DEF SortKey
<1>4. \A o, k : Orders(o, k)' = Orders(o, k)
    BY <1>1, <1>2, <1>3 DEF Orders
<1>5. \A o : Keys(o)' = Keys(o)
    BY DEF Keys
<1>6. \A o, order, p : PageOf(o, order, p)' = PageOf(o, order, p)
    BY DEF PageOf
<1> QED
    BY <1>2, <1>4, <1>5, <1>6

(* Appending pages leaves what stands in the pool.                         *)
LEMMA PagesJoin ==
    ASSUME NEW s \in Seq(Page), NEW t \in Seq(Page)
    PROVE  /\ s \o t \in Seq(Page)
           /\ Len(s \o t) = Len(s) + Len(t)
           /\ \A i \in 1 .. Len(s) : (s \o t)[i] = s[i]
           /\ \A i \in 1 .. Len(t) : (s \o t)[Len(s) + i] = t[i]
    OBVIOUS

LEMMA PoolGrows ==
    ASSUME edges' = edges, NEW o \in Owners, NEW k, LayoutShape,
           KeyStored(o, k), directory'[o][k] = directory[o][k],
           NEW more \in Seq(Page), pool'[o] = pool[o] \o more
    PROVE  KeyStored(o, k)'
<1> DEFINE count == PagesFor(Degree(o, k))
<1>1. PICK order \in Orders(o, k), base \in 1 .. PageBudget - 1 :
        /\ directory[o][k] = Descriptor(base, count)
        /\ base + count <= Len(pool[o])
        /\ \A p \in 0 .. count - 1 : pool[o][base + p + 1] = PageOf(o, order, p)
    BY DEF KeyStored
<1>2. /\ pool[o] \in Seq(Page) /\ Len(pool[o]) \in Nat /\ Len(more) \in Nat
      /\ count \in Nat /\ base \in Nat
    <2>1. pool[o] \in Seq(Page)
        BY DEF LayoutShape
    <2>2. Degree(o, k) \in Nat
        BY RowsFinite DEF LayoutShape
    <2>3. count \in Nat
        BY <2>2, PagesHold
    <2>4. ASSUME NEW S, NEW s \in Seq(S)
          PROVE  Len(s) \in Nat
        OBVIOUS
    <2> QED
        BY <2>1, <2>3, <2>4, Sizes
<1>3. /\ Len(pool'[o]) = Len(pool[o]) + Len(more)
      /\ \A i \in 1 .. Len(pool[o]) : pool'[o][i] = pool[o][i]
    BY <1>2, PagesJoin
<1> HIDE DEF count
<1>4. base + count <= Len(pool'[o])
    BY <1>1, <1>2, <1>3
<1>5. \A p \in 0 .. count - 1 : pool'[o][base + p + 1] = PageOf(o, order, p)
    <2>1. \A p \in 0 .. count - 1 : base + p + 1 \in 1 .. Len(pool[o])
        BY <1>1, <1>2
    <2> QED
        BY <1>1, <1>3, <2>1
<1>6. /\ order \in Orders(o, k)' /\ count = PagesFor(Degree(o, k)')
      /\ \A p : PageOf(o, order, p)' = PageOf(o, order, p)
    BY FilesKeep DEF count
<1> QED
    BY <1>1, <1>4, <1>5, <1>6 DEF KeyStored

(* A layout that is left alone stays as it is, whatever is decided.        *)
LEMMA PhaseMoves ==
    ASSUME LayoutInv, UNCHANGED layoutVars,
           phase' \in Phases,
           \/ phase' \in {phase, "refused"}
           \/ {phase, phase'} \cap {"build", "refused"} = {}
    PROVE  LayoutInv'
<1>1. /\ edges' = edges /\ owner' = owner /\ placed' = placed
      /\ directory' = directory /\ pool' = pool
    BY DEF layoutVars
<1>2. LayoutShape'
    BY <1>1, FilesKeep DEF LayoutInv, LayoutShape
<1>3. DescriptorsSmall'
    BY <1>1 DEF LayoutInv, DescriptorsSmall
<1>4. PoolHeights'
    BY <1>1 DEF LayoutInv, PoolHeights, LayoutShape
<1>5. KeysStored'
    <2>1. SUFFICES ASSUME phase' # "refused", NEW o \in Owners, NEW k \in AllKeys
                   PROVE  IF IsPlaced(o, k)' THEN KeyStored(o, k)'
                          ELSE directory'[o][k] = EmptyDescriptor
        BY DEF KeysStored
    <2>2. phase # "refused" /\ (phase' = "build" <=> phase = "build")
        BY <2>1 DEF LayoutInv, LayoutShape
    <2>3. IsPlaced(o, k)' <=> IsPlaced(o, k)
        BY <1>1, <2>2, FilesKeep DEF IsPlaced
    <2>4. KeyStored(o, k) => KeyStored(o, k)'
        BY <1>1, FilesKeep DEF KeyStored
    <2> QED
        BY <1>1, <2>2, <2>3, <2>4 DEF LayoutInv, KeysStored
<1> QED
    BY <1>2, <1>3, <1>4, <1>5 DEF LayoutInv

(* Nothing is placed at first.                                             *)
LEMMA LayoutInitInv == LayoutInit => LayoutInv
<1> SUFFICES ASSUME LayoutInit PROVE LayoutInv
    OBVIOUS
<1>1. /\ edges \in [Owners -> EdgeFiles] /\ owner = 1 /\ placed = {} /\ phase = "build"
      /\ directory = [o \in Owners |-> [k \in AllKeys |-> EmptyDescriptor]]
      /\ pool = [o \in Owners |-> <<EmptyPage>>]
    BY DEF LayoutInit, AllKeys
<1>2. EmptyPage \in Page
    BY Sizes DEF EmptyPage, Page, NoEdge, Slots
<1>3. LayoutShape
    BY <1>1, <1>2, Sizes, EmptyParts DEF LayoutShape, Owners, Phases
<1>4. DescriptorsSmall
    BY <1>1, EmptyParts, Sizes DEF DescriptorsSmall
<1>5. PoolHeights
    BY <1>1, Sizes DEF PoolHeights, Owners
<1>6. KeysStored
    BY <1>1 DEF KeysStored, IsPlaced, Owners
<1> QED
    BY <1>3, <1>4, <1>5, <1>6 DEF LayoutInv

(* A key that is placed is stored, and no other key is touched.            *)
LEMMA PlaceKeyKeeps ==
    ASSUME LayoutInv, NEW k \in Keys(owner), PlaceKey(k)
    PROVE  LayoutInv'
<1> DEFINE n == Degree(owner, k)
           count == PagesFor(n)
           base == Len(pool[owner])
<1>1. /\ edges' = edges /\ owner' = owner /\ phase' = phase /\ phase = "build"
      /\ placed' = placed \cup {k} /\ k \notin placed
      /\ \A i \in DOMAIN edges[owner] : ValidEdge(edges[owner][i])
      /\ base + count <= PageBudget /\ count <= PagesPerKey
    BY DEF PlaceKey, IsNextKey, Fits
<1>2. PICK order \in Orders(owner, k) :
        /\ pool' = [pool EXCEPT ![owner] = @ \o
                       [p \in 1 .. count |-> PageOf(owner, order, p - 1)]]
        /\ directory' = [directory EXCEPT ![owner][k] = Descriptor(base, count)]
    BY DEF PlaceKey
<1>3. /\ owner \in Owners /\ edges \in [Owners -> EdgeFiles]
      /\ directory \in [Owners -> [AllKeys -> Nat]]
      /\ pool \in [Owners -> Seq(Page)]
      /\ placed \subseteq Keys(owner)
    BY DEF LayoutInv, LayoutShape
<1>4. k \in AllKeys
    <2>1. PICK i \in DOMAIN edges[owner] : KeyOf(edges[owner][i]) = k
        BY DEF Keys
    <2>2. ValidEdge(edges[owner][i])
        BY <1>1, <2>1
    <2> QED
        BY <2>1, <2>2, IndexInDirectory DEF ValidEdge, KeyOf
<1>5. /\ n \in Nat /\ count \in Nat /\ count >= 1 /\ base \in Nat /\ base >= 1
      /\ base < PageBudget
    <2>1. n \in Nat /\ n # 0
        BY <1>3, RowsFinite
    <2>2. count \in Nat /\ count >= 1
        BY <2>1, PagesHold
    <2>3. base \in Nat /\ base >= 1
        BY <1>3 DEF LayoutInv, PoolHeights
    <2> HIDE DEF n, count, base
    <2> QED
        BY <1>1, <2>1, <2>2, <2>3, Sizes
<1> DEFINE block == [p \in 1 .. count |-> PageOf(owner, order, p - 1)]
           d == Descriptor(base, count)
<1>6. /\ block \in Seq(Page) /\ Len(block) = count
      /\ \A p \in 1 .. count : block[p] = PageOf(owner, order, p - 1)
    <2>1. \A p \in 1 .. count : PageOf(owner, order, p - 1) \in Page
        BY <1>1, <1>3, PageOfIsPage
    <2> HIDE DEF count
    <2> QED
        BY <1>5, <2>1
<1>7. d \in Nat /\ PageBase(d) = base /\ PageCount(d) = count
    BY <1>5, DescriptorParts
<1>8. /\ pool'[owner] = pool[owner] \o block
      /\ \A o \in Owners : o # owner => pool'[o] = pool[o]
      /\ DOMAIN pool' = Owners
    BY <1>2, <1>3
<1>9. /\ pool'[owner] \in Seq(Page) /\ Len(pool'[owner]) = base + count
      /\ \A i \in 1 .. base : pool'[owner][i] = pool[owner][i]
      /\ \A i \in 1 .. count : pool'[owner][base + i] = block[i]
    <2> DEFINE first == pool[owner]
    <2>1. first \in Seq(Page) /\ Len(first) = base
        BY <1>3
    <2> HIDE DEF block, count, base, first
    <2>2. /\ first \o block \in Seq(Page)
          /\ Len(first \o block) = base + count
          /\ \A i \in 1 .. base : (first \o block)[i] = first[i]
          /\ \A i \in 1 .. count : (first \o block)[base + i] = block[i]
        BY <1>6, <2>1, PagesJoin, Zenon
    <2>3. pool'[owner] = first \o block
        BY <1>8 DEF first
    <2> QED
        BY <2>2, <2>3 DEF first
<1>10. /\ directory'[owner][k] = d
       /\ \A o \in Owners, j \in AllKeys :
             o # owner \/ j # k => directory'[o][j] = directory[o][j]
       /\ directory' \in [Owners -> [AllKeys -> Nat]]
    <2> HIDE DEF d
    <2>1. directory' = [directory EXCEPT ![owner][k] = d]
        BY <1>2 DEF d
    <2> QED
        BY <1>3, <1>4, <1>7, <2>1
<1>11. pool' \in [Owners -> Seq(Page)]
    <2>1. \A o \in Owners : pool'[o] \in Seq(Page)
        BY <1>3, <1>8, <1>9
    <2>2. pool' = [o \in Owners |-> pool'[o]]
        BY <1>2, <1>3
    <2> QED
        BY <2>1, <2>2
<1> HIDE DEF n, count, base, block, d
<1>12. LayoutShape'
    <2>1. placed' \subseteq Keys(owner)'
        BY <1>1, <1>3, FilesKeep
    <2>2. /\ edges' \in [Owners -> EdgeFiles] /\ owner' \in Owners
          /\ phase' \in Phases
        BY <1>1, <1>3 DEF Phases
    <2> QED
        BY <1>1, <1>10, <1>11, <2>1, <2>2 DEF LayoutShape
<1>13. DescriptorsSmall'
    <2>1. ASSUME NEW o \in Owners, NEW j \in AllKeys
          PROVE  /\ PageBase(directory'[o][j]) < PageBudget
                 /\ PageCount(directory'[o][j]) <= PagesPerKey
        <3>1. CASE o = owner /\ j = k
            BY <1>1, <1>5, <1>7, <1>10, <3>1
        <3>2. CASE o # owner \/ j # k
            BY <1>10, <3>2 DEF LayoutInv, DescriptorsSmall
        <3> QED
            BY <3>1, <3>2
    <2> QED
        BY <2>1 DEF DescriptorsSmall
<1>14. PoolHeights'
    <2>1. ASSUME NEW o \in Owners
          PROVE  /\ Len(pool'[o]) >= 1
                 /\ o < owner => Len(pool'[o]) = PoolRows
                 /\ o = owner => Len(pool'[o]) <= PageBudget
                 /\ o > owner => Len(pool'[o]) = 1
        <3>1. CASE o = owner
            BY <1>1, <1>3, <1>5, <1>9, <3>1, Sizes DEF Owners
        <3>2. CASE o # owner
            BY <1>1, <1>8, <3>2 DEF LayoutInv, PoolHeights
        <3> QED
            BY <3>1, <3>2
    <2> QED
        BY <1>1, <2>1 DEF PoolHeights
<1>15. KeysStored'
    <2>1. SUFFICES ASSUME NEW o \in Owners, NEW j \in AllKeys
                   PROVE  IF IsPlaced(o, j)' THEN KeyStored(o, j)'
                          ELSE directory'[o][j] = EmptyDescriptor
        BY DEF KeysStored
    <2>2. IF IsPlaced(o, j) THEN KeyStored(o, j) ELSE directory[o][j] = EmptyDescriptor
        BY <1>1 DEF LayoutInv, KeysStored
    <2>3. Keys(o)' = Keys(o)
        BY <1>1, FilesKeep
    <2>4. CASE o = owner /\ j = k
        <3>1. /\ order \in Orders(owner, k)' /\ count = PagesFor(Degree(owner, k)')
              /\ \A p : PageOf(owner, order, p)' = PageOf(owner, order, p)
            BY <1>1, FilesKeep DEF count, n
        <3>2. base \in 1 .. PageBudget - 1
            BY <1>5, Sizes
        <3>3. \A p \in 0 .. count - 1 : pool'[owner][base + p + 1] = PageOf(owner, order, p)
            <4>1. ASSUME NEW p \in 0 .. count - 1
                  PROVE  pool'[owner][base + p + 1] = PageOf(owner, order, p)
                <5>1. p + 1 \in 1 .. count /\ (p + 1) - 1 = p /\ base + (p + 1) = base + p + 1
                    BY <1>5
                <5>2. block[p + 1] = PageOf(owner, order, p)
                    BY <1>6, <5>1
                <5>3. pool'[owner][base + (p + 1)] = block[p + 1]
                    BY <1>9, <5>1
                <5> QED
                    BY <5>1, <5>2, <5>3
            <4> QED
                BY <4>1
        <3>4. /\ directory'[owner][k] = Descriptor(base, count)
              /\ base + count <= Len(pool'[owner])
            BY <1>5, <1>9, <1>10 DEF d
        <3>5. KeyStored(owner, k)'
            BY <1>1, <2>4, <3>1, <3>2, <3>3, <3>4 DEF KeyStored
        <3>6. IsPlaced(o, j)'
            BY <1>1, <2>3, <2>4 DEF IsPlaced
        <3> QED
            BY <1>1, <2>4, <3>5, <3>6
    <2>5. CASE o = owner /\ j # k
        <3>1. IsPlaced(o, j)' <=> IsPlaced(o, j)
            BY <1>1, <2>3, <2>5 DEF IsPlaced
        <3>2. KeyStored(o, j) => KeyStored(o, j)'
            <4>1. pool'[o] = pool[o] \o block /\ block \in Seq(Page)
                BY <1>6, <1>8, <2>5
            <4> QED
                BY <1>1, <1>10, <2>5, <4>1, PoolGrows DEF LayoutInv
        <3> QED
            BY <1>10, <2>2, <2>5, <3>1, <3>2
    <2>6. CASE o # owner
        <3>1. IsPlaced(o, j)' <=> IsPlaced(o, j)
            BY <1>1, <2>3, <2>6 DEF IsPlaced
        <3>2. KeyStored(o, j) => KeyStored(o, j)'
            <4>1. pool'[o] = pool[o] /\ directory'[o][j] = directory[o][j]
                BY <1>8, <1>10, <2>6
            <4> QED
                BY <1>1, <4>1, FilesKeep DEF KeyStored
        <3> QED
            BY <1>10, <2>2, <2>6, <3>1, <3>2
    <2> QED
        BY <2>4, <2>5, <2>6
<1> QED
    BY <1>12, <1>13, <1>14, <1>15 DEF LayoutInv

(* A pool is padded behind its pages, and the next owner begins afresh.    *)
LEMMA FinishOwnerKeeps ==
    ASSUME LayoutInv, FinishOwner
    PROVE  LayoutInv'
<1> DEFINE height == Len(pool[owner])
           padding == [p \in 1 .. PoolRows - height |-> EmptyPage]
<1>1. /\ edges' = edges /\ directory' = directory
      /\ phase = "build" /\ placed = Keys(owner) /\ placed' = {}
      /\ pool' = [pool EXCEPT ![owner] = pool[owner] \o padding]
      /\ \/ owner = OwnerCount /\ phase' = "check" /\ owner' = owner
         \/ owner # OwnerCount /\ phase' = "build" /\ owner' = owner + 1
    BY DEF FinishOwner
<1>2. /\ owner \in 1 .. OwnerCount /\ owner \in Owners
      /\ edges \in [Owners -> EdgeFiles] /\ pool \in [Owners -> Seq(Page)]
      /\ height \in Nat /\ height <= PageBudget
    <2>1. pool \in [Owners -> Seq(Page)] /\ owner \in Owners
        BY DEF LayoutInv, LayoutShape
    <2>2. ASSUME NEW S, NEW s \in Seq(S)
          PROVE  Len(s) \in Nat
        OBVIOUS
    <2>3. height \in Nat
        BY <2>1, <2>2
    <2>4. height <= PageBudget
        BY <1>1, <2>1 DEF LayoutInv, PoolHeights
    <2> QED
        BY <2>1, <2>3, <2>4 DEF LayoutInv, LayoutShape, Owners
<1>3. padding \in Seq(Page) /\ Len(padding) = PoolRows - height /\ PoolRows - height \in Nat
    <2>1. EmptyPage \in Page
        BY Sizes DEF EmptyPage, Page, NoEdge, Slots
    <2>2. PoolRows - height \in Nat
        BY <1>2, Sizes
    <2> HIDE DEF height
    <2> QED
        BY <2>1, <2>2
<1>4. /\ pool'[owner] \in Seq(Page) /\ Len(pool'[owner]) = PoolRows
      /\ pool'[owner] = pool[owner] \o padding
      /\ \A o \in Owners : o # owner => pool'[o] = pool[o]
    <2> DEFINE first == pool[owner]
    <2>1. first \in Seq(Page) /\ Len(first) = height
        BY <1>2
    <2>2. pool'[owner] = first \o padding
        BY <1>1, <1>2
    <2>3. \A o \in Owners : o # owner => pool'[o] = pool[o]
        BY <1>1, <1>2
    <2> HIDE DEF first, height, padding
    <2>4. first \o padding \in Seq(Page) /\ Len(first \o padding) = Len(first) + Len(padding)
        BY <1>3, <2>1, PagesJoin
    <2>5. Len(first \o padding) = PoolRows
        BY <1>2, <1>3, <2>1, <2>4, Sizes
    <2> QED
        BY <2>2, <2>3, <2>4, <2>5 DEF first
<1>5. pool' \in [Owners -> Seq(Page)]
    <2>1. \A o \in Owners : pool'[o] \in Seq(Page)
        BY <1>2, <1>4
    <2>2. pool' = [o \in Owners |-> pool'[o]]
        BY <1>1, <1>2
    <2> QED
        BY <2>1, <2>2
<1> HIDE DEF height, padding
<1>6. owner' \in Owners /\ owner' \in Nat /\ owner \in Nat
    BY <1>1, <1>2, Sizes DEF Owners
<1>7. LayoutShape'
    BY <1>1, <1>2, <1>5, <1>6 DEF LayoutInv, LayoutShape, Phases
<1>8. DescriptorsSmall'
    BY <1>1 DEF LayoutInv, DescriptorsSmall
<1>9. PoolHeights'
    <2>1. ASSUME NEW o \in Owners
          PROVE  /\ Len(pool'[o]) >= 1
                 /\ o < owner' \/ phase' # "build" => Len(pool'[o]) = PoolRows
                 /\ o = owner' /\ phase' = "build" => Len(pool'[o]) <= PageBudget
                 /\ o > owner' /\ phase' = "build" => Len(pool'[o]) = 1
        <3>1. o \in 1 .. OwnerCount
            BY DEF Owners
        <3>2. CASE o = owner
            BY <1>1, <1>2, <1>4, <3>2, Sizes
        <3>3. CASE o < owner
            <4>1. pool'[o] = pool[o] /\ Len(pool[o]) = PoolRows
                BY <1>2, <1>4, <3>1, <3>3 DEF LayoutInv, PoolHeights
            <4> QED
                BY <1>1, <1>2, <3>1, <3>3, <4>1, Sizes
        <3>4. CASE o > owner
            <4>1. pool'[o] = pool[o] /\ Len(pool[o]) = 1
                BY <1>1, <1>2, <1>4, <3>1, <3>4 DEF LayoutInv, PoolHeights
            <4>2. phase' = "build" /\ owner' = owner + 1 /\ ~(o < owner + 1)
                BY <1>1, <1>2, <3>1, <3>4, Sizes
            <4> QED
                BY <4>1, <4>2, Sizes
        <3> QED
            BY <1>2, <3>1, <3>2, <3>3, <3>4
    <2> QED
        BY <1>1, <2>1 DEF PoolHeights
<1>10. KeysStored'
    <2>1. SUFFICES ASSUME NEW o \in Owners, NEW k \in AllKeys
                   PROVE  IF IsPlaced(o, k)' THEN KeyStored(o, k)'
                          ELSE directory'[o][k] = EmptyDescriptor
        BY DEF KeysStored
    <2>2. IF IsPlaced(o, k) THEN KeyStored(o, k) ELSE directory[o][k] = EmptyDescriptor
        BY <1>1 DEF LayoutInv, KeysStored
    <2>3. IsPlaced(o, k)' <=> IsPlaced(o, k)
        <3>1. Keys(o)' = Keys(o) /\ o \in 1 .. OwnerCount
            BY <1>1, FilesKeep DEF Owners
        <3>2. IsPlaced(o, k) <=> k \in Keys(o) /\ o <= owner
            BY <1>1, <1>2, <3>1 DEF IsPlaced
        <3>3. IsPlaced(o, k)' <=> k \in Keys(o) /\ o <= owner
            BY <1>1, <1>2, <3>1 DEF IsPlaced
        <3> QED
            BY <3>2, <3>3
    <2>4. KeyStored(o, k) => KeyStored(o, k)'
        <3>1. CASE o = owner
            BY <1>1, <1>3, <1>4, <3>1, PoolGrows DEF LayoutInv
        <3>2. CASE o # owner
            BY <1>1, <1>4, <3>2, FilesKeep DEF KeyStored
        <3> QED
            BY <3>1, <3>2
    <2> QED
        BY <1>1, <2>2, <2>3, <2>4
<1> QED
    BY <1>7, <1>8, <1>9, <1>10 DEF LayoutInv

-----------------------------------------------------------------------------
(* Orders and ranks.                                                       *)

\* R is a strict total order of the elements of S.
IsStrictOrder(R, S) ==
    /\ \A x \in S : <<x, x>> \notin R
    /\ \A x, y, z \in S : <<x, y>> \in R /\ <<y, z>> \in R => <<x, z>> \in R
    /\ \A x, y \in S : x # y => <<x, y>> \in R \/ <<y, x>> \in R

Below(R, S, x) == {y \in S : <<y, x>> \in R}

\* The number of elements before x.
RankOf(R, S, x) == Cardinality(Below(R, S, x))

\* Every place below the size is taken by one element, and a place is lower
\* exactly when its element is.
IsRanked(R, S) ==
    /\ \A x \in S : RankOf(R, S, x) \in 0 .. Cardinality(S) - 1
    /\ \A x, y \in S : <<x, y>> \in R <=> RankOf(R, S, x) < RankOf(R, S, y)
    /\ \A x, y \in S : RankOf(R, S, x) = RankOf(R, S, y) => x = y
    /\ \A n \in 0 .. Cardinality(S) - 1 : \E x \in S : RankOf(R, S, x) = n

(* A strict order ranks a finite set.                                      *)
LEMMA Ranking ==
    ASSUME NEW S, IsFiniteSet(S), NEW R, IsStrictOrder(R, S)
    PROVE  IsRanked(R, S)
<1> DEFINE rank == [x \in S |-> RankOf(R, S, x)]
           size == Cardinality(S)
<1>1. size \in Nat
    BY FS_CardinalityType
<1>2. ASSUME NEW x \in S
      PROVE  /\ IsFiniteSet(Below(R, S, x)) /\ RankOf(R, S, x) \in Nat
             /\ RankOf(R, S, x) < size
    <2>1. Below(R, S, x) \subseteq S \ {x}
        BY DEF Below, IsStrictOrder
    <2>2. IsFiniteSet(S \ {x}) /\ Cardinality(S \ {x}) = size - 1
        BY FS_RemoveElement
    <2>3. /\ IsFiniteSet(Below(R, S, x))
          /\ Cardinality(Below(R, S, x)) <= Cardinality(S \ {x})
        BY <2>1, <2>2, FS_Subset
    <2>4. Cardinality(Below(R, S, x)) \in Nat
        BY <2>3, FS_CardinalityType
    <2> QED
        BY <1>1, <2>2, <2>3, <2>4 DEF RankOf
<1>3. ASSUME NEW x \in S, NEW y \in S, <<x, y>> \in R
      PROVE  RankOf(R, S, x) < RankOf(R, S, y)
    <2>1. x \notin Below(R, S, x) /\ Below(R, S, x) \cup {x} \subseteq Below(R, S, y)
        BY <1>3 DEF Below, IsStrictOrder
    <2>2. /\ IsFiniteSet(Below(R, S, x) \cup {x})
          /\ Cardinality(Below(R, S, x) \cup {x}) = RankOf(R, S, x) + 1
        BY <1>2, <2>1, FS_AddElement DEF RankOf
    <2>3. RankOf(R, S, x) + 1 <= RankOf(R, S, y)
        <3> DEFINE B == Below(R, S, x) \cup {x}
        <3>1. B \in SUBSET Below(R, S, y) /\ IsFiniteSet(Below(R, S, y))
            BY <1>2, <2>1
        <3> HIDE DEF B
        <3>2. Cardinality(B) <= RankOf(R, S, y)
            BY <3>1, FS_Subset DEF RankOf
        <3> QED
            BY <2>2, <3>2 DEF B
    <2> QED
        BY <1>2, <2>3
<1>4. ASSUME NEW x \in S, NEW y \in S
      PROVE  /\ <<x, y>> \in R <=> RankOf(R, S, x) < RankOf(R, S, y)
             /\ RankOf(R, S, x) = RankOf(R, S, y) => x = y
    <2>1. x = y \/ <<x, y>> \in R \/ <<y, x>> \in R
        BY DEF IsStrictOrder
    <2>2. RankOf(R, S, x) \in Nat /\ RankOf(R, S, y) \in Nat
        BY <1>2
    <2>3. x = y => <<x, y>> \notin R
        BY DEF IsStrictOrder
    <2> QED
        BY <1>3, <2>1, <2>2, <2>3
<1>5. /\ IsFiniteSet(0 .. size - 1)
      /\ Cardinality(0 .. size - 1) = size
    BY <1>1, FS_Interval
<1>6. rank \in Injection(S, 0 .. size - 1)
    <2>1. rank \in [S -> 0 .. size - 1]
        BY <1>1, <1>2
    <2>2. \A x, y \in S : rank[x] = rank[y] => x = y
        BY <1>4
    <2> HIDE DEF rank, size
    <2> QED
        BY <2>1, <2>2 DEF Injection, IsInjective
<1>7. rank \in Surjection(S, 0 .. size - 1)
    <2> HIDE DEF rank
    <2> QED
        BY <1>5, <1>6, FS_Injection
<1>8. ASSUME NEW n \in 0 .. size - 1
      PROVE  \E x \in S : RankOf(R, S, x) = n
    <2>1. \A t \in 0 .. size - 1 : \E x \in S : rank[x] = t
        <3> HIDE DEF rank, size
        <3> QED
            BY <1>7 DEF Surjection
    <2> QED
        BY <2>1
<1>9. \A x \in S : RankOf(R, S, x) \in 0 .. size - 1
    BY <1>1, <1>2
<1> QED
    BY <1>4, <1>8, <1>9 DEF IsRanked

(* How the sort compares two rows.                                         *)
LEMMA LexCompares ==
    ASSUME NEW s, NEW t, DOMAIN s = 1 .. 4
    PROVE  LexBefore(s, t) <=>
              \/ s[1] < t[1]
              \/ s[1] = t[1] /\ s[2] < t[2]
              \/ s[1] = t[1] /\ s[2] = t[2] /\ s[3] < t[3]
              \/ s[1] = t[1] /\ s[2] = t[2] /\ s[3] = t[3] /\ s[4] < t[4]
<1> DEFINE At(i) == s[i] < t[i] /\ \A j \in 1 .. i - 1 : s[j] = t[j]
<1>1. LexBefore(s, t) <=> At(1) \/ At(2) \/ At(3) \/ At(4)
    BY DEF LexBefore
<1>2. /\ \A j : j \in 1 .. 1 - 1 <=> FALSE
      /\ \A j : j \in 1 .. 2 - 1 <=> j = 1
      /\ \A j : j \in 1 .. 3 - 1 <=> j = 1 \/ j = 2
      /\ \A j : j \in 1 .. 4 - 1 <=> j = 1 \/ j = 2 \/ j = 3
    OBVIOUS
<1>3. /\ At(1) <=> s[1] < t[1]
      /\ At(2) <=> s[1] = t[1] /\ s[2] < t[2]
      /\ At(3) <=> s[1] = t[1] /\ s[2] = t[2] /\ s[3] < t[3]
      /\ At(4) <=> s[1] = t[1] /\ s[2] = t[2] /\ s[3] = t[3] /\ s[4] < t[4]
    BY <1>2, Zenon
<1> HIDE DEF At
<1> QED
    BY <1>1, <1>3

RowOrder(o, k) ==
    {p \in Rows(o, k) \X Rows(o, k) : LexBefore(SortKey(o, p[1]), SortKey(o, p[2]))}

(* The sort has the rows of a key in one order, in which none is twice.    *)
LEMMA RowsOrdered ==
    ASSUME edges \in [Owners -> EdgeFiles], NEW o \in Owners, NEW k
    PROVE  /\ IsFiniteSet(Rows(o, k)) /\ IsStrictOrder(RowOrder(o, k), Rows(o, k))
           /\ \A m, n \in DOMAIN edges[o] :
                  LexBefore(SortKey(o, m), SortKey(o, n)) =>
                      ~LexBefore(SortKey(o, n), SortKey(o, m)) /\ m # n
<1> DEFINE file == edges[o]
           Row == [source : Int, relation : Int, target : Int, handle : Int, score : Int]
<1>1. file \in Seq(Row) /\ Rows(o, k) \subseteq DOMAIN file
    BY RowsFinite
<1>2. DOMAIN file = 1 .. Len(file) /\ Len(file) \in Nat
    BY <1>1
<1>3. IsFiniteSet(Rows(o, k))
    <2>1. IsFiniteSet(DOMAIN file)
        BY <1>2, FS_Interval
    <2> QED
        BY <1>1, <2>1, FS_Subset
<1>4. ASSUME NEW n \in DOMAIN file
      PROVE  /\ n \in Int /\ DOMAIN SortKey(o, n) = 1 .. 4
             /\ SortKey(o, n)[1] \in Int /\ SortKey(o, n)[2] \in Int
             /\ SortKey(o, n)[3] \in Int /\ SortKey(o, n)[4] = n
    <2>1. file[n] \in Row
        <3>1. ASSUME NEW S, NEW list \in Seq(S), NEW i \in DOMAIN list
              PROVE  list[i] \in S
            BY <3>1
        <3> QED
            BY <1>1, <3>1
    <2>2. SortKey(o, n) = <<file[n].target, file[n].handle, file[n].score, n>>
        BY DEF SortKey
    <2> HIDE DEF file
    <2>3. file[n].target \in Int /\ file[n].handle \in Int /\ file[n].score \in Int
        BY <2>1
    <2> QED
        BY <1>2, <2>2, <2>3
<1> HIDE DEF file
<1> DEFINE K(n) == SortKey(o, n)
           Less(m, n) == LexBefore(K(m), K(n))
<1>5. \A m, n \in DOMAIN file :
        Less(m, n) <=> \/ K(m)[1] < K(n)[1]
                       \/ K(m)[1] = K(n)[1] /\ K(m)[2] < K(n)[2]
                       \/ K(m)[1] = K(n)[1] /\ K(m)[2] = K(n)[2] /\ K(m)[3] < K(n)[3]
                       \/ /\ K(m)[1] = K(n)[1] /\ K(m)[2] = K(n)[2] /\ K(m)[3] = K(n)[3]
                          /\ K(m)[4] < K(n)[4]
    BY <1>4, LexCompares
<1>6. \A n \in DOMAIN file : /\ n \in Int /\ K(n)[1] \in Int /\ K(n)[2] \in Int
                             /\ K(n)[3] \in Int /\ K(n)[4] = n
    BY <1>4
<1> HIDE DEF K, Less
<1>7. /\ \A m \in DOMAIN file : ~Less(m, m)
      /\ \A m, n \in DOMAIN file : Less(m, n) => ~Less(n, m)
      /\ \A m, n \in DOMAIN file : m # n => Less(m, n) \/ Less(n, m)
    BY <1>5, <1>6
<1>8. \A l, m, n \in DOMAIN file : Less(l, m) /\ Less(m, n) => Less(l, n)
    BY <1>5, <1>6
<1>9. RowOrder(o, k) = {p \in Rows(o, k) \X Rows(o, k) : Less(p[1], p[2])}
    BY DEF RowOrder, Less, K
<1>10. \A m, n \in Rows(o, k) : <<m, n>> \in RowOrder(o, k) <=> Less(m, n)
    BY <1>9
<1>11. IsStrictOrder(RowOrder(o, k), Rows(o, k))
    BY <1>1, <1>7, <1>8, <1>10 DEF IsStrictOrder
<1> QED
    BY <1>3, <1>7, <1>11 DEF Less, K, file

(* Every key has a sorted order, which holds each of its rows once.        *)
LEMMA OrdersExist ==
    ASSUME edges \in [Owners -> EdgeFiles], NEW o \in Owners, NEW k
    PROVE  /\ Orders(o, k) # {}
           /\ \A order \in Orders(o, k) : \A n \in Rows(o, k) :
                  \E i \in 1 .. Degree(o, k) : order[i] = n
<1> DEFINE S == Rows(o, k)
           R == RowOrder(o, k)
           size == Degree(o, k)
<1>1. /\ IsFiniteSet(S) /\ IsStrictOrder(R, S) /\ Cardinality(S) = size /\ size \in Nat
      /\ S \subseteq DOMAIN edges[o]
    BY RowsOrdered, RowsFinite DEF Degree
<1>2. \A m, n \in S : <<m, n>> \in R <=> LexBefore(SortKey(o, m), SortKey(o, n))
    BY DEF RowOrder
<1> HIDE DEF S, R, size
<1>3. /\ \A x, y \in S : <<x, y>> \in R <=> RankOf(R, S, x) < RankOf(R, S, y)
      /\ \A n \in 0 .. size - 1 : \E x \in S : RankOf(R, S, x) = n
    BY <1>1, Ranking DEF IsRanked
<1> DEFINE sorted == [i \in 1 .. size |-> CHOOSE x \in S : RankOf(R, S, x) = i - 1]
<1>4. ASSUME NEW i \in 1 .. size
      PROVE  sorted[i] \in S /\ RankOf(R, S, sorted[i]) = i - 1
    <2>1. i - 1 \in 0 .. size - 1
        BY <1>1
    <2> QED
        BY <1>3, <2>1
<1>5. sorted \in Orders(o, k)
    <2>1. sorted \in [1 .. size -> S]
        BY <1>4
    <2>2. ASSUME NEW i \in 1 .. size, NEW j \in 1 .. size, i < j
          PROVE  LexBefore(SortKey(o, sorted[i]), SortKey(o, sorted[j]))
        <3> HIDE DEF sorted
        <3>1. RankOf(R, S, sorted[i]) < RankOf(R, S, sorted[j])
            BY <1>1, <1>4, <2>2
        <3> QED
            BY <1>2, <1>3, <1>4, <3>1
    <2> HIDE DEF sorted
    <2> QED
        BY <2>1, <2>2 DEF Orders, S, size
<1>6. ASSUME NEW order \in Orders(o, k), NEW n \in S
      PROVE  \E i \in 1 .. size : order[i] = n
    <2>1. /\ order \in [1 .. size -> S]
          /\ \A i, j \in 1 .. size :
                i < j => LexBefore(SortKey(o, order[i]), SortKey(o, order[j]))
        BY DEF Orders, S, size
    <2>2. \A i, j \in 1 .. size : i < j => order[i] # order[j]
        BY <1>1, <2>1, RowsOrdered
    <2>3. \A i, j \in 1 .. size : order[i] = order[j] => i = j
        BY <1>1, <2>2
    <2>4. order \in Injection(1 .. size, S)
        BY <2>1, <2>3 DEF Injection, IsInjective
    <2>5. IsFiniteSet(1 .. size) /\ Cardinality(1 .. size) = size
        BY <1>1, FS_Interval
    <2>6. order \in Surjection(1 .. size, S)
        BY <1>1, <2>4, <2>5, FS_Injection
    <2> QED
        BY <2>6 DEF Surjection
<1> QED
    BY <1>5, <1>6 DEF S, size

-----------------------------------------------------------------------------
(* What a preparation lets through.                                        *)

\* An owner's file has valid edges only, and no key has too many of them.
Admitted(o) ==
    /\ \A n \in DOMAIN edges[o] : ValidEdge(edges[o][n])
    /\ \A k \in Keys(o) : Degree(o, k) <= FrontierPerOwner

AdmittedInv ==
    phase # "refused" =>
        /\ \A o \in Owners : o < owner \/ phase # "build" => Admitted(o)
        /\ phase = "build" /\ placed # {} =>
              \A n \in DOMAIN edges[owner] : ValidEdge(edges[owner][n])
        /\ \A k \in placed : Degree(owner, k) <= FrontierPerOwner

LEMMA AdmittedKeeps ==
    ASSUME edges' = edges, NEW o
    PROVE  Admitted(o)' <=> Admitted(o)
<1>1. Keys(o)' = Keys(o) /\ \A k : Degree(o, k)' = Degree(o, k)
    BY FilesKeep
<1>2. \A e : ValidEdge(e)' <=> ValidEdge(e)
    BY DEF ValidEdge
<1> QED
    BY <1>1, <1>2 DEF Admitted

LEMMA AdmittedInit == LayoutInit => AdmittedInv
    BY DEF LayoutInit, AdmittedInv, Owners

LEMMA AdmittedPlaceKey ==
    ASSUME AdmittedInv, NEW k, PlaceKey(k)
    PROVE  AdmittedInv'
<1>1. /\ edges' = edges /\ owner' = owner /\ placed' = placed \cup {k}
      /\ phase = "build" /\ phase' = "build"
      /\ \A n \in DOMAIN edges[owner] : ValidEdge(edges[owner][n])
      /\ Degree(owner, k) <= FrontierPerOwner
    BY DEF PlaceKey, Fits
<1>2. \A o : /\ Admitted(o)' <=> Admitted(o)
             /\ \A j : Degree(o, j)' = Degree(o, j)
    BY <1>1, AdmittedKeeps, FilesKeep
<1>3. \A o \in Owners : o < owner \/ phase # "build" => Admitted(o)
    BY <1>1 DEF AdmittedInv
<1>4. \A j \in placed : Degree(owner, j) <= FrontierPerOwner
    BY <1>1 DEF AdmittedInv
<1> QED
    BY <1>1, <1>2, <1>3, <1>4 DEF AdmittedInv

LEMMA AdmittedFinishOwner ==
    ASSUME LayoutShape, AdmittedInv, FinishOwner
    PROVE  AdmittedInv'
<1>1. /\ edges' = edges /\ placed' = {} /\ placed = Keys(owner) /\ phase = "build"
      /\ owner \in Owners
      /\ \/ owner = OwnerCount /\ phase' = "check" /\ owner' = owner
         \/ owner' = owner + 1 /\ phase' = "build"
    BY DEF FinishOwner, LayoutShape
<1>2. /\ \A o \in Owners : o < owner => Admitted(o)
      /\ placed # {} => \A n \in DOMAIN edges[owner] : ValidEdge(edges[owner][n])
      /\ \A k \in placed : Degree(owner, k) <= FrontierPerOwner
    BY <1>1 DEF AdmittedInv
<1>3. Admitted(owner)
    <2>1. DOMAIN edges[owner] # {} => placed # {}
        BY <1>1 DEF Keys
    <2> QED
        BY <1>1, <1>2, <2>1 DEF Admitted
<1>4. \A o \in Owners : o < owner' \/ phase' # "build" => Admitted(o)
    <2>1. OwnerCount \in Nat /\ owner \in 1 .. OwnerCount
        BY <1>1, Sizes DEF Owners
    <2> QED
        BY <1>1, <1>2, <1>3, <2>1 DEF Owners
<1>5. \A o : Admitted(o)' <=> Admitted(o)
    BY <1>1, AdmittedKeeps
<1> QED
    BY <1>1, <1>4, <1>5 DEF AdmittedInv

LEMMA AdmittedMoves ==
    ASSUME AdmittedInv, UNCHANGED layoutVars,
           phase' \in {phase, "refused"} \/ {phase, phase'} \cap {"build", "refused"} = {}
    PROVE  AdmittedInv'
<1>1. edges' = edges /\ owner' = owner /\ placed' = placed
    BY DEF layoutVars
<1>2. \A o : /\ Admitted(o)' <=> Admitted(o)
             /\ \A j : Degree(o, j)' = Degree(o, j)
    BY <1>1, AdmittedKeeps, FilesKeep
<1>3. phase' # "refused" => phase # "refused" /\ (phase' = "build" <=> phase = "build")
    OBVIOUS
<1>4. \A e : ValidEdge(e)' <=> ValidEdge(e)
    BY DEF ValidEdge
<1> QED
    BY <1>1, <1>2, <1>3, <1>4 DEF AdmittedInv
=============================================================================
