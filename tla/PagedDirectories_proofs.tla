------------------------ MODULE PagedDirectories_proofs ------------------------
(***************************************************************************)
(* Proofs about the directories, for any federation, edge files and sizes. *)
(* The directories and the bound check come on top of the owners' paged    *)
(* layouts and leave them alone.  What a read of the directories returns   *)
(* is followed from the owners' tables through the sums that assemble them *)
(* and through the packed elements to the hops of the circuit; the bound   *)
(* check's polynomial, from its products to the number that is opened.     *)
(***************************************************************************)
EXTENDS PagedDirectories, RelationPages_proofs

(* Every step keeps the paged layouts in order.                            *)
LEMMA LayoutNext == LayoutInv /\ [Next]_vars => LayoutInv'
<1> SUFFICES ASSUME LayoutInv, [Next]_vars PROVE LayoutInv'
    OBVIOUS
<1>1. CASE UNCHANGED vars
    BY <1>1, PhaseMoves DEF vars, LayoutInv, LayoutShape
<1>2. CASE RefuseConfig
    BY <1>2, PhaseMoves DEF RefuseConfig, Phases
<1>3. CASE BuildOwner
    <2>1. CASE \E k \in Keys(owner) : PlaceKey(k)
        BY <2>1, PlaceKeyKeeps
    <2>2. CASE RefuseLayout
        BY <2>2, PhaseMoves DEF RefuseLayout, Phases
    <2> QED
        BY <1>3, <2>1, <2>2 DEF BuildOwner
<1>4. CASE ShareOwner
    <2>1. CASE FinishOwner
        BY <2>1, FinishOwnerKeeps
    <2>2. CASE phase' = "refused" /\ UNCHANGED layoutVars
        BY <2>2, PhaseMoves DEF Phases
    <2> QED
        BY <1>4, <2>1, <2>2 DEF ShareOwner
<1>5. CASE Assemble
    BY <1>5, PhaseMoves DEF Assemble, LayoutInv, LayoutShape
<1>6. CASE CheckBound
    BY <1>6, PhaseMoves DEF CheckBound, Phases
<1> QED
    BY <1>1, <1>2, <1>3, <1>4, <1>5, <1>6 DEF Next

-----------------------------------------------------------------------------
(* The inductive invariant.                                                *)
THEOREM Invariant == Spec => []LayoutInv
<1>1. Init => LayoutInv
    BY LayoutInitInv DEF Init
<1>2. LayoutInv /\ [Next]_vars => LayoutInv'
    BY LayoutNext
<1> QED
    BY <1>1, <1>2, PTL DEF Spec

(* Whatever the owners' files hold, a preparation that is not refused has  *)
(* dropped, truncated, repeated and mixed up no edge: every key that is    *)
(* placed, or absent, reads back as its sorted group (relation_pages.py,   *)
(* build_owner_page_layout, "No edge is ever silently dropped").            *)
THEOREM PagesLoseNothing == Spec => []Lossless
BY Invariant, LosslessFromInv, PTL

(* Every page, descriptor and pool keeps its public shape, refused or not. *)
THEOREM LayoutsTyped == Spec => []LayoutTypeOK
BY Invariant, LayoutTypeFromInv, PTL

-----------------------------------------------------------------------------
(* Sums over finite sets.                                                  *)

(* Induction on the subsets of a finite set.                               *)
LEMMA SubsetInduction ==
    ASSUME NEW S, IsFiniteSet(S), NEW P \in SUBSET SUBSET S, {} \in P,
           \A T \in P : \A x \in S \ T : T \cup {x} \in P
    PROVE  S \in P
<1> DEFINE N == {n \in Nat : \A T \in SUBSET S : Cardinality(T) = n => T \in P}
<1>1. \A T \in SUBSET S : IsFiniteSet(T) /\ Cardinality(T) \in Nat
    BY FS_Subset, FS_CardinalityType
<1>2. 0 \in N
    BY <1>1, FS_EmptySet
<1>3. ASSUME NEW n \in N
      PROVE  n + 1 \in N
    <2> SUFFICES ASSUME NEW T \in SUBSET S, Cardinality(T) = n + 1
                 PROVE  T \in P
        OBVIOUS
    <2>1. T # {}
        <3>1. n + 1 # 0
            OBVIOUS
        <3> QED
            BY <3>1, FS_EmptySet
    <2>2. PICK x \in T : TRUE
        BY <2>1
    <2>3. Cardinality(T \ {x}) = n
        BY <1>1, FS_RemoveElement
    <2>4. T \ {x} \in P
        BY <2>3
    <2>5. x \in S \ (T \ {x}) /\ (T \ {x}) \cup {x} = T
        OBVIOUS
    <2> QED
        BY <2>4, <2>5
<1>4. N \in SUBSET Nat
    OBVIOUS
<1> HIDE DEF N
<1>5. N = Nat
    BY <1>2, <1>3, <1>4, NatSetInduction
<1> QED
    BY <1>1, <1>5 DEF N

\* How the library's fold goes through a set.
SumStep(f, g, s) == IF s = {} THEN 0
                    ELSE LET x == CHOOSE x \in s : TRUE IN f[x] + g[s \ {x}]
\* The fold, as a function of the part that is added up.
SumGraph(f, S) == CHOOSE g : g = [s \in SUBSET S |-> SumStep(f, g, s)]

(* The library's fold is that function at the whole set.                   *)
LEMMA SumIsGraph ==
    ASSUME NEW f, NEW S
    PROVE  SumFunctionOnSet(f, S) = SumGraph(f, S)[S]
BY DEF SumFunctionOnSet, FoldFunctionOnSet, MapThenFoldSet, SumGraph, SumStep

(* There is one, for a finite set: the fold goes on to the end.            *)
LEMMA GraphExists ==
    ASSUME NEW S, IsFiniteSet(S), NEW f, \A x \in S : f[x] \in Int
    PROVE  /\ SumGraph(f, S) \in [SUBSET S -> Int]
           /\ \A s \in SUBSET S : SumGraph(f, S)[s] = SumStep(f, SumGraph(f, S), s)
<1> DEFINE Small(n) == {s \in SUBSET S : Cardinality(s) <= n}
           Solves(n, g) == /\ g \in [Small(n) -> Int]
                           /\ \A s \in Small(n) : g[s] = SumStep(f, g, s)
           N == {n \in Nat : \E g : Solves(n, g)}
<1>1. \A s \in SUBSET S : IsFiniteSet(s) /\ Cardinality(s) \in Nat
    BY FS_Subset, FS_CardinalityType
<1>2. \A s \in SUBSET S : s # {} => /\ (CHOOSE x \in s : TRUE) \in s
                                    /\ Cardinality(s \ {CHOOSE x \in s : TRUE}) = Cardinality(s) - 1
    BY <1>1, FS_RemoveElement
<1>3. 0 \in N
    <2>1. \A s \in Small(0) : s = {}
        BY <1>1, FS_EmptySet
    <2>2. Solves(0, [s \in Small(0) |-> 0])
        BY <2>1 DEF SumStep
    <2> QED
        BY <2>2
<1>4. ASSUME NEW n \in N
      PROVE  n + 1 \in N
    <2>1. PICK g : Solves(n, g)
        OBVIOUS
    <2> DEFINE h == [s \in Small(n + 1) |-> SumStep(f, g, s)]
    <2>2. ASSUME NEW s \in Small(n + 1)
          PROVE  h[s] \in Int /\ h[s] = SumStep(f, h, s)
        <3>1. CASE s = {}
            BY <3>1 DEF SumStep
        <3>2. CASE s # {}
            <4> DEFINE x == CHOOSE x \in s : TRUE
            <4>1. x \in s /\ Cardinality(s \ {x}) = Cardinality(s) - 1
                BY <1>2, <3>2
            <4> HIDE DEF x
            <4>2. s \ {x} \in Small(n) /\ s \ {x} \in Small(n + 1)
                BY <1>1, <4>1
            <4>3. g[s \ {x}] \in Int /\ f[x] \in Int
                BY <2>1, <4>1, <4>2
            <4>4. h[s \ {x}] = g[s \ {x}]
                BY <2>1, <4>2
            <4>5. h[s] = f[x] + g[s \ {x}]
                BY <3>2 DEF SumStep, x
            <4>6. SumStep(f, h, s) = f[x] + h[s \ {x}]
                BY <3>2 DEF SumStep, x
            <4> HIDE DEF h
            <4> QED
                BY <4>3, <4>4, <4>5, <4>6
        <3> QED
            BY <3>1, <3>2
    <2>3. Solves(n + 1, h)
        <3>1. h = [s \in Small(n + 1) |-> h[s]]
            OBVIOUS
        <3> HIDE DEF h, Small
        <3>2. h \in [Small(n + 1) -> Int]
            BY <2>2, <3>1
        <3> QED
            BY <2>2, <3>2
    <2> HIDE DEF Solves
    <2> QED
        BY <2>3
<1>5. N \in SUBSET Nat
    OBVIOUS
<1>6. N = Nat
    <2> HIDE DEF N
    <2> QED
        BY <1>3, <1>4, <1>5, NatSetInduction
<1>7. PICK g : Solves(Cardinality(S), g)
    BY <1>1, <1>6
<1>8. Small(Cardinality(S)) = SUBSET S
    BY <1>1, FS_Subset
<1>9. g = [s \in SUBSET S |-> SumStep(f, g, s)]
    <2>1. g \in [SUBSET S -> Int] /\ \A s \in SUBSET S : g[s] = SumStep(f, g, s)
        BY <1>7, <1>8
    <2> QED
        BY <2>1
<1> DEFINE G == SumGraph(f, S)
<1>10. G = [s \in SUBSET S |-> SumStep(f, G, s)]
    BY <1>9 DEF SumGraph
<1> HIDE DEF G
<1>11. \A s \in SUBSET S : G[s] = SumStep(f, G, s)
    BY <1>10
<1>12. \A s \in SUBSET S : G[s] \in Int
    <2> DEFINE M == {n \in Nat : \A s \in Small(n) : G[s] \in Int}
    <2>0. G[{}] = 0
        BY <1>11 DEF SumStep
    <2>1. 0 \in M
        <3>1. \A s \in Small(0) : s = {}
            BY <1>1, FS_EmptySet
        <3> QED
            BY <2>0, <3>1
    <2>2. ASSUME NEW n \in M
          PROVE  n + 1 \in M
        <3> SUFFICES ASSUME NEW s \in Small(n + 1)
                     PROVE  G[s] \in Int
            OBVIOUS
        <3>1. CASE s = {}
            BY <2>0, <3>1
        <3>2. CASE s # {}
            <4> DEFINE x == CHOOSE x \in s : TRUE
            <4>1. x \in s /\ Cardinality(s \ {x}) = Cardinality(s) - 1
                BY <1>2, <3>2
            <4>2. G[s] = f[x] + G[s \ {x}]
                BY <1>11, <3>2 DEF SumStep
            <4> HIDE DEF x
            <4>3. s \ {x} \in Small(n)
                BY <1>1, <4>1
            <4> QED
                BY <4>1, <4>2, <4>3
        <3> QED
            BY <3>1, <3>2
    <2>3. M \in SUBSET Nat
        OBVIOUS
    <2>4. M = Nat
        <3> HIDE DEF M
        <3> QED
            BY <2>1, <2>2, <2>3, NatSetInduction
    <2> QED
        BY <1>1, <1>8, <2>4
<1> QED
    BY <1>10, <1>11, <1>12 DEF G

\* g adds up f over every part of S, whichever element is taken first.
AddsUp(g, f, S) ==
    /\ g[{}] = 0
    /\ \A s \in SUBSET S : g[s] \in Int
    /\ \A s \in SUBSET S : \A y \in s : g[s] = f[y] + g[s \ {y}]

(* The library's fold adds up its function.                                *)
LEMMA GraphAddsUp ==
    ASSUME NEW S, IsFiniteSet(S), NEW f, \A x \in S : f[x] \in Int
    PROVE  AddsUp(SumGraph(f, S), f, S)
<1> DEFINE g == SumGraph(f, S)
           Good(s) == \A y \in s : g[s] = f[y] + g[s \ {y}]
           N == {n \in Nat : \A s \in SUBSET S : Cardinality(s) = n => Good(s)}
<1>1. /\ \A s \in SUBSET S : g[s] \in Int
      /\ \A s \in SUBSET S : g[s] = SumStep(f, g, s)
    BY GraphExists
<1> HIDE DEF g
<1>2. g[{}] = 0
    BY <1>1 DEF SumStep
<1>3. \A s \in SUBSET S : IsFiniteSet(s) /\ Cardinality(s) \in Nat
    BY FS_Subset, FS_CardinalityType
<1>4. 0 \in N
    <2>1. \A s \in SUBSET S : Cardinality(s) = 0 => s = {}
        BY <1>3, FS_EmptySet
    <2> QED
        BY <2>1
<1>5. ASSUME NEW n \in N
      PROVE  n + 1 \in N
    <2> SUFFICES ASSUME NEW s \in SUBSET S, Cardinality(s) = n + 1, NEW y \in s
                 PROVE  g[s] = f[y] + g[s \ {y}]
        OBVIOUS
    <2> DEFINE x == CHOOSE x \in s : TRUE
    <2>1. x \in s /\ g[s] = f[x] + g[s \ {x}]
        BY <1>1 DEF SumStep
    <2> HIDE DEF x
    <2>2. Cardinality(s \ {x}) = n /\ Cardinality(s \ {y}) = n
        <3>1. IsFiniteSet(s) /\ n \in Nat
            BY <1>3
        <3>2. /\ Cardinality(s \ {x}) = Cardinality(s) - 1
              /\ Cardinality(s \ {y}) = Cardinality(s) - 1
            BY <2>1, <3>1, FS_RemoveElement
        <3> QED
            BY <3>1, <3>2
    <2>3. CASE x # y
        <3>1. y \in s \ {x} /\ x \in s \ {y} /\ (s \ {x}) \ {y} = (s \ {y}) \ {x}
            BY <2>1, <2>3
        <3>2. g[s \ {x}] = f[y] + g[(s \ {x}) \ {y}]
            BY <2>2, <3>1
        <3>3. g[s \ {y}] = f[x] + g[(s \ {x}) \ {y}]
            BY <2>2, <3>1
        <3>4. g[(s \ {x}) \ {y}] \in Int /\ f[x] \in Int /\ f[y] \in Int
            BY <1>1, <2>1
        <3> QED
            BY <2>1, <3>2, <3>3, <3>4
    <2> QED
        BY <2>1, <2>3
<1>6. N \in SUBSET Nat
    OBVIOUS
<1>7. N = Nat
    <2> HIDE DEF N
    <2> QED
        BY <1>4, <1>5, <1>6, NatSetInduction
<1>8. \A s \in SUBSET S : Good(s)
    BY <1>3, <1>7
<1> QED
    BY <1>1, <1>2, <1>8 DEF AddsUp, g

(* Two sums of functions that agree on a set are the same on its parts.    *)
LEMMA SumsAgree ==
    ASSUME NEW S, NEW T, IsFiniteSet(S), T \subseteq S, NEW f, NEW h, NEW g, NEW k,
           \A x \in T : f[x] = h[x], AddsUp(g, f, S), AddsUp(k, h, T)
    PROVE  g[T] = k[T]
<1> DEFINE P == {s \in SUBSET T : g[s] = k[s]}
<1>1. IsFiniteSet(T) /\ P \in SUBSET SUBSET T
    BY FS_Subset
<1>2. {} \in P
    BY DEF AddsUp
<1>3. ASSUME NEW s \in P, NEW x \in T \ s
      PROVE  s \cup {x} \in P
    <2>1. s \cup {x} \in SUBSET T /\ s \cup {x} \in SUBSET S /\ x \in s \cup {x}
        OBVIOUS
    <2>2. (s \cup {x}) \ {x} = s
        OBVIOUS
    <2>3. g[s \cup {x}] = f[x] + g[s]
        BY <2>1, <2>2 DEF AddsUp
    <2>4. k[s \cup {x}] = h[x] + k[s]
        BY <2>1, <2>2 DEF AddsUp
    <2> QED
        BY <2>1, <2>3, <2>4
<1> HIDE DEF P
<1>4. T \in P
    BY <1>1, <1>2, <1>3, SubsetInduction
<1> QED
    BY <1>4 DEF P

(* Nothing adds up to nothing.                                             *)
LEMMA SumEmpty ==
    ASSUME NEW f
    PROVE  SumFunctionOnSet(f, {}) = 0
<1>1. AddsUp(SumGraph(f, {}), f, {})
    BY FS_EmptySet, GraphAddsUp
<1> QED
    BY <1>1, SumIsGraph DEF AddsUp

(* Any element may be taken out of a sum first.                            *)
LEMMA SumSplit ==
    ASSUME NEW S, IsFiniteSet(S), NEW f, \A x \in S : f[x] \in Int
    PROVE  /\ SumFunctionOnSet(f, S) \in Int
           /\ \A y \in S : SumFunctionOnSet(f, S) = f[y] + SumFunctionOnSet(f, S \ {y})
<1>1. AddsUp(SumGraph(f, S), f, S) /\ SumFunctionOnSet(f, S) = SumGraph(f, S)[S]
    BY GraphAddsUp, SumIsGraph
<1>2. ASSUME NEW y \in S
      PROVE  SumFunctionOnSet(f, S) = f[y] + SumFunctionOnSet(f, S \ {y})
    <2> DEFINE T == S \ {y}
    <2>1. IsFiniteSet(T) /\ T \subseteq S /\ \A x \in T : f[x] \in Int
        BY FS_Subset
    <2> HIDE DEF T
    <2>2. AddsUp(SumGraph(f, T), f, T) /\ SumFunctionOnSet(f, T) = SumGraph(f, T)[T]
        BY <2>1, GraphAddsUp, SumIsGraph
    <2>3. SumGraph(f, S)[T] = SumGraph(f, T)[T]
        BY <1>1, <2>1, <2>2, SumsAgree
    <2>4. SumGraph(f, S)[S] = f[y] + SumGraph(f, S)[T]
        BY <1>1 DEF AddsUp, T
    <2> QED
        BY <1>1, <2>2, <2>3, <2>4 DEF T
<1> QED
    BY <1>1, <1>2 DEF AddsUp

(* One element more adds its value.                                        *)
LEMMA SumAdd ==
    ASSUME NEW S, IsFiniteSet(S), NEW f, \A x \in S : f[x] \in Int,
           NEW T \in SUBSET S, NEW y \in S \ T
    PROVE  /\ SumFunctionOnSet(f, T) \in Int
           /\ SumFunctionOnSet(f, T \cup {y}) = f[y] + SumFunctionOnSet(f, T)
<1>1. IsFiniteSet(T) /\ IsFiniteSet(T \cup {y}) /\ (T \cup {y}) \ {y} = T
    BY FS_Subset
<1>2. y \in T \cup {y} /\ \A x \in T \cup {y} : f[x] \in Int
    OBVIOUS
<1> QED
    BY <1>1, <1>2, SumSplit

(* A sum depends on what is added only.                                    *)
LEMMA SumSame ==
    ASSUME NEW S, IsFiniteSet(S), NEW f, NEW h, \A x \in S : f[x] \in Int,
           \A x \in S : f[x] = h[x]
    PROVE  SumFunctionOnSet(f, S) = SumFunctionOnSet(h, S)
<1>1. \A x \in S : h[x] \in Int
    OBVIOUS
<1> QED
    BY <1>1, GraphAddsUp, SumIsGraph, SumsAgree

(* A function is added up over its domain.                                 *)
LEMMA SumOfFunction ==
    ASSUME NEW S, NEW f, DOMAIN f = S
    PROVE  SumFunction(f) = SumFunctionOnSet(f, S)
BY DEF SumFunction

(* The three facts a sum is known by, for inductions over its parts.       *)
LEMMA SumGrows ==
    ASSUME NEW S, IsFiniteSet(S), NEW f, \A x \in S : f[x] \in Int
    PROVE  /\ SumFunctionOnSet(f, {}) = 0
           /\ \A T \in SUBSET S : SumFunctionOnSet(f, T) \in Int
           /\ \A T \in SUBSET S : \A y \in S \ T :
                 SumFunctionOnSet(f, T \cup {y}) = f[y] + SumFunctionOnSet(f, T)
<1>1. \A T \in SUBSET S : SumFunctionOnSet(f, T) \in Int
    <2>1. \A T \in SUBSET S : IsFiniteSet(T) /\ \A x \in T : f[x] \in Int
        BY FS_Subset
    <2> QED
        BY <2>1, SumSplit
<1> QED
    BY <1>1, SumEmpty, SumAdd

(* Sums are linear.                                                        *)
LEMMA SumLinear ==
    ASSUME NEW S, IsFiniteSet(S), NEW f, NEW g, NEW h, NEW a \in Int,
           \A x \in S : f[x] \in Int /\ g[x] \in Int,
           \A x \in S : h[x] = a * f[x] + g[x]
    PROVE  SumFunctionOnSet(h, S) = a * SumFunctionOnSet(f, S) + SumFunctionOnSet(g, S)
<1> DEFINE F(T) == SumFunctionOnSet(f, T)
           G(T) == SumFunctionOnSet(g, T)
           H(T) == SumFunctionOnSet(h, T)
           P == {T \in SUBSET S : H(T) = a * F(T) + G(T)}
<1>1. F({}) = 0 /\ G({}) = 0 /\ H({}) = 0
    BY SumEmpty
<1>2. \A x \in S : f[x] \in Int /\ g[x] \in Int /\ h[x] \in Int
    <2>1. \A x \in S : a * f[x] \in Int
        OBVIOUS
    <2> QED
        BY <2>1
<1>3. /\ \A T \in SUBSET S : F(T) \in Int /\ G(T) \in Int /\ H(T) \in Int
      /\ \A T \in SUBSET S : \A y \in S \ T :
          /\ F(T \cup {y}) = f[y] + F(T)
          /\ G(T \cup {y}) = g[y] + G(T)
          /\ H(T \cup {y}) = h[y] + H(T)
    <2>1. /\ \A T \in SUBSET S : F(T) \in Int
          /\ \A T \in SUBSET S : \A y \in S \ T : F(T \cup {y}) = f[y] + F(T)
        BY <1>2, SumGrows
    <2>2. /\ \A T \in SUBSET S : G(T) \in Int
          /\ \A T \in SUBSET S : \A y \in S \ T : G(T \cup {y}) = g[y] + G(T)
        BY <1>2, SumGrows
    <2>3. /\ \A T \in SUBSET S : H(T) \in Int
          /\ \A T \in SUBSET S : \A y \in S \ T : H(T \cup {y}) = h[y] + H(T)
        BY <1>2, SumGrows
    <2> QED
        BY <2>1, <2>2, <2>3
<1> HIDE DEF F, G, H
<1>4. {} \in P
    BY <1>1
<1>5. ASSUME NEW T \in P, NEW y \in S \ T
      PROVE  T \cup {y} \in P
    <2>1. /\ T \in SUBSET S /\ f[y] \in Int /\ g[y] \in Int /\ F(T) \in Int /\ G(T) \in Int
          /\ H(T) = a * F(T) + G(T) /\ h[y] = a * f[y] + g[y]
        BY <1>3
    <2>2. a * (f[y] + F(T)) = a * f[y] + a * F(T) /\ a * f[y] \in Int /\ a * F(T) \in Int
        <3>1. \A u, v \in Int : a * (u + v) = a * u + a * v /\ a * u \in Int /\ a * v \in Int
            OBVIOUS
        <3> QED
            BY <2>1, <3>1
    <2>3. /\ F(T \cup {y}) = f[y] + F(T) /\ G(T \cup {y}) = g[y] + G(T)
          /\ H(T \cup {y}) = h[y] + H(T)
        BY <1>3, <2>1
    <2>4. H(T \cup {y}) = a * F(T \cup {y}) + G(T \cup {y})
        BY <2>1, <2>2, <2>3
    <2> QED
        BY <2>4
<1>6. P \in SUBSET SUBSET S
    OBVIOUS
<1> HIDE DEF P
<1>7. S \in P
    BY <1>4, <1>5, <1>6, SubsetInduction
<1> QED
    BY <1>7 DEF P, F, G, H

(* Where all but one element add nothing, the sum is that element's.       *)
LEMMA SumZero ==
    ASSUME NEW S, IsFiniteSet(S), NEW f, \A x \in S : f[x] = 0
    PROVE  SumFunctionOnSet(f, S) = 0
<1> DEFINE F(T) == SumFunctionOnSet(f, T)
           P == {T \in SUBSET S : F(T) = 0}
<1>1. /\ \A T \in SUBSET S : F(T) \in Int
      /\ \A T \in SUBSET S : \A y \in S \ T : F(T \cup {y}) = f[y] + F(T)
    <2>1. \A x \in S : f[x] \in Int
        OBVIOUS
    <2> QED
        BY <2>1, SumGrows
<1>2. F({}) = 0
    BY SumEmpty
<1> HIDE DEF F
<1>3. ASSUME NEW T \in P, NEW y \in S \ T
      PROVE  T \cup {y} \in P
    <2>1. T \cup {y} \in SUBSET S /\ F(T \cup {y}) = f[y] + F(T)
        BY <1>1
    <2> QED
        BY <2>1
<1>4. P \in SUBSET SUBSET S /\ {} \in P
    BY <1>2
<1> HIDE DEF P
<1>5. S \in P
    BY <1>3, <1>4, SubsetInduction
<1> QED
    BY <1>5 DEF P, F

(* A sum with one term that counts.                                        *)
LEMMA SumOne ==
    ASSUME NEW S, IsFiniteSet(S), NEW f, NEW y \in S, f[y] \in Int,
           \A x \in S \ {y} : f[x] = 0
    PROVE  SumFunctionOnSet(f, S) = f[y]
<1>1. \A x \in S : f[x] \in Int
    OBVIOUS
<1>2. IsFiniteSet(S \ {y})
    BY FS_Subset
<1>3. SumFunctionOnSet(f, S \ {y}) = 0
    BY <1>2, SumZero
<1>4. SumFunctionOnSet(f, S) = f[y] + SumFunctionOnSet(f, S \ {y})
    BY <1>1, SumSplit
<1> QED
    BY <1>3, <1>4

(* Naturals add up to a natural.                                           *)
LEMMA SumNat ==
    ASSUME NEW S, IsFiniteSet(S), NEW f, \A x \in S : f[x] \in Nat
    PROVE  SumFunctionOnSet(f, S) \in Nat
<1> DEFINE F(T) == SumFunctionOnSet(f, T)
           P == {T \in SUBSET S : F(T) \in Nat}
<1>1. /\ \A T \in SUBSET S : F(T) \in Int
      /\ \A T \in SUBSET S : \A y \in S \ T : F(T \cup {y}) = f[y] + F(T)
    <2>1. \A x \in S : f[x] \in Int
        OBVIOUS
    <2> QED
        BY <2>1, SumGrows
<1>2. F({}) = 0
    BY SumEmpty
<1> HIDE DEF F
<1>3. ASSUME NEW T \in P, NEW y \in S \ T
      PROVE  T \cup {y} \in P
    <2>1. T \cup {y} \in SUBSET S /\ F(T \cup {y}) = f[y] + F(T)
        BY <1>1
    <2> QED
        BY <2>1
<1>4. P \in SUBSET SUBSET S /\ {} \in P
    BY <1>2
<1> HIDE DEF P
<1>5. S \in P
    BY <1>3, <1>4, SubsetInduction
<1> QED
    BY <1>5 DEF P, F

(* A sum of ones and zeros counts the ones.                                *)
LEMMA SumCounts ==
    ASSUME NEW S, IsFiniteSet(S), NEW f, NEW ones \in SUBSET S,
           \A x \in S : f[x] = IF x \in ones THEN 1 ELSE 0
    PROVE  SumFunctionOnSet(f, S) = Cardinality(ones)
<1> DEFINE F(T) == SumFunctionOnSet(f, T)
           P == {T \in SUBSET S : F(T) = Cardinality(T \cap ones)}
<1>1. /\ \A T \in SUBSET S : F(T) \in Int
      /\ \A T \in SUBSET S : \A y \in S \ T : F(T \cup {y}) = f[y] + F(T)
    <2>1. \A x \in S : f[x] \in Int
        OBVIOUS
    <2> QED
        BY <2>1, SumGrows
<1>2. F({}) = 0 /\ Cardinality({} \cap ones) = 0
    BY SumEmpty, FS_EmptySet, {} \cap ones = {}
<1> HIDE DEF F
<1>3. ASSUME NEW T \in P, NEW y \in S \ T
      PROVE  T \cup {y} \in P
    <2>1. IsFiniteSet(T \cap ones)
        BY FS_Subset
    <2>2. Cardinality(T \cap ones) \in Nat
        BY <2>1, FS_CardinalityType
    <2>3. CASE y \in ones
        <3>1. (T \cup {y}) \cap ones = (T \cap ones) \cup {y} /\ y \notin T \cap ones
            BY <2>3
        <3>2. Cardinality((T \cup {y}) \cap ones) = Cardinality(T \cap ones) + 1
            BY <2>1, <3>1, FS_AddElement
        <3> QED
            BY <1>1, <2>2, <2>3, <3>2
    <2>4. CASE y \notin ones
        <3>1. (T \cup {y}) \cap ones = T \cap ones /\ T \cup {y} \in SUBSET S
            BY <2>4
        <3>2. F(T \cup {y}) = F(T)
            BY <1>1, <2>4
        <3> QED
            BY <3>1, <3>2
    <2> QED
        BY <2>3, <2>4
<1>4. P \in SUBSET SUBSET S /\ {} \in P
    BY <1>2
<1> HIDE DEF P
<1>5. S \in P
    BY <1>3, <1>4, SubsetInduction
<1>6. S \cap ones = ones
    OBVIOUS
<1> QED
    BY <1>5, <1>6 DEF P, F

(* A sum over two parts without a common element.                          *)
LEMMA SumParts ==
    ASSUME NEW S, IsFiniteSet(S), NEW f, \A x \in S : f[x] \in Int,
           NEW A \in SUBSET S
    PROVE  SumFunctionOnSet(f, S) = SumFunctionOnSet(f, A) + SumFunctionOnSet(f, S \ A)
<1> DEFINE F(T) == SumFunctionOnSet(f, T)
           B == S \ A
           P == {T \in SUBSET B : F(A \cup T) = F(A) + F(T)}
<1>1. \A T \in SUBSET S : F(T) \in Int
    BY SumGrows
<1>2. \A T \in SUBSET S : \A y \in S \ T : F(T \cup {y}) = f[y] + F(T)
    BY SumGrows
<1>3. F({}) = 0 /\ A \cup {} = A
    BY SumEmpty
<1> HIDE DEF F
<1>4. ASSUME NEW T \in P, NEW y \in B \ T
      PROVE  T \cup {y} \in P
    <2>1. A \cup T \in SUBSET S /\ y \in S \ (A \cup T) /\ T \in SUBSET S /\ y \in S \ T
        OBVIOUS
    <2>2. A \cup (T \cup {y}) = (A \cup T) \cup {y}
        OBVIOUS
    <2>3. F(A \cup (T \cup {y})) = f[y] + F(A \cup T) /\ F(T \cup {y}) = f[y] + F(T)
        BY <1>2, <2>1, <2>2
    <2>4. F(A \cup T) = F(A) + F(T) /\ F(A) \in Int /\ F(T) \in Int /\ f[y] \in Int
        BY <1>1, <2>1
    <2>5. F(A \cup (T \cup {y})) = F(A) + F(T \cup {y})
        BY <2>3, <2>4
    <2> QED
        BY <2>5
<1>5. {} \in P /\ P \in SUBSET SUBSET B /\ IsFiniteSet(B)
    BY <1>1, <1>3, FS_Subset
<1>6. A \cup B = S
    OBVIOUS
<1> HIDE DEF P, B
<1>7. B \in P
    BY <1>4, <1>5, SubsetInduction
<1> QED
    BY <1>6, <1>7 DEF P, F, B

-----------------------------------------------------------------------------
(* Powers of two and the arithmetic of packed words.                       *)

(* Every subset of 1 .. n + 1 is a subset of 1 .. n, with n + 1 or without. *)
LEMMA PowerStep ==
    ASSUME NEW n \in Nat
    PROVE  2 ^ 0 = 1 /\ 2 ^ (n + 1) = 2 * 2 ^ n
<1> DEFINE S == 1 .. n
           T == 1 .. n + 1
           Without == SUBSET S
           With == {s \in SUBSET T : n + 1 \in s}
           f == [s \in Without |-> s \cup {n + 1}]
<1>1. IsFiniteSet(S) /\ Cardinality(S) = n /\ IsFiniteSet(T) /\ Cardinality(T) = n + 1
    <2>1. \A m \in Nat : IsFiniteSet(1 .. m) /\ Cardinality(1 .. m) = m
        BY FS_Interval
    <2> QED
        BY <2>1
<1>2. /\ IsFiniteSet(Without) /\ Cardinality(Without) = 2 ^ n
      /\ IsFiniteSet(SUBSET T) /\ Cardinality(SUBSET T) = 2 ^ (n + 1)
    BY <1>1, FS_SUBSET
<1>3. n + 1 \notin S /\ T = S \cup {n + 1}
    OBVIOUS
<1>4. f \in Bijection(Without, With)
    <2> HIDE DEF S, T
    <2>1. f \in [Without -> With]
        BY <1>3
    <2>2. \A s, t \in Without : f[s] = f[t] => s = t
        <3>1. \A s \in Without : f[s] \ {n + 1} = s
            BY <1>3
        <3> QED
            BY <3>1
    <2>3. \A t \in With : \E s \in Without : f[s] = t
        <3> SUFFICES ASSUME NEW t \in With
                     PROVE  \E s \in Without : f[s] = t
            OBVIOUS
        <3>1. t \ {n + 1} \in Without /\ (t \ {n + 1}) \cup {n + 1} = t
            BY <1>3
        <3> QED
            BY <3>1
    <2> HIDE DEF f, Without, With
    <2> QED
        BY <2>1, <2>2, <2>3 DEF Bijection, Injection, Surjection, IsInjective
<1>5. Cardinality(With) = Cardinality(Without) /\ IsFiniteSet(With)
    <2>1. IsFiniteSet(With)
        BY <1>2, FS_Subset
    <2> HIDE DEF f, With, Without
    <2>2. ExistsBijection(Without, With)
        BY <1>4 DEF ExistsBijection
    <2> QED
        BY <1>2, <2>1, <2>2, FS_Bijection
<1>6. SUBSET T = Without \cup With /\ Without \cap With = {}
    <2> HIDE DEF S, T
    <2> QED
        BY <1>3
<1>7. Cardinality(Without \cup With) = 2 ^ n + 2 ^ n - Cardinality(Without \cap With)
    <2> HIDE DEF Without, With
    <2> QED
        BY <1>2, <1>5, FS_Union
<1>8. Cardinality(Without \cap With) = 0
    <2> HIDE DEF Without, With
    <2> QED
        BY <1>6, FS_EmptySet
<1>9. 2 ^ (n + 1) = 2 ^ n + 2 ^ n
    <2>1. 2 ^ n \in Nat
        BY PowersOfTwo
    <2>2. Cardinality(SUBSET T) = 2 ^ n + 2 ^ n - Cardinality(Without \cap With)
        BY <1>6, <1>7
    <2> HIDE DEF T, Without, With
    <2> QED
        BY <1>2, <1>8, <2>1, <2>2
<1> QED
    BY <1>9, PowersOfTwo

(* A power of a sum is the product of the powers.                          *)
LEMMA PowerAdd ==
    ASSUME NEW a \in Nat, NEW b \in Nat
    PROVE  2 ^ (a + b) = 2 ^ a * 2 ^ b
<1> DEFINE N == {n \in Nat : 2 ^ (a + n) = 2 ^ a * 2 ^ n}
<1>1. 2 ^ a \in Nat /\ \A n \in Nat : 2 ^ n \in Nat
    BY PowersOfTwo
<1>2. 0 \in N
    <2>1. 2 ^ 0 = 1 /\ a + 0 = a
        BY PowerStep
    <2>2. 2 ^ a * 1 = 2 ^ a
        BY <1>1
    <2> QED
        BY <2>1, <2>2
<1>3. ASSUME NEW n \in N
      PROVE  n + 1 \in N
    <2>1. a + (n + 1) = (a + n) + 1 /\ a + n \in Nat /\ n \in Nat
        OBVIOUS
    <2>2. 2 ^ ((a + n) + 1) = 2 * 2 ^ (a + n) /\ 2 ^ (n + 1) = 2 * 2 ^ n
        BY <2>1, PowerStep
    <2>3. \A u, v \in Nat : 2 * (u * v) = u * (2 * v)
        OBVIOUS
    <2>4. 2 ^ a * (2 * 2 ^ n) = 2 * (2 ^ a * 2 ^ n)
        BY <1>1, <2>1, <2>3
    <2>5. 2 ^ (a + (n + 1)) = 2 ^ a * 2 ^ (n + 1)
        BY <2>1, <2>2, <2>4
    <2> QED
        BY <2>5
<1>4. N \in SUBSET Nat
    OBVIOUS
<1> HIDE DEF N
<1>5. N = Nat
    BY <1>2, <1>3, <1>4, NatSetInduction
<1> QED
    BY <1>5 DEF N

(* Powers of two grow with their exponent.                                 *)
LEMMA PowerGrows ==
    ASSUME NEW a \in Nat, NEW b \in Nat
    PROVE  /\ a <= b => 2 ^ a <= 2 ^ b
           /\ a < b => 2 ^ a < 2 ^ b
<1>1. \A n \in Nat : 2 ^ n \in Nat \ {0}
    BY PowersOfTwo
<1>2. ASSUME a <= b
      PROVE  2 ^ a <= 2 ^ b
    <2>1. b - a \in Nat /\ b = a + (b - a)
        BY <1>2
    <2>2. 2 ^ b = 2 ^ a * 2 ^ (b - a)
        BY <2>1, PowerAdd
    <2>3. \A u, v \in Nat \ {0} : u <= u * v
        OBVIOUS
    <2>4. 2 ^ a \in Nat \ {0} /\ 2 ^ (b - a) \in Nat \ {0}
        BY <1>1, <2>1
    <2> QED
        BY <2>2, <2>3, <2>4
<1>3. ASSUME a < b
      PROVE  2 ^ a < 2 ^ b
    <2>1. b - a - 1 \in Nat /\ b = (a + (b - a - 1)) + 1 /\ a + (b - a - 1) \in Nat
        BY <1>3
    <2>2. 2 ^ b = 2 * 2 ^ (a + (b - a - 1)) /\ 2 ^ (a + (b - a - 1)) = 2 ^ a * 2 ^ (b - a - 1)
        BY <2>1, PowerAdd, PowerStep
    <2>3. \A u, v \in Nat \ {0} : u < 2 * (u * v)
        <3>1. \A u, v \in Nat \ {0} : u <= u * v /\ u * v \in Nat
            OBVIOUS
        <3> QED
            BY <3>1
    <2>4. 2 ^ a \in Nat \ {0} /\ 2 ^ (b - a - 1) \in Nat \ {0}
        BY <1>1, <2>1
    <2> QED
        BY <2>2, <2>3, <2>4
<1> QED
    BY <1>2, <1>3

(* The length is the only number with its property.                        *)
LEMMA BitLengthIs ==
    ASSUME NEW n \in Nat, NEW b \in Nat \ {0}, n < 2 ^ b, b = 1 \/ 2 ^ (b - 1) <= n
    PROVE  BitLength(n) = b
<1> DEFINE c == BitLength(n)
<1>1. c \in Nat \ {0} /\ n < 2 ^ c /\ (c # 1 => 2 ^ (c - 1) <= n)
    BY BitLengthHolds
<1> HIDE DEF c
<1>2. \A m \in Nat : 2 ^ m \in Nat
    BY PowersOfTwo
<1>3. ~(b < c)
    <2> SUFFICES ASSUME b < c PROVE FALSE
        OBVIOUS
    <2>1. c # 1 /\ b <= c - 1 /\ c - 1 \in Nat
        BY <1>1
    <2>2. 2 ^ b <= 2 ^ (c - 1)
        BY <2>1, PowerGrows
    <2>3. 2 ^ b \in Nat /\ 2 ^ (c - 1) \in Nat
        BY <1>2, <2>1
    <2> QED
        BY <1>1, <2>1, <2>2, <2>3
<1>4. ~(c < b)
    <2> SUFFICES ASSUME c < b PROVE FALSE
        OBVIOUS
    <2>1. b # 1 /\ c <= b - 1 /\ b - 1 \in Nat
        BY <1>1
    <2>2. 2 ^ c <= 2 ^ (b - 1)
        BY <1>1, <2>1, PowerGrows
    <2>3. 2 ^ c \in Nat /\ 2 ^ (b - 1) \in Nat
        BY <1>1, <1>2, <2>1
    <2> QED
        BY <1>1, <2>1, <2>2, <2>3
<1>5. c = b
    BY <1>1, <1>3, <1>4
<1> QED
    BY <1>5 DEF c

(* The length of a power of two, and of the number below it.               *)
LEMMA LengthOfPower ==
    ASSUME NEW w \in Nat \ {0}
    PROVE  /\ BitLength(2 ^ w) = w + 1
           /\ BitLength(2 ^ w - 1) = w
<1>1. 2 ^ w \in Nat \ {0} /\ 2 ^ (w + 1) = 2 * 2 ^ w
    BY PowersOfTwo, PowerStep
<1>2. BitLength(2 ^ w) = w + 1
    <2>1. 2 ^ w < 2 ^ (w + 1) /\ w + 1 \in Nat \ {0} /\ (w + 1) - 1 = w
        BY <1>1
    <2> QED
        BY <1>1, <2>1, BitLengthIs
<1>3. BitLength(2 ^ w - 1) = w
    <2>1. 2 ^ w - 1 \in Nat /\ 2 ^ w - 1 < 2 ^ w
        BY <1>1
    <2>2. w - 1 \in Nat /\ w - 1 < w
        OBVIOUS
    <2>3. 2 ^ (w - 1) < 2 ^ w /\ 2 ^ (w - 1) \in Nat
        BY <2>2, PowerGrows, PowersOfTwo
    <2>4. 2 ^ (w - 1) <= 2 ^ w - 1
        BY <1>1, <2>3
    <2> QED
        BY <2>1, <2>4, BitLengthIs
<1> QED
    BY <1>2, <1>3

(* The top bits of a truncated product are the low ones of its quotient.   *)
LEMMA QuotientOfRemainder ==
    ASSUME NEW x \in Nat, NEW a \in Nat \ {0}, NEW b \in Nat \ {0}
    PROVE  (x % (a * b)) \div a = (x \div a) % b
BY SMTT(30)

-----------------------------------------------------------------------------
(* Several owners' descriptors in one element.                             *)

(* What the preparation accepts of a public shape.                         *)
LEMMA ShapeFacts ==
    ASSUME shape \in Shapes
    PROVE  /\ shape.kind \in {"dense", "compact", "hybrid", "partitioned"}
           /\ shape.perElement \in Nat \ {0} /\ shape.slots \in Nat \ {0}
           /\ \E width \in 0 .. HashWordBits : shape.buckets = 2 ^ width
           /\ shape.kind \in {"compact", "hybrid"} => shape.buckets > 1
           /\ shape.kind = "partitioned" => RelationCount * shape.buckets > 1
           /\ shape.buckets \in Nat \ {0}
<1>1. /\ shape.kind \in {"dense", "compact", "hybrid", "partitioned"}
      /\ shape.perElement \in Nat \ {0} /\ shape.slots \in Nat \ {0}
      /\ \E width \in 0 .. HashWordBits : shape.buckets = 2 ^ width
      /\ shape.kind \in {"compact", "hybrid"} => shape.buckets > 1
      /\ shape.kind = "partitioned" => RelationCount * shape.buckets > 1
    BY DirectoryAssumption
<1>2. \A width \in 0 .. HashWordBits : 2 ^ width \in Nat \ {0}
    BY DirectoryAssumption, PowersOfTwo
<1> QED
    BY <1>1, <1>2

(* Owners are numbered from one.                                           *)
LEMMA OwnersAre == Owners = 1 .. OwnerCount /\ OwnerCount \in Nat \ {0} /\ IsFiniteSet(Owners)
BY Sizes, FS_Interval DEF Owners

\* A descriptor fits the bits it has in an element.
Radix == 2 ^ DescriptorBits
\* The descriptors as digits to that base.
Digits == 0 .. Radix - 1

(* At least one bit, and room for no descriptor at all.                    *)
LEMMA RadixIs == DescriptorBits \in Nat \ {0} /\ Radix \in Nat \ {0} /\ 0 \in Digits
<1>1. PageBaseBits \in Nat \ {0}
    BY PageAssumption, BitLengthHolds, PageBudget - 1 \in Nat DEF PageBaseBits
<1>2. BitLength(PagesPerKey) \in Nat \ {0}
    BY PageAssumption, BitLengthHolds
<1>3. DescriptorBits \in Nat \ {0}
    BY <1>1, <1>2 DEF DescriptorBits
<1>4. Radix \in Nat \ {0}
    BY <1>3, PowersOfTwo DEF Radix
<1> QED
    BY <1>3, <1>4 DEF Digits

\* The owner's place among those that share its column.
PositionOf(o) == (o - 1) % shape.perElement

(* An owner has a column, and a place there that no other owner has.       *)
LEMMA Positions ==
    ASSUME shape \in Shapes, NEW o \in Owners
    PROVE  /\ ColumnOfOwner(o) \in 0 .. Columns - 1
           /\ PositionOf(o) \in Nat
           /\ OffsetOfOwner(o) = PositionOf(o) * DescriptorBits
           /\ OffsetOfOwner(o) \in Nat
           /\ o \in SharingColumn(ColumnOfOwner(o))
           /\ \A p \in SharingColumn(ColumnOfOwner(o)) :
                 PositionOf(p) = PositionOf(o) => p = o
<1> DEFINE P == shape.perElement
<1>1. P \in Nat \ {0} /\ o - 1 \in Nat /\ o \in 1 .. OwnerCount /\ OwnerCount \in Nat
    BY ShapeFacts, OwnersAre
<1>2. PositionOf(o) \in Nat /\ OffsetOfOwner(o) = PositionOf(o) * DescriptorBits
    <2>1. PositionOf(o) = (o - 1) % P /\ OffsetOfOwner(o) = PositionOf(o) * DescriptorBits
        BY DEF PositionOf, OffsetOfOwner
    <2> HIDE DEF P
    <2>2. (o - 1) % P \in 0 .. P - 1
        BY <1>1, DivMod
    <2> QED
        BY <2>1, <2>2
<1>3. OffsetOfOwner(o) \in Nat
    BY <1>2, RadixIs
<1>4. ColumnOfOwner(o) \in 0 .. Columns - 1
    <2> DEFINE q == (o - 1) \div P
               n == (OwnerCount + P - 1) \div P
               rest == (OwnerCount + P - 1) % P
               low == (o - 1) % P
    <2>1. q * P + low = o - 1 /\ low \in 0 .. P - 1 /\ q \in Nat
        BY <1>1, DivMod
    <2>2. n * P + rest = OwnerCount + P - 1 /\ rest \in 0 .. P - 1 /\ n \in Nat
        BY <1>1, DivMod, OwnerCount + P - 1 \in Nat
    <2> HIDE DEF q, n, rest, low, P
    <2>3. q < n
        <3> SUFFICES ASSUME n <= q PROVE FALSE
            BY <2>1, <2>2
        <3>1. n * P <= q * P /\ n * P \in Nat /\ q * P \in Nat
            BY <1>1, <2>1, <2>2, Products
        <3> QED
            BY <1>1, <2>1, <2>2, <3>1
    <2> QED
        BY <2>1, <2>2, <2>3 DEF ColumnOfOwner, Columns, q, n, P
<1>5. o \in SharingColumn(ColumnOfOwner(o))
    BY DEF SharingColumn
<1>6. ASSUME NEW p \in SharingColumn(ColumnOfOwner(o)), PositionOf(p) = PositionOf(o)
      PROVE  p = o
    <2>1. p \in 1 .. OwnerCount /\ (p - 1) \div P = (o - 1) \div P /\ p - 1 \in Nat
        BY OwnersAre DEF SharingColumn, ColumnOfOwner
    <2>2. (p - 1) % P = (o - 1) % P
        BY <1>6 DEF PositionOf
    <2> HIDE DEF P
    <2>3. /\ ((p - 1) \div P) * P + ((p - 1) % P) = p - 1
          /\ ((o - 1) \div P) * P + ((o - 1) % P) = o - 1
        BY <1>1, <2>1, DivMod
    <2>4. p - 1 = o - 1
        BY <2>1, <2>2, <2>3
    <2> QED
        BY <1>1, <2>1, <2>4
<1> QED
    BY <1>2, <1>3, <1>4, <1>5, <1>6

\* What an owner adds to its column.
Weighed(ds, o) == ds[o] * 2 ^ OffsetOfOwner(o)
\* The same, owner by owner of a column.
WeighedColumn(ds, c) == [o \in SharingColumn(c) |-> Weighed(ds, o)]

(* Owners that share a column are finitely many.                           *)
LEMMA ColumnFinite ==
    ASSUME NEW c
    PROVE  IsFiniteSet(SharingColumn(c)) /\ SharingColumn(c) \subseteq Owners
BY OwnersAre, FS_Subset DEF SharingColumn

(* A packed element is the sum of what its owners add.                     *)
LEMMA PackedColumn ==
    ASSUME NEW ds
    PROVE  /\ PackedElements(ds) = [c \in 0 .. Columns - 1 |-> PackedElements(ds)[c]]
           /\ \A c \in 0 .. Columns - 1 :
                 PackedElements(ds)[c] = SumFunctionOnSet(WeighedColumn(ds, c), SharingColumn(c))
<1>1. PackedElements(ds) = [c \in 0 .. Columns - 1 |-> SumFunction(WeighedColumn(ds, c))]
    BY DEF PackedElements, WeighedColumn, Weighed
<1>2. \A c : SumFunction(WeighedColumn(ds, c)) =
             SumFunctionOnSet(WeighedColumn(ds, c), SharingColumn(c))
    BY SumOfFunction DEF WeighedColumn
<1> QED
    BY <1>1, <1>2

(* What an owner adds is a natural number.                                 *)
LEMMA WeighedNatural ==
    ASSUME shape \in Shapes, NEW ds \in [Owners -> Nat], NEW c
    PROVE  /\ \A o \in SharingColumn(c) : WeighedColumn(ds, c)[o] = Weighed(ds, o)
           /\ \A o \in SharingColumn(c) : Weighed(ds, o) \in Nat
<1>1. \A o \in SharingColumn(c) : o \in Owners
    BY DEF SharingColumn
<1>2. \A o \in Owners : OffsetOfOwner(o) \in Nat
    BY Positions
<1>3. \A o \in Owners : 2 ^ OffsetOfOwner(o) \in Nat
    BY <1>2, PowersOfTwo
<1>4. \A o \in Owners : Weighed(ds, o) \in Nat
    BY <1>3 DEF Weighed
<1> QED
    BY <1>1, <1>4 DEF WeighedColumn

\* The descriptors below a position stay below its bits.
LEMMA LowerDigits ==
    ASSUME shape \in Shapes, NEW ds \in [Owners -> Digits], NEW o \in Owners, NEW n \in Nat
    PROVE  LET c == ColumnOfOwner(o)
           IN  SumFunctionOnSet(WeighedColumn(ds, c),
                                {p \in SharingColumn(c) : PositionOf(p) < n})
                   \in 0 .. 2 ^ (n * DescriptorBits) - 1
<1> DEFINE c == ColumnOfOwner(o)
           C == SharingColumn(c)
           f == WeighedColumn(ds, c)
           Lower(m) == {p \in C : PositionOf(p) < m}
           F(m) == SumFunctionOnSet(f, Lower(m))
           Bound(m) == 2 ^ (m * DescriptorBits)
           N == {m \in Nat : F(m) \in 0 .. Bound(m) - 1}
<1>1. \A m \in Nat : Bound(m) \in Nat \ {0} /\ Bound(m + 1) = Bound(m) * Radix
    <2> SUFFICES ASSUME NEW m \in Nat
                 PROVE  Bound(m) \in Nat \ {0} /\ Bound(m + 1) = Bound(m) * Radix
        OBVIOUS
    <2>1. m * DescriptorBits \in Nat /\ (m + 1) * DescriptorBits = m * DescriptorBits + DescriptorBits
        BY RadixIs, Products, m <= m
    <2> QED
        BY <2>1, RadixIs, PowersOfTwo, PowerAdd DEF Radix
<1>2. ds \in [Owners -> Nat] /\ \A p \in Owners : ds[p] \in 0 .. Radix - 1
    BY RadixIs DEF Digits
<1>3. \A p \in C : f[p] = Weighed(ds, p) /\ f[p] \in Nat
    BY <1>2, WeighedNatural
<1>4. IsFiniteSet(C) /\ C \subseteq Owners
    BY ColumnFinite
<1>5. \A p \in C : PositionOf(p) \in Nat
    BY <1>4, Positions
<1>6. \A p, r \in C : PositionOf(p) = PositionOf(r) => p = r
    <2> SUFFICES ASSUME NEW p \in C, NEW r \in C, PositionOf(p) = PositionOf(r)
                 PROVE  p = r
        OBVIOUS
    <2>1. r \in Owners /\ ColumnOfOwner(r) = c
        BY DEF SharingColumn
    <2> HIDE DEF c
    <2> QED
        BY <2>1, Positions
<1>7. \A p \in C : f[p] = ds[p] * Bound(PositionOf(p))
    BY <1>3, <1>4, Positions DEF Weighed
<1> HIDE DEF c, C, f, Bound
<1>8. 0 \in N
    <2>1. Lower(0) = {}
        BY <1>5
    <2>2. F(0) = 0
        BY <2>1, SumEmpty
    <2> QED
        BY <1>1, <2>2
<1>9. ASSUME NEW m \in N
      PROVE  m + 1 \in N
    <2>1. m \in Nat /\ F(m) \in 0 .. Bound(m) - 1
        OBVIOUS
    <2>2. \A d \in 0 .. Radix - 1, b \in Nat \ {0} : \A low \in 0 .. b - 1 :
              d * b + low \in 0 .. b * Radix - 1 /\ low \in 0 .. b * Radix - 1
        <3> SUFFICES ASSUME NEW d \in 0 .. Radix - 1, NEW b \in Nat \ {0}, NEW low \in 0 .. b - 1
                     PROVE  d * b + low \in 0 .. b * Radix - 1 /\ low \in 0 .. b * Radix - 1
            OBVIOUS
        <3>1. Radix \in Nat \ {0} /\ d + 1 <= Radix /\ d \in Nat /\ 1 <= Radix
            BY RadixIs
        <3>2. (d + 1) * b <= Radix * b /\ (d + 1) * b = d * b + b /\ d * b \in Nat
            BY <3>1, Products
        <3>3. Radix * b = b * Radix /\ b * Radix \in Nat
            BY <3>1
        <3> QED
            BY <3>2, <3>3
    <2>3. CASE \E p \in C : PositionOf(p) = m
        <3>1. PICK p \in C : PositionOf(p) = m
            BY <2>3
        <3>2. Lower(m + 1) = Lower(m) \cup {p} /\ p \in C \ Lower(m) /\ Lower(m) \in SUBSET C
            BY <1>5, <1>6, <2>1, <3>1
        <3>3. F(m + 1) = f[p] + F(m)
            <4>1. \A x \in C : f[x] \in Int
                BY <1>3
            <4> HIDE DEF Lower
            <4> QED
                BY <1>4, <3>2, <4>1, SumAdd
        <3>4. f[p] = ds[p] * Bound(m) /\ ds[p] \in 0 .. Radix - 1
            BY <1>2, <1>4, <1>7, <3>1
        <3>5. ds[p] * Bound(m) + F(m) \in 0 .. Bound(m + 1) - 1
            BY <1>1, <2>1, <2>2, <3>4
        <3>6. f[p] + F(m) = ds[p] * Bound(m) + F(m)
            BY <3>4
        <3> QED
            BY <2>1, <3>3, <3>5, <3>6
    <2>4. CASE ~\E p \in C : PositionOf(p) = m
        <3>1. Lower(m + 1) = Lower(m)
            BY <1>5, <2>1, <2>4
        <3>2. 0 \in 0 .. Radix - 1 /\ Bound(m) \in Nat \ {0} /\ Bound(m + 1) = Bound(m) * Radix
            BY <1>1, <2>1, RadixIs
        <3>3. F(m) \in 0 .. Bound(m) * Radix - 1
            BY <2>1, <2>2, <3>2
        <3>4. F(m + 1) = F(m)
            BY <3>1
        <3> QED
            BY <2>1, <3>2, <3>3, <3>4
    <2> QED
        BY <2>3, <2>4
<1>10. N \in SUBSET Nat
    OBVIOUS
<1> HIDE DEF N
<1>11. N = Nat
    BY <1>8, <1>9, <1>10, NatSetInduction
<1> QED
    BY <1>11 DEF N, C, c, f, Bound

\* The descriptors above a position are a multiple of what lies under them.
LEMMA HigherDigits ==
    ASSUME shape \in Shapes, NEW ds \in [Owners -> Digits], NEW o \in Owners
    PROVE  LET c == ColumnOfOwner(o)
           IN  \E high \in Nat :
                  SumFunctionOnSet(WeighedColumn(ds, c),
                                   {p \in SharingColumn(c) : PositionOf(p) > PositionOf(o)})
                      = (2 ^ OffsetOfOwner(o) * Radix) * high
<1> DEFINE c == ColumnOfOwner(o)
           C == SharingColumn(c)
           f == WeighedColumn(ds, c)
           Higher == {p \in C : PositionOf(p) > PositionOf(o)}
           under == 2 ^ OffsetOfOwner(o) * Radix
           Above(p) == (PositionOf(p) - PositionOf(o) - 1) * DescriptorBits
           h == [p \in Higher |-> ds[p] * 2 ^ Above(p)]
           none == [p \in Higher |-> 0]
<1>1. ds \in [Owners -> Nat]
    BY RadixIs DEF Digits
<1>2. IsFiniteSet(C) /\ C \subseteq Owners /\ IsFiniteSet(Higher)
    BY ColumnFinite, FS_Subset
<1>3. \A p \in Owners : /\ PositionOf(p) \in Nat /\ OffsetOfOwner(p) \in Nat
                        /\ OffsetOfOwner(p) = PositionOf(p) * DescriptorBits
    BY Positions
<1>4. ASSUME NEW p \in Higher
      PROVE  /\ h[p] \in Nat
             /\ f[p] = under * h[p] + none[p]
    <2>1. /\ p \in Owners /\ ds[p] \in Nat
          /\ PositionOf(p) \in Nat /\ PositionOf(o) \in Nat /\ PositionOf(o) < PositionOf(p)
        BY <1>1, <1>2, <1>3
    <2>2. f[p] = ds[p] * 2 ^ OffsetOfOwner(p)
        BY <1>1, WeighedNatural DEF Weighed
    <2>3. /\ Above(p) \in Nat
          /\ OffsetOfOwner(p) = (OffsetOfOwner(o) + DescriptorBits) + Above(p)
        <3>1. PICK n \in Nat : PositionOf(p) = PositionOf(o) + 1 + n
            <4>1. PositionOf(p) - PositionOf(o) - 1 \in Nat
                BY <2>1
            <4> QED
                BY <2>1, <4>1
        <3>2. \A a, b, d \in Nat : (a + 1 + b) * d = (a * d + d) + b * d /\ b * d \in Nat
            OBVIOUS
        <3>3. PositionOf(p) - PositionOf(o) - 1 = n
            BY <2>1, <3>1
        <3>4. OffsetOfOwner(p) = (PositionOf(o) * DescriptorBits + DescriptorBits)
                                     + n * DescriptorBits
              /\ n * DescriptorBits \in Nat
            BY <1>3, <2>1, <3>1, <3>2, RadixIs
        <3> QED
            BY <1>3, <3>3, <3>4
    <2>4. 2 ^ OffsetOfOwner(p) = under * 2 ^ Above(p)
        <3>1. OffsetOfOwner(o) \in Nat /\ DescriptorBits \in Nat /\ OffsetOfOwner(o) + DescriptorBits \in Nat
            BY <1>3, RadixIs
        <3>2. 2 ^ ((OffsetOfOwner(o) + DescriptorBits) + Above(p)) =
                  2 ^ (OffsetOfOwner(o) + DescriptorBits) * 2 ^ Above(p)
            BY <2>3, <3>1, PowerAdd
        <3>3. 2 ^ (OffsetOfOwner(o) + DescriptorBits) = under
            BY <3>1, PowerAdd DEF Radix
        <3> HIDE DEF under, Above
        <3> QED
            BY <2>3, <3>2, <3>3
    <2>5. under \in Nat /\ 2 ^ Above(p) \in Nat
        <3>1. 2 ^ OffsetOfOwner(o) \in Nat /\ 2 ^ Above(p) \in Nat
            BY <1>3, <2>3, PowersOfTwo
        <3> QED
            BY <3>1, RadixIs
    <2>6. h[p] = ds[p] * 2 ^ Above(p) /\ none[p] = 0
        OBVIOUS
    <2> HIDE DEF under, Above, h, f, none
    <2>7. \A a, b, d \in Nat : a * (b * d) = b * (a * d) /\ a * d \in Nat /\ b * (a * d) \in Nat
        OBVIOUS
    <2> QED
        BY <2>1, <2>2, <2>4, <2>5, <2>6, <2>7
<1>5. \A p \in Higher : none[p] = 0
    OBVIOUS
<1>6. under \in Nat
    <2>1. 2 ^ OffsetOfOwner(o) \in Nat
        BY <1>3, PowersOfTwo
    <2> QED
        BY <2>1, RadixIs
<1>7. SumFunctionOnSet(f, Higher) = under * SumFunctionOnSet(h, Higher) + SumFunctionOnSet(none, Higher)
    <2>1. \A p \in Higher : h[p] \in Int /\ none[p] \in Int
        BY <1>4, <1>5
    <2> HIDE DEF f, h, none, Higher, under
    <2> QED
        BY <1>2, <1>4, <1>6, <2>1, SumLinear
<1>8. SumFunctionOnSet(none, Higher) = 0 /\ SumFunctionOnSet(h, Higher) \in Nat
    <2> HIDE DEF h, none, Higher
    <2> QED
        BY <1>2, <1>4, <1>5, SumNat, SumZero
<1> HIDE DEF h, none, under
<1>9. SumFunctionOnSet(f, Higher) = under * SumFunctionOnSet(h, Higher)
    <2>1. under * SumFunctionOnSet(h, Higher) \in Nat
        BY <1>6, <1>8
    <2> HIDE DEF Higher
    <2> QED
        BY <1>7, <1>8, <2>1
<1> QED
    BY <1>8, <1>9 DEF under

(* An owner's descriptor comes out of the element it was packed into.      *)
LEMMA UnpackPacked ==
    ASSUME shape \in Shapes, NEW ds \in [Owners -> Digits], NEW o \in Owners
    PROVE  Unpacked(PackedElements(ds), o) = ds[o]
<1> DEFINE c == ColumnOfOwner(o)
           C == SharingColumn(c)
           f == WeighedColumn(ds, c)
           Lower == {p \in C : PositionOf(p) < PositionOf(o)}
           Higher == {p \in C : PositionOf(p) > PositionOf(o)}
           base == 2 ^ OffsetOfOwner(o)
           low == SumFunctionOnSet(f, Lower)
<1>1. /\ c \in 0 .. Columns - 1 /\ o \in C
      /\ PositionOf(o) \in Nat /\ OffsetOfOwner(o) = PositionOf(o) * DescriptorBits
      /\ OffsetOfOwner(o) \in Nat
    BY Positions
<1>2. base \in Nat \ {0}
    BY <1>1, PowersOfTwo
<1>3. low \in 0 .. base - 1
    BY <1>1, LowerDigits
<1>4. PICK high \in Nat : SumFunctionOnSet(f, Higher) = (base * Radix) * high
    BY HigherDigits
<1>5. PackedElements(ds)[c] = SumFunctionOnSet(f, C)
    BY <1>1, PackedColumn
<1>6. ds \in [Owners -> Nat] /\ ds[o] \in 0 .. Radix - 1
    BY RadixIs DEF Digits
<1>7. \A p \in C : f[p] \in Int
    BY <1>6, WeighedNatural
<1>8. f[o] = ds[o] * base
    BY <1>1, <1>6, WeighedNatural DEF Weighed
<1>9. IsFiniteSet(C)
    BY ColumnFinite
<1>10. (C \ {o}) \ Lower = Higher /\ Lower \in SUBSET (C \ {o})
    <2>1. \A p \in C : PositionOf(p) \in Nat
        <3>1. \A p \in C : p \in Owners
            BY ColumnFinite
        <3> QED
            BY <3>1, Positions
    <2>2. \A p \in C : PositionOf(p) = PositionOf(o) => p = o
        BY Positions
    <2> HIDE DEF C
    <2> QED
        BY <1>1, <2>1, <2>2
<1> HIDE DEF c, C, f, Lower, Higher, base
<1>11. SumFunctionOnSet(f, C) = f[o] + (low + SumFunctionOnSet(f, Higher))
    <2>1. SumFunctionOnSet(f, C) = f[o] + SumFunctionOnSet(f, C \ {o})
        BY <1>1, <1>7, <1>9, SumSplit
    <2>2. IsFiniteSet(C \ {o}) /\ \A p \in C \ {o} : f[p] \in Int
        BY <1>7, <1>9, FS_Subset
    <2>3. SumFunctionOnSet(f, C \ {o}) = low + SumFunctionOnSet(f, (C \ {o}) \ Lower)
        BY <1>10, <2>2, SumParts
    <2> QED
        BY <1>10, <2>1, <2>3
<1> HIDE DEF low
<1>12. SumFunctionOnSet(f, C) = low + (ds[o] + high * Radix) * base
    <2>1. \A a, b, d, e \in Nat : a * b + (d + (b * e) * high) = d + (a + high * e) * b
        OBVIOUS
    <2>2. ds[o] \in Nat /\ low \in Nat /\ base \in Nat /\ Radix \in Nat
        BY <1>2, <1>3, <1>6, RadixIs
    <2>3. ds[o] * base + (low + (base * Radix) * high) = low + (ds[o] + high * Radix) * base
        BY <2>1, <2>2
    <2> QED
        BY <1>4, <1>8, <1>11, <2>3
<1>13. (low + (ds[o] + high * Radix) * base) \div base = ds[o] + high * Radix
    <2>1. ds[o] + high * Radix \in Nat
        BY <1>6, RadixIs
    <2>2. low \in Nat /\ low < base
        BY <1>2, <1>3
    <2> QED
        BY <1>2, <2>1, <2>2, Unpacking
<1>14. (ds[o] + high * Radix) % Radix = ds[o]
    <2>1. ds[o] \in Nat /\ ds[o] < Radix
        BY <1>6, RadixIs
    <2> QED
        BY <2>1, RadixIs, Unpacking
<1> QED
    BY <1>5, <1>12, <1>13, <1>14 DEF Unpacked, base, Radix, c

(* The tables of a hop are added up column by column, owner by owner.      *)
LEMMA AddedPacked ==
    ASSUME shape \in Shapes, NEW a \in [Owners -> Nat], NEW b \in [Owners -> Nat]
    PROVE  Added(PackedElements(a), PackedElements(b)) =
               PackedElements([o \in Owners |-> a[o] + b[o]])
<1> DEFINE d == [o \in Owners |-> a[o] + b[o]]
           A == PackedElements(a)
           B == PackedElements(b)
           D == PackedElements(d)
<1>1. d \in [Owners -> Nat] /\ \A o \in Owners : d[o] = a[o] + b[o]
    OBVIOUS
<1> HIDE DEF d
<1>2. ASSUME NEW c \in 0 .. Columns - 1
      PROVE  A[c] + B[c] = D[c]
    <2> DEFINE C == SharingColumn(c)
               fa == WeighedColumn(a, c)
               fb == WeighedColumn(b, c)
               fd == WeighedColumn(d, c)
    <2>1. /\ A[c] = SumFunctionOnSet(fa, C) /\ B[c] = SumFunctionOnSet(fb, C)
          /\ D[c] = SumFunctionOnSet(fd, C)
        BY PackedColumn
    <2>2. IsFiniteSet(C) /\ C \subseteq Owners
        BY ColumnFinite
    <2>3. ASSUME NEW o \in C
          PROVE  fa[o] \in Int /\ fb[o] \in Int /\ fd[o] = 1 * fa[o] + fb[o]
        <3>1. /\ fa[o] = a[o] * 2 ^ OffsetOfOwner(o) /\ fa[o] \in Nat
              /\ fb[o] = b[o] * 2 ^ OffsetOfOwner(o) /\ fb[o] \in Nat
              /\ fd[o] = d[o] * 2 ^ OffsetOfOwner(o)
            BY <1>1, WeighedNatural DEF Weighed
        <3>2. o \in Owners /\ OffsetOfOwner(o) \in Nat
            BY <2>2, Positions
        <3>3. 2 ^ OffsetOfOwner(o) \in Nat /\ a[o] \in Nat /\ b[o] \in Nat
            BY <3>2, PowersOfTwo
        <3>4. \A x, y, z \in Nat : (x + y) * z = x * z + y * z
            OBVIOUS
        <3>5. fd[o] = fa[o] + fb[o]
            BY <1>1, <3>1, <3>2, <3>3, <3>4
        <3> HIDE DEF fa, fb, fd
        <3> QED
            BY <3>1, <3>5
    <2>4. SumFunctionOnSet(fd, C) = 1 * SumFunctionOnSet(fa, C) + SumFunctionOnSet(fb, C)
        <3> HIDE DEF fa, fb, fd, C
        <3> QED
            BY <2>2, <2>3, SumLinear
    <2>5. SumFunctionOnSet(fa, C) \in Int
        <3> HIDE DEF fa, fb, fd, C
        <3> QED
            BY <2>2, <2>3, SumSplit
    <2> HIDE DEF fa, fb, fd, C
    <2> QED
        BY <2>1, <2>4, <2>5
<1>3. D = [c \in 0 .. Columns - 1 |-> D[c]]
    BY PackedColumn
<1> HIDE DEF A, B, D
<1> QED
    BY <1>2, <1>3 DEF Added, A, B, D, d

(* A row of zeros packs no descriptor of any owner.                        *)
LEMMA NothingPacked ==
    ASSUME shape \in Shapes
    PROVE  NoDescriptors = PackedElements([o \in Owners |-> 0])
<1> DEFINE z == [o \in Owners |-> 0]
           Z == PackedElements(z)
<1>1. z \in [Owners -> Nat] /\ \A o \in Owners : z[o] = 0
    OBVIOUS
<1> HIDE DEF z
<1>2. ASSUME NEW c \in 0 .. Columns - 1
      PROVE  Z[c] = 0
    <2> DEFINE C == SharingColumn(c)
               f == WeighedColumn(z, c)
    <2>1. Z[c] = SumFunctionOnSet(f, C) /\ IsFiniteSet(C) /\ C \subseteq Owners
        BY PackedColumn, ColumnFinite
    <2>2. \A o \in C : f[o] = z[o] * 2 ^ OffsetOfOwner(o)
        BY <1>1, WeighedNatural DEF Weighed
    <2>3. \A o \in C : 2 ^ OffsetOfOwner(o) \in Nat
        BY <2>1, Positions, PowersOfTwo
    <2> HIDE DEF f, C
    <2>4. \A o \in C : f[o] = 0
        BY <1>1, <2>1, <2>2, <2>3
    <2> QED
        BY <2>1, <2>4, SumZero
<1>3. Z = [c \in 0 .. Columns - 1 |-> Z[c]]
    BY PackedColumn
<1> HIDE DEF Z
<1> QED
    BY <1>2, <1>3 DEF NoDescriptors, Z, z

-----------------------------------------------------------------------------
(* The ontology's blocks.                                                  *)

(* The least of some numbers is one of them and below the others.          *)
LEMMA LeastIs ==
    ASSUME NEW S \in SUBSET Nat, S # {}
    PROVE  Min(S) \in S /\ \A x \in S : Min(S) <= x
<1>1. \E x \in S : \A y \in S : x <= y
    BY LeastNatural
<1> QED
    BY <1>1 DEF Min

(* Entities are numbered from one, and finitely many.                      *)
LEMMA EntitiesAre == Entities \in SUBSET (Nat \ {0}) /\ IsFiniteSet(Entities)
BY Sizes, FS_Interval DEF Entities

\* Where a relation's domain starts among the entities.
DomainStart(r) == TypeStart(shape.domain[r])

(* A domain is an interval of entities.                                    *)
LEMMA DomainsAre ==
    ASSUME ValidOntology, Hybrid, NEW r \in Relations
    PROVE  /\ DomainStart(r) \in Nat \ {0} /\ BlockWidth(r) \in Nat \ {0}
           /\ MembersOf(shape.domain[r]) = DomainStart(r) .. DomainStart(r) + BlockWidth(r) - 1
           /\ DomainStart(r) + BlockWidth(r) - 1 \in Entities
<1> DEFINE M == MembersOf(shape.domain[r])
<1>1. M # {} /\ M \subseteq Entities
    BY DEF ValidOntology, MembersOf
<1>2. PICK e \in M : TRUE
    BY <1>1
<1>3. e \in Entities /\ shape.typeOf[e] = shape.domain[r]
    BY <1>2 DEF MembersOf
<1>4. M = DomainStart(r) .. DomainStart(r) + BlockWidth(r) - 1
    BY <1>3 DEF ValidOntology, BlockWidth, DomainStart
<1>5. IsFiniteSet(M) /\ M \in SUBSET (Nat \ {0})
    BY <1>1, EntitiesAre, FS_Subset
<1>6. Cardinality(M) \in Nat /\ Cardinality(M) # 0
    BY <1>1, <1>5, FS_CardinalityType, FS_EmptySet
<1>7. DomainStart(r) \in M
    BY <1>1, <1>5, LeastIs DEF DomainStart, TypeStart
<1>8. BlockWidth(r) = Cardinality(M)
    BY DEF BlockWidth, TypeSize
<1> HIDE DEF M
<1>9. DomainStart(r) \in Nat \ {0} /\ BlockWidth(r) \in Nat \ {0}
    BY <1>5, <1>6, <1>7, <1>8
<1>10. DomainStart(r) + BlockWidth(r) - 1 \in M
    BY <1>4, <1>9
<1> QED
    BY <1>1, <1>4, <1>9, <1>10 DEF M

(* The blocks follow one another in the order of relations.                *)
LEMMA BlocksFollow ==
    ASSUME ValidOntology, Hybrid
    PROVE  /\ BlockStart(1) = 1
           /\ \A r \in Relations : BlockStart(r + 1) = BlockStart(r) + BlockWidth(r)
           /\ \A r \in 1 .. RelationCount + 1 : BlockStart(r) \in Nat \ {0}
<1> DEFINE f == [s \in Relations |-> BlockWidth(s)]
<1>1. RelationCount \in Nat \ {0} /\ Relations = 1 .. RelationCount /\ IsFiniteSet(Relations)
    BY Sizes, FS_Interval DEF Relations
<1>2. \A s \in Relations : f[s] = BlockWidth(s) /\ f[s] \in Nat /\ f[s] \in Int
    BY DomainsAre
<1>3. \A r : BlockStart(r) = 1 + SumFunctionOnSet(f, 1 .. r - 1)
    BY DEF BlockStart
<1> HIDE DEF f
<1>4. BlockStart(1) = 1
    <2>1. 1 .. 1 - 1 = {}
        OBVIOUS
    <2>2. SumFunctionOnSet(f, {}) = 0
        BY SumEmpty
    <2> QED
        BY <1>3, <2>1, <2>2
<1>5. ASSUME NEW r \in 1 .. RelationCount + 1
      PROVE  BlockStart(r) \in Nat \ {0}
    <2>1. 1 .. r - 1 \subseteq Relations
        BY <1>1
    <2>2. IsFiniteSet(1 .. r - 1) /\ \A s \in 1 .. r - 1 : f[s] \in Nat
        BY <1>1, <1>2, <2>1, FS_Subset
    <2>3. SumFunctionOnSet(f, 1 .. r - 1) \in Nat
        BY <2>2, SumNat
    <2> QED
        BY <1>3, <2>3
<1>6. ASSUME NEW r \in Relations
      PROVE  BlockStart(r + 1) = BlockStart(r) + BlockWidth(r)
    <2>1. /\ 1 .. r - 1 \in SUBSET Relations /\ r \in Relations \ (1 .. r - 1)
          /\ 1 .. (r + 1) - 1 = (1 .. r - 1) \cup {r}
        BY <1>1
    <2> DEFINE T == 1 .. r - 1
               U == 1 .. (r + 1) - 1
    <2>3. /\ BlockStart(r + 1) = 1 + SumFunctionOnSet(f, U)
          /\ BlockStart(r) = 1 + SumFunctionOnSet(f, T)
          /\ T \in SUBSET Relations /\ r \in Relations \ T /\ U = T \cup {r}
        BY <1>3, <2>1
    <2> HIDE DEF T, U
    <2>2. SumFunctionOnSet(f, T) \in Int /\ SumFunctionOnSet(f, T \cup {r}) = f[r] + SumFunctionOnSet(f, T)
        <3>1. IsFiniteSet(Relations) /\ \A s \in Relations : f[s] \in Int
            BY <1>1, <1>2
        <3> QED
            BY <2>3, <3>1, SumAdd
    <2>4. SumFunctionOnSet(f, U) = f[r] + SumFunctionOnSet(f, T)
        BY <2>2, <2>3
    <2> QED
        BY <1>2, <2>2, <2>3, <2>4
<1> QED
    BY <1>4, <1>5, <1>6

(* No block reaches into a later one.                                      *)
LEMMA BlocksApart ==
    ASSUME ValidOntology, Hybrid, NEW r \in Relations, NEW s \in 1 .. RelationCount + 1, r < s
    PROVE  BlockStart(r) + BlockWidth(r) <= BlockStart(s)
<1> DEFINE N == {n \in Nat : r + 1 + n <= RelationCount + 1 =>
                                BlockStart(r) + BlockWidth(r) <= BlockStart(r + 1 + n)}
<1>1. RelationCount \in Nat \ {0} /\ r \in 1 .. RelationCount
    BY Sizes DEF Relations
<1>2. /\ \A t \in 1 .. RelationCount : BlockStart(t + 1) = BlockStart(t) + BlockWidth(t)
      /\ \A t \in 1 .. RelationCount + 1 : BlockStart(t) \in Nat \ {0}
      /\ \A t \in 1 .. RelationCount : BlockWidth(t) \in Nat \ {0}
    BY BlocksFollow, DomainsAre DEF Relations
<1>3. 0 \in N
    <2>1. r + 1 + 0 = r + 1 /\ BlockStart(r + 1) = BlockStart(r) + BlockWidth(r)
        BY <1>1, <1>2
    <2>2. BlockStart(r) + BlockWidth(r) \in Nat
        BY <1>1, <1>2
    <2> QED
        BY <2>1, <2>2
<1>4. ASSUME NEW n \in N
      PROVE  n + 1 \in N
    <2> SUFFICES ASSUME r + 1 + (n + 1) <= RelationCount + 1
                 PROVE  BlockStart(r) + BlockWidth(r) <= BlockStart(r + 1 + (n + 1))
        OBVIOUS
    <2> DEFINE t == r + 1 + n
    <2>1. t \in 1 .. RelationCount /\ t <= RelationCount + 1 /\ r + 1 + (n + 1) = t + 1
        BY <1>1
    <2>2. BlockStart(r) + BlockWidth(r) <= BlockStart(t)
        BY <2>1
    <2> HIDE DEF t
    <2>3. BlockStart(t + 1) = BlockStart(t) + BlockWidth(t)
        BY <1>2, <2>1
    <2>4. BlockStart(t) \in Nat /\ BlockWidth(t) \in Nat /\ BlockStart(r) + BlockWidth(r) \in Nat
        <3>1. t \in 1 .. RelationCount + 1
            BY <1>1, <2>1
        <3> QED
            BY <1>1, <1>2, <2>1, <3>1
    <2>5. BlockStart(r + 1 + (n + 1)) = BlockStart(t + 1)
        BY <2>1
    <2> QED
        BY <2>2, <2>3, <2>4, <2>5
<1>5. N \in SUBSET Nat
    OBVIOUS
<1> HIDE DEF N
<1>6. N = Nat
    BY <1>3, <1>4, <1>5, NatSetInduction
<1>7. s - r - 1 \in Nat /\ r + 1 + (s - r - 1) = s /\ s <= RelationCount + 1
    BY <1>1
<1> QED
    BY <1>6, <1>7 DEF N

-----------------------------------------------------------------------------
(* Keys and their rows in the primary table.                               *)

(* A key gives back its entity and its relation.                           *)
LEMMA KeyParts ==
    ASSUME NEW e \in Nat, NEW r \in Relations
    PROVE  /\ EntityOf(DirectoryIndex(e, r)) = e
           /\ RelationOf(DirectoryIndex(e, r)) = r
           /\ DirectoryIndex(e, r) \in Nat
<1>1. RelationCount \in Nat \ {0} /\ r \in 1 .. RelationCount
    BY Sizes DEF Relations
<1>2. r - 1 \in Nat /\ r - 1 < RelationCount
    BY <1>1
<1>3. /\ (r - 1) + e * RelationCount \in Nat
      /\ ((r - 1) + e * RelationCount) % RelationCount = r - 1
      /\ ((r - 1) + e * RelationCount) \div RelationCount = e
    BY <1>1, <1>2, Unpacking
<1>4. DirectoryIndex(e, r) = (r - 1) + e * RelationCount
    <2>1. e * RelationCount \in Nat
        BY <1>1
    <2> QED
        BY <1>1, <2>1 DEF DirectoryIndex
<1> QED
    BY <1>1, <1>3, <1>4 DEF EntityOf, RelationOf

(* Every number is the key of an entity and a relation.                    *)
LEMMA KeyOfParts ==
    ASSUME NEW k \in Nat
    PROVE  /\ EntityOf(k) \in Nat /\ RelationOf(k) \in Relations
           /\ k = DirectoryIndex(EntityOf(k), RelationOf(k))
<1>1. RelationCount \in Nat \ {0}
    BY Sizes
<1>2. /\ (k \div RelationCount) * RelationCount + (k % RelationCount) = k
      /\ k % RelationCount \in 0 .. RelationCount - 1 /\ k \div RelationCount \in Nat
    BY <1>1, DivMod
<1>3. (k \div RelationCount) * RelationCount \in Nat
    BY <1>1, <1>2
<1> QED
    BY <1>1, <1>2, <1>3 DEF EntityOf, RelationOf, Relations, DirectoryIndex

(* A query's key is in order when both its parts are, and only then.       *)
LEMMA KeyOkIs ==
    ASSUME NEW e \in 0 .. EntityCount, NEW r \in 0 .. RelationCount + 1
    PROVE  /\ KeyOk(e, r) <=> e \in Entities /\ r \in Relations
           /\ KeyOk(e, r) => DirectoryIndex(e, r) \in AllKeys
           /\ RelationOk(r) <=> r \in Relations
           /\ PickedRelation(r) \in Relations
           /\ r \in Relations => PickedRelation(r) = r
<1>1. EntityCount \in Nat \ {0} /\ RelationCount \in Nat \ {0}
    BY Sizes
<1>2. KeyOk(e, r) <=> e \in Entities /\ r \in Relations
    BY <1>1 DEF KeyOk, Entities, Relations
<1>3. KeyOk(e, r) => DirectoryIndex(e, r) \in AllKeys
    BY <1>2, IndexInDirectory DEF Entities, Relations
<1>4. RelationOk(r) <=> r \in Relations
    BY <1>1 DEF RelationOk, Relations
<1>5. 1 \in Relations
    BY <1>1 DEF Relations
<1> QED
    BY <1>2, <1>3, <1>4, <1>5 DEF PickedRelation

(* The row of a key in its relation's block.                               *)
LEMMA RowInBlock ==
    ASSUME ValidOntology, Hybrid, NEW k \in Nat, OwnBlock(k)
    PROVE  LET r == RelationOf(k)
           IN  /\ EntityOf(k) \in DomainStart(r) .. DomainStart(r) + BlockWidth(r) - 1
               /\ PrimaryRow(k) = BlockStart(r) + (EntityOf(k) - DomainStart(r))
               /\ PrimaryRow(k) \in BlockStart(r) .. BlockStart(r) + BlockWidth(r) - 1
               /\ PrimaryRow(k) \in 1 .. PrimaryRows - 1
<1> DEFINE r == RelationOf(k)
           e == EntityOf(k)
<1>1. r \in Relations /\ e \in Nat
    BY KeyOfParts
<1>2. e \in DomainStart(r) .. DomainStart(r) + BlockWidth(r) - 1
    BY DEF OwnBlock, DomainStart
<1>3. PrimaryRow(k) = BlockStart(r) - DomainStart(r) + e
    BY DEF PrimaryRow, Coefficient, DomainStart
<1>4. DomainStart(r) \in Nat \ {0} /\ BlockWidth(r) \in Nat \ {0}
    BY <1>1, DomainsAre
<1>5. /\ RelationCount \in Nat /\ RelationCount + 1 \in 1 .. RelationCount + 1
      /\ r \in 1 .. RelationCount + 1 /\ r < RelationCount + 1
    BY <1>1, Sizes DEF Relations
<1>6. BlockStart(r) \in Nat \ {0} /\ BlockStart(RelationCount + 1) \in Nat \ {0}
    BY <1>5, BlocksFollow
<1>7. BlockStart(r) + BlockWidth(r) <= BlockStart(RelationCount + 1)
    BY <1>1, <1>5, BlocksApart
<1>8. PrimaryRows = BlockStart(RelationCount + 1)
    BY DEF PrimaryRows
<1> HIDE DEF r, e
<1>9. PrimaryRow(k) = BlockStart(r) + (e - DomainStart(r))
    BY <1>1, <1>3, <1>4, <1>6
<1>10. PrimaryRow(k) \in BlockStart(r) .. BlockStart(r) + BlockWidth(r) - 1
    BY <1>1, <1>2, <1>4, <1>6, <1>9
<1>11. PrimaryRow(k) \in 1 .. PrimaryRows - 1
    BY <1>4, <1>6, <1>7, <1>8, <1>10
<1> QED
    BY <1>2, <1>9, <1>10, <1>11 DEF r, e

(* No two keys of the ontology have one row.                               *)
LEMMA BlockRowsApart ==
    ASSUME ValidOntology, Hybrid, NEW j \in Nat, NEW k \in Nat, OwnBlock(j), OwnBlock(k),
           PrimaryRow(j) = PrimaryRow(k)
    PROVE  j = k
<1> DEFINE r == RelationOf(k)
           s == RelationOf(j)
<1>1. /\ r \in Relations /\ s \in Relations /\ EntityOf(k) \in Nat /\ EntityOf(j) \in Nat
      /\ k = DirectoryIndex(EntityOf(k), r) /\ j = DirectoryIndex(EntityOf(j), s)
    BY KeyOfParts
<1>2. /\ PrimaryRow(k) = BlockStart(r) + (EntityOf(k) - DomainStart(r))
      /\ PrimaryRow(k) \in BlockStart(r) .. BlockStart(r) + BlockWidth(r) - 1
      /\ PrimaryRow(j) = BlockStart(s) + (EntityOf(j) - DomainStart(s))
      /\ PrimaryRow(j) \in BlockStart(s) .. BlockStart(s) + BlockWidth(s) - 1
    BY RowInBlock
<1>3. /\ r \in 1 .. RelationCount + 1 /\ s \in 1 .. RelationCount + 1 /\ RelationCount \in Nat
    BY <1>1, Sizes DEF Relations
<1>4. /\ BlockStart(r) \in Nat /\ BlockStart(s) \in Nat
      /\ BlockWidth(r) \in Nat /\ BlockWidth(s) \in Nat
      /\ DomainStart(r) \in Nat /\ DomainStart(s) \in Nat
    BY <1>1, <1>3, BlocksFollow, DomainsAre
<1>5. /\ r < s => BlockStart(r) + BlockWidth(r) <= BlockStart(s)
      /\ s < r => BlockStart(s) + BlockWidth(s) <= BlockStart(r)
    BY <1>1, <1>3, BlocksApart
<1> HIDE DEF r, s
<1>6. r = s
    BY <1>2, <1>3, <1>4, <1>5
<1>7. EntityOf(j) = EntityOf(k)
    BY <1>1, <1>2, <1>4, <1>6
<1> QED
    BY <1>1, <1>6, <1>7

-----------------------------------------------------------------------------
(* What an owner's tables hold.                                            *)

\* Only keys of entities are stored, in descriptors of the public width.
DirectoryInv ==
    /\ shape \in Shapes
    /\ directory \in [Owners -> [AllKeys -> Nat]]
    /\ \A o \in Owners, k \in AllKeys :
          /\ directory[o][k] \in Digits
          /\ directory[o][k] # EmptyDescriptor => EntityOf(k) \in Entities

\* The primary table has a row for the key.
HasRow(k) ==
    CASE Hybrid -> OwnBlock(k)
      [] shape.kind = "dense" -> TRUE
      [] OTHER -> FALSE

(* A stored key goes to the primary table or to the hashed one, by kind.   *)
LEMMA HasRowIs ==
    /\ \A k : Hybrid => (HasRow(k) <=> OwnBlock(k))
    /\ \A k : shape.kind = "dense" => HasRow(k)
    /\ \A k : shape.kind = "compact" => ~HasRow(k)
    /\ \A o : InPrimary(o) = {k \in Stored(o) : HasRow(k)}
    /\ \A o : InHashed(o) = {k \in Stored(o) : ~HasRow(k)}
<1>1. CASE Hybrid
    <2>1. \A k : HasRow(k) <=> OwnBlock(k)
        BY <1>1 DEF HasRow, Hybrid
    <2>2. \A o : InPrimary(o) = {k \in Stored(o) : OwnBlock(k)}
        BY <1>1 DEF InPrimary, Hybrid
    <2> QED
        BY <1>1, <2>1, <2>2 DEF Hybrid, InHashed
<1>2. CASE ~Hybrid /\ shape.kind = "dense"
    <2>1. \A k : HasRow(k)
        BY <1>2 DEF HasRow
    <2>2. \A o : InPrimary(o) = Stored(o)
        BY <1>2 DEF InPrimary
    <2> QED
        BY <1>2, <2>1, <2>2 DEF InHashed
<1>3. CASE ~Hybrid /\ shape.kind # "dense"
    <2>1. \A k : ~HasRow(k)
        BY <1>3 DEF HasRow
    <2>2. \A o : InPrimary(o) = {}
        BY <1>3 DEF InPrimary
    <2> QED
        BY <1>3, <2>1, <2>2 DEF InHashed
<1> QED
    BY <1>1, <1>2, <1>3

(* An owner stores finitely many keys, and no descriptor for others.       *)
LEMMA StoredAre ==
    ASSUME DirectoryInv, NEW o \in Owners
    PROVE  /\ Stored(o) \in SUBSET AllKeys /\ IsFiniteSet(Stored(o))
           /\ \A k \in Stored(o) : k \in Nat /\ EntityOf(k) \in Entities
           /\ \A k \in AllKeys : k \notin Stored(o) => directory[o][k] = 0
<1>1. Stored(o) \in SUBSET AllKeys
    BY DEF Stored, AllKeys
<1>2. IsFiniteSet(AllKeys) /\ AllKeys \subseteq Nat
    BY Sizes, FS_Interval DEF AllKeys
<1>3. \A k \in Stored(o) : EntityOf(k) \in Entities
    BY <1>1 DEF DirectoryInv, Stored
<1>4. \A k \in AllKeys : k \notin Stored(o) => directory[o][k] = 0
    BY DEF Stored, AllKeys, EmptyDescriptor
<1> QED
    BY <1>1, <1>2, <1>3, <1>4, FS_Subset

(* No two keys with a row have the same one.                               *)
LEMMA RowsApart ==
    ASSUME ValidOntology, shape \in Shapes, NEW j \in Nat, NEW k \in Nat,
           HasRow(j), HasRow(k), PrimaryRow(j) = PrimaryRow(k)
    PROVE  j = k
<1>1. CASE Hybrid
    BY <1>1, BlockRowsApart, HasRowIs
<1>2. CASE ~Hybrid
    BY <1>2 DEF PrimaryRow
<1> QED
    BY <1>1, <1>2

(* A row lies inside the primary table.                                    *)
LEMMA RowsAre ==
    ASSUME ValidOntology, shape \in Shapes, NEW k \in AllKeys, HasRow(k)
    PROVE  PrimaryRow(k) \in 0 .. PrimaryRows - 1
<1>1. k \in Nat
    BY Sizes DEF AllKeys
<1>2. CASE Hybrid
    <2>1. PrimaryRow(k) \in 1 .. PrimaryRows - 1
        BY <1>1, <1>2, RowInBlock, HasRowIs
    <2>2. PrimaryRows \in Nat
        BY <1>2, BlocksFollow, Sizes DEF PrimaryRows
    <2> QED
        BY <2>1, <2>2
<1>3. CASE ~Hybrid
    BY <1>3 DEF PrimaryRow, PrimaryRows, AllKeys
<1> QED
    BY <1>2, <1>3

(* A key's row holds its descriptor, and the dummy row of the blocks none. *)
LEMMA PrimaryHolds ==
    ASSUME DirectoryInv, ValidOntology, NEW o \in Owners
    PROVE  /\ \A k \in AllKeys :
                 HasRow(k) => PrimaryVector(o)[PrimaryRow(k)] = directory[o][k]
           /\ Hybrid => PrimaryVector(o)[0] = 0 /\ 0 \in 0 .. PrimaryRows - 1
<1> DEFINE At(row) == {k \in InPrimary(o) : PrimaryRow(k) = row}
<1>1. \A row \in 0 .. PrimaryRows - 1 :
          PrimaryVector(o)[row] = SumFunctionOnSet(directory[o], At(row))
    BY DEF PrimaryVector
<1>2. InPrimary(o) = {k \in Stored(o) : HasRow(k)}
    BY HasRowIs
<1>3. shape \in Shapes
    BY DEF DirectoryInv
<1>4. ASSUME NEW k \in AllKeys, HasRow(k)
      PROVE  PrimaryVector(o)[PrimaryRow(k)] = directory[o][k]
    <2>1. PrimaryVector(o)[PrimaryRow(k)] = SumFunctionOnSet(directory[o], At(PrimaryRow(k)))
        BY <1>1, <1>3, <1>4, RowsAre
    <2>2. k \in Nat
        BY Sizes DEF AllKeys
    <2>3. \A j \in At(PrimaryRow(k)) : j = k
        BY <1>2, <1>3, <1>4, <2>2, RowsApart, StoredAre
    <2>4. CASE k \in Stored(o)
        <3>1. At(PrimaryRow(k)) = {k}
            BY <1>2, <1>4, <2>3, <2>4
        <3>2. directory[o][k] \in Int
            BY DEF DirectoryInv
        <3>3. SumFunctionOnSet(directory[o], {k}) = directory[o][k]
            BY <3>2, FS_Singleton, SumOne, k \in {k}
        <3> QED
            BY <2>1, <3>1, <3>3
    <2>5. CASE k \notin Stored(o)
        <3>1. At(PrimaryRow(k)) = {}
            BY <1>2, <2>3, <2>5
        <3> QED
            BY <2>1, <2>5, <3>1, SumEmpty, StoredAre
    <2> QED
        BY <2>4, <2>5
<1>5. ASSUME Hybrid
      PROVE  PrimaryVector(o)[0] = 0 /\ 0 \in 0 .. PrimaryRows - 1
    <2>1. \A k \in InPrimary(o) : PrimaryRow(k) # 0
        <3>1. \A k \in InPrimary(o) : k \in Nat /\ OwnBlock(k)
            BY <1>2, <1>5, HasRowIs, StoredAre
        <3>2. \A k \in Nat : OwnBlock(k) => PrimaryRow(k) \in 1 .. PrimaryRows - 1
            BY <1>5, RowInBlock
        <3>3. PrimaryRows \in Nat
            BY <1>5, BlocksFollow, Sizes DEF PrimaryRows
        <3> QED
            BY <3>1, <3>2, <3>3
    <2>2. At(0) = {}
        BY <2>1
    <2>3. 0 \in 0 .. PrimaryRows - 1
        <3>1. RelationCount + 1 \in 1 .. RelationCount + 1
            BY Sizes
        <3>2. BlockStart(RelationCount + 1) \in Nat \ {0}
            BY <1>5, <3>1, BlocksFollow
        <3> QED
            BY <1>5, <3>2 DEF PrimaryRows
    <2> QED
        BY <1>1, <2>2, <2>3, SumEmpty
<1> QED
    BY <1>4, <1>5

-----------------------------------------------------------------------------
(* Buckets and tags.                                                       *)

(* The owners' hash and the circuit's name the same bucket.                *)
LEMMA BucketsAgree ==
    ASSUME shape \in Shapes, NEW tag \in Nat
    PROVE  /\ CircuitBucket(tag) = BucketOf(tag)
           /\ BucketOf(tag) \in 0 .. shape.buckets - 1
<1>1. PICK w \in 0 .. HashWordBits : shape.buckets = 2 ^ w
    BY ShapeFacts
<1>2. HashWordBits \in Nat \ {0} /\ Multiplier \in Nat
    BY DirectoryAssumption
<1>3. CASE shape.buckets = 1
    BY <1>3 DEF CircuitBucket, BucketOf
<1>4. CASE shape.buckets # 1
    <2> DEFINE x == tag * Multiplier
               low == 2 ^ (HashWordBits - w)
               high == 2 ^ w
    <2>1. w # 0
        <3>1. w = 0 => shape.buckets = 1
            BY <1>1, PowerStep, 0 \in Nat
        <3> QED
            BY <1>4, <3>1
    <2>2. w \in Nat \ {0} /\ HashWordBits - w \in Nat /\ HashWordBits = (HashWordBits - w) + w
        BY <1>1, <1>2, <2>1
    <2>3. BitLength(shape.buckets) - 1 = w /\ BitLength(shape.buckets - 1) = w
        BY <1>1, <2>2, LengthOfPower
    <2>4. 2 ^ HashWordBits = low * high /\ low \in Nat \ {0} /\ high \in Nat \ {0}
        BY <2>2, PowerAdd, PowersOfTwo
    <2>5. BucketOf(tag) = (x % (low * high)) \div low
        BY <1>4, <2>3, <2>4 DEF BucketOf, BucketBits
    <2>6. CircuitBucket(tag) = (x \div low) % high
        BY <1>4, <2>3 DEF CircuitBucket
    <2>7. x \in Nat
        BY <1>2
    <2> HIDE DEF x, low, high
    <2>8. BucketOf(tag) = (x \div low) % high
        BY <2>4, <2>5, <2>7, QuotientOfRemainder
    <2>9. x \div low \in Nat
        BY <2>4, <2>7, DivMod
    <2>10. (x \div low) % high \in 0 .. high - 1
        BY <2>4, <2>9, DivMod
    <2> QED
        BY <1>1, <2>6, <2>8, <2>10 DEF high
<1> QED
    BY <1>3, <1>4

\* Where a read looks for a key, and the rows it may look at.
HashedRowAt(r, tag) ==
    IF Partitioned THEN (r - 1) * shape.buckets + BucketOf(tag) ELSE BucketOf(tag)

(* A read names a row of the hashed table.                                 *)
LEMMA HashedRowsHold ==
    ASSUME shape \in Shapes, NEW r \in Relations, NEW tag \in Nat
    PROVE  HashedRowAt(r, tag) \in 0 .. HashedRows - 1
<1>1. shape.buckets \in Nat \ {0} /\ BucketOf(tag) \in 0 .. shape.buckets - 1
    BY ShapeFacts, BucketsAgree
<1>2. CASE ~Partitioned
    BY <1>1, <1>2 DEF HashedRowAt, HashedRows
<1>3. CASE Partitioned
    <2> DEFINE b == shape.buckets
               logical == RelationCount * b
    <2>1. logical > 1 /\ logical \in Nat
        BY <1>1, <1>3, ShapeFacts, Sizes DEF Partitioned
    <2>2. HashedRows = 2 ^ BitLength(logical - 1)
        BY <1>3, <2>1 DEF HashedRows
    <2>3. r - 1 \in Nat /\ (r - 1) + 1 = r /\ r \in Nat /\ r <= RelationCount /\ RelationCount \in Nat
        BY Sizes DEF Relations
    <2>4. ((r - 1) + 1) * b = (r - 1) * b + b /\ r * b <= logical /\ (r - 1) * b \in Nat
        BY <1>1, <2>3, Products
    <2> HIDE DEF logical
    <2>5. BitLength(logical - 1) \in Nat /\ logical - 1 < 2 ^ BitLength(logical - 1)
        BY <2>1, BitLengthHolds
    <2>6. 2 ^ BitLength(logical - 1) \in Nat
        BY <2>5, PowersOfTwo
    <2>7. (r - 1) * b + BucketOf(tag) \in 0 .. logical - 1
        <3>1. r * b = (r - 1) * b + b
            BY <2>3, <2>4
        <3> HIDE DEF b
        <3>2. b \in Nat /\ BucketOf(tag) \in 0 .. b - 1
            BY <1>1 DEF b
        <3> DEFINE m == (r - 1) * b
                   n == r * b
        <3>3. m \in Nat /\ n = m + b /\ n <= logical
            BY <2>4, <3>1
        <3> HIDE DEF m, n
        <3>4. m + BucketOf(tag) \in 0 .. logical - 1
            BY <2>1, <3>2, <3>3
        <3> QED
            BY <3>4 DEF m
    <2>8. HashedRowAt(r, tag) = (r - 1) * b + BucketOf(tag)
        BY <1>3 DEF HashedRowAt
    <2> QED
        BY <2>1, <2>2, <2>5, <2>6, <2>7, <2>8
<1> QED
    BY <1>2, <1>3

\* The tags that are told apart.
Tags == 0 .. 2 ^ TagBits - 1

(* A tag fits its bits, is never zero, and the row follows from it.        *)
LEMMA TagsFit ==
    ASSUME shape \in Shapes, NEW k \in AllKeys
    PROVE  /\ TagOf(k) \in Tags /\ TagOf(k) \in Nat \ {0} /\ 0 \in Tags
           /\ HashedRow(k) = HashedRowAt(RelationOf(k), TagOf(k))
           /\ HashedRow(k) \in 0 .. HashedRows - 1
<1>1. k \in Nat /\ k < DirectoryRows /\ DirectoryRows \in Nat /\ EntityCount \in Nat /\ RelationCount \in Nat \ {0}
    BY Sizes DEF AllKeys
<1> DEFINE n == IF Partitioned THEN EntityCount ELSE DirectoryRows
<1>2. TagOf(k) \in 1 .. n
    <2>1. CASE ~Partitioned
        BY <1>1, <2>1 DEF TagOf
    <2>2. CASE Partitioned
        <3> DEFINE q == k \div RelationCount
        <3>1. q * RelationCount + (k % RelationCount) = k /\ q \in Nat /\ k % RelationCount \in Nat
            BY <1>1, DivMod
        <3> HIDE DEF q
        <3>2. q < EntityCount
            <4> SUFFICES ASSUME EntityCount <= q PROVE FALSE
                BY <1>1, <3>1
            <4>1. EntityCount * RelationCount <= q * RelationCount /\ q * RelationCount \in Nat
                BY <1>1, <3>1, Products
            <4> QED
                BY <1>1, <3>1, <4>1, Sizes
        <3>3. TagOf(k) = q + 1
            BY <2>2 DEF TagOf, EntityOf, q
        <3> QED
            BY <1>1, <2>2, <3>1, <3>2, <3>3
    <2> QED
        BY <2>1, <2>2
<1>3. n \in Nat /\ TagBits = BitLength(n)
    BY <1>1 DEF TagBits
<1> HIDE DEF n
<1>4. TagBits \in Nat /\ n < 2 ^ TagBits
    BY <1>3, BitLengthHolds
<1>5. 2 ^ TagBits \in Nat \ {0}
    BY <1>4, PowersOfTwo
<1>6. TagOf(k) \in Tags /\ TagOf(k) \in Nat \ {0} /\ 0 \in Tags
    BY <1>2, <1>3, <1>4, <1>5 DEF Tags
<1>7. HashedRow(k) = HashedRowAt(RelationOf(k), TagOf(k))
    BY DEF HashedRow, HashedRowAt
<1>8. RelationOf(k) \in Relations
    BY <1>1, KeyOfParts
<1> QED
    BY <1>6, <1>7, <1>8, HashedRowsHold

(* No two keys of a row have one tag.                                      *)
LEMMA TagsApart ==
    ASSUME shape \in Shapes, NEW j \in AllKeys, NEW k \in AllKeys,
           HashedRow(j) = HashedRow(k), TagOf(j) = TagOf(k)
    PROVE  j = k
<1>1. j \in Nat /\ k \in Nat
    BY Sizes DEF AllKeys
<1>2. CASE ~Partitioned
    BY <1>1, <1>2 DEF TagOf
<1>3. CASE Partitioned
    <2> DEFINE b == shape.buckets
               c == BucketOf(TagOf(k))
    <2>1. TagOf(k) \in Nat /\ b \in Nat \ {0}
        BY TagsFit, ShapeFacts
    <2>2. c \in 0 .. b - 1
        BY <2>1, BucketsAgree
    <2>3. (RelationOf(j) - 1) * b + c = (RelationOf(k) - 1) * b + c
        BY <1>3 DEF HashedRow
    <2>4. RelationOf(j) - 1 \in Nat /\ RelationOf(k) - 1 \in Nat
        BY <1>1, KeyOfParts, Sizes DEF Relations
    <2>5. EntityOf(j) = EntityOf(k)
        <3>1. EntityOf(j) + 1 = EntityOf(k) + 1
            BY <1>3 DEF TagOf
        <3>2. EntityOf(j) \in Nat /\ EntityOf(k) \in Nat
            BY <1>1, KeyOfParts
        <3> QED
            BY <3>1, <3>2
    <2> HIDE DEF b, c
    <2>6. \A m \in Nat : m * b + c = c + m * b
        BY <2>1, <2>2
    <2>7. \A m \in Nat : (m * b + c) \div b = m
        BY <2>1, <2>2, <2>6, Unpacking
    <2>8. RelationOf(j) - 1 = RelationOf(k) - 1
        BY <2>3, <2>4, <2>7
    <2>9. RelationOf(j) = RelationOf(k)
        BY <1>1, <2>8, KeyOfParts, Sizes DEF Relations
    <2> QED
        BY <1>1, <2>5, <2>9, KeyOfParts
<1> QED
    BY <1>2, <1>3

-----------------------------------------------------------------------------
(* Slots of a bucket.                                                      *)

(* A bucket holds the stored keys of its row that have no primary row.     *)
LEMMA SharingAre ==
    ASSUME DirectoryInv, NEW o \in Owners, NEW row
    PROVE  /\ IsFiniteSet(SharingRow(o, row)) /\ SharingRow(o, row) \in SUBSET AllKeys
           /\ SharingRow(o, row) \subseteq Stored(o)
           /\ \A k \in SharingRow(o, row) : HashedRow(k) = row /\ ~HasRow(k)
           /\ \A k \in AllKeys : ~HasRow(k) /\ HashedRow(k) = row =>
                 (k \in SharingRow(o, row) <=> k \in Stored(o))
<1>1. SharingRow(o, row) = {k \in Stored(o) : ~HasRow(k) /\ HashedRow(k) = row}
    BY HasRowIs DEF SharingRow
<1>2. Stored(o) \in SUBSET AllKeys /\ IsFiniteSet(Stored(o))
    BY StoredAre
<1>3. IsFiniteSet(SharingRow(o, row))
    BY <1>1, <1>2, FS_Subset
<1> QED
    BY <1>1, <1>2, <1>3

\* The keys of a row in the order of their tags.
TagOrder(o, row) ==
    {p \in SharingRow(o, row) \X SharingRow(o, row) : TagOf(p[1]) < TagOf(p[2])}
\* Where a key comes in that order.
TagRank(o, row, k) == RankOf(TagOrder(o, row), SharingRow(o, row), k)

(* Each key of a bucket has a column of its own, among its owner's.        *)
LEMMA ColumnsApart ==
    ASSUME DirectoryInv, NEW o \in Owners, NEW row \in 0 .. HashedRows - 1, BucketsHold(o)
    PROVE  /\ \A k \in SharingRow(o, row) :
                 /\ TagRank(o, row, k) \in 0 .. shape.slots - 1
                 /\ ColumnOf(o, k) = (o - 1) * shape.slots + TagRank(o, row, k)
           /\ \A j, k \in SharingRow(o, row) :
                 TagRank(o, row, j) = TagRank(o, row, k) => j = k
<1> DEFINE S == SharingRow(o, row)
           R == TagOrder(o, row)
<1>1. IsFiniteSet(S) /\ S \in SUBSET AllKeys /\ \A k \in S : HashedRow(k) = row
    BY SharingAre
<1>2. shape \in Shapes
    BY DEF DirectoryInv
<1>3. \A k \in S : TagOf(k) \in Nat
    BY <1>1, <1>2, TagsFit
<1>4. \A j, k \in S : TagOf(j) = TagOf(k) => j = k
    BY <1>1, <1>2, TagsApart
<1>5. IsStrictOrder(R, S)
    <2> HIDE DEF S
    <2>1. \A j, k \in S : <<j, k>> \in R <=> TagOf(j) < TagOf(k)
        BY DEF TagOrder, S
    <2> HIDE DEF R
    <2> QED
        BY <1>3, <1>4, <2>1 DEF IsStrictOrder
<1>6. IsRanked(R, S)
    BY <1>1, <1>5, Ranking
<1>7. Cardinality(S) \in Nat /\ Cardinality(S) <= shape.slots /\ shape.slots \in Nat
    BY <1>1, <1>2, FS_CardinalityType, ShapeFacts DEF BucketsHold
<1>8. ASSUME NEW k \in S
      PROVE  /\ TagRank(o, row, k) \in 0 .. shape.slots - 1
             /\ ColumnOf(o, k) = (o - 1) * shape.slots + TagRank(o, row, k)
    <2>1. TagRank(o, row, k) \in 0 .. Cardinality(S) - 1
        BY <1>6 DEF IsRanked, TagRank
    <2>2. {j \in SharingRow(o, HashedRow(k)) : TagOf(j) < TagOf(k)} = Below(R, S, k)
        BY <1>1 DEF Below, TagOrder
    <2>3. ColumnOf(o, k) = (o - 1) * shape.slots + TagRank(o, row, k)
        BY <2>2 DEF ColumnOf, TagRank, RankOf
    <2> HIDE DEF S
    <2> QED
        BY <1>7, <2>1, <2>3
<1>9. \A j, k \in S : TagRank(o, row, j) = TagRank(o, row, k) => j = k
    BY <1>6 DEF IsRanked, TagRank
<1> QED
    BY <1>8, <1>9

\* The column of owner o's slot n.
SlotColumn(o, n) == (o - 1) * shape.slots + n

(* Every slot of every owner has a column of its own.                      *)
LEMMA SlotColumns ==
    ASSUME shape \in Shapes, NEW o \in Owners, NEW n \in 0 .. shape.slots - 1
    PROVE  /\ SlotColumn(o, n) \in 0 .. BucketWidth - 1
           /\ \A p \in Owners, m \in 0 .. shape.slots - 1 :
                 SlotColumn(p, m) = SlotColumn(o, n) => p = o /\ m = n
<1> DEFINE w == shape.slots
<1>1. w \in Nat \ {0} /\ n \in Nat /\ n < w
    BY ShapeFacts
<1>2. \A p \in Owners : p - 1 \in Nat /\ (p - 1) + 1 = p /\ p \in Nat /\ p <= OwnerCount
    BY OwnersAre
<1>3. /\ ((o - 1) + 1) * w = (o - 1) * w + w /\ (o - 1) * w \in Nat
      /\ o * w <= OwnerCount * w /\ o * w \in Nat /\ OwnerCount * w \in Nat
    BY <1>1, <1>2, OwnersAre, Products
<1>4. SlotColumn(o, n) \in 0 .. BucketWidth - 1
    <2>1. SlotColumn(o, n) = (o - 1) * w + n /\ BucketWidth = OwnerCount * w
        BY DEF SlotColumn, BucketWidth
    <2> DEFINE a == (o - 1) * w
               b == o * w
               c == OwnerCount * w
    <2>2. a \in Nat /\ b = a + w /\ b <= c /\ c \in Nat
        BY <1>2, <1>3
    <2> HIDE DEF a, b, c, w
    <2>3. a + n \in 0 .. c - 1
        BY <1>1, <2>2
    <2> QED
        BY <2>1, <2>3 DEF a, c
<1>5. \A p \in Owners, m \in 0 .. w - 1 :
          SlotColumn(p, m) \div w = p - 1 /\ SlotColumn(p, m) % w = m
    <2> SUFFICES ASSUME NEW p \in Owners, NEW m \in 0 .. w - 1
                 PROVE  SlotColumn(p, m) \div w = p - 1 /\ SlotColumn(p, m) % w = m
        OBVIOUS
    <2>1. m \in Nat /\ m < w
        BY <1>1
    <2>2. SlotColumn(p, m) = m + (p - 1) * w
        <3>1. (p - 1) * w \in Nat
            BY <1>1, <1>2
        <3> QED
            BY <2>1, <3>1 DEF SlotColumn
    <2>3. p - 1 \in Nat
        BY <1>2
    <2> HIDE DEF w
    <2>4. (m + (p - 1) * w) \div w = p - 1 /\ (m + (p - 1) * w) % w = m
        BY <1>1, <2>1, <2>3, Unpacking
    <2> QED
        BY <2>2, <2>4
<1>6. \A p \in Owners, m \in 0 .. w - 1 : SlotColumn(p, m) = SlotColumn(o, n) => p = o /\ m = n
    <2> SUFFICES ASSUME NEW p \in Owners, NEW m \in 0 .. w - 1, SlotColumn(p, m) = SlotColumn(o, n)
                 PROVE  p = o /\ m = n
        OBVIOUS
    <2>1. p - 1 = o - 1 /\ m = n
        BY <1>5
    <2> QED
        BY <1>2, <2>1
<1> QED
    BY <1>4, <1>6

\* The keys of owner o in a cell of its hashed table: one or none.
InCell(o, row, column) == {k \in SharingRow(o, row) : ColumnOf(o, k) = column}

(* A cell holds a key of its own owner only, the one of its rank.          *)
LEMMA CellKeys ==
    ASSUME DirectoryInv, NEW o \in Owners, NEW row \in 0 .. HashedRows - 1, BucketsHold(o),
           NEW p \in Owners, NEW n \in 0 .. shape.slots - 1
    PROVE  /\ p # o => InCell(o, row, SlotColumn(p, n)) = {}
           /\ InCell(o, row, SlotColumn(o, n)) =
                 {k \in SharingRow(o, row) : TagRank(o, row, k) = n}
<1>1. shape \in Shapes
    BY DEF DirectoryInv
<1>2. \A k \in SharingRow(o, row) : /\ TagRank(o, row, k) \in 0 .. shape.slots - 1
                                    /\ ColumnOf(o, k) = SlotColumn(o, TagRank(o, row, k))
    BY ColumnsApart DEF SlotColumn
<1>3. \A k \in SharingRow(o, row) :
          ColumnOf(o, k) = SlotColumn(p, n) => o = p /\ TagRank(o, row, k) = n
    BY <1>1, <1>2, SlotColumns
<1>4. \A k \in SharingRow(o, row) :
          TagRank(o, row, k) = n => ColumnOf(o, k) = SlotColumn(o, n)
    BY <1>2
<1>5. \A k \in SharingRow(o, row) :
          ColumnOf(o, k) = SlotColumn(o, n) => TagRank(o, row, k) = n
    BY <1>1, <1>2, SlotColumns
<1> QED
    BY <1>3, <1>4, <1>5 DEF InCell

(* A cell is the slot of its key, or nothing.                              *)
LEMMA CellHolds ==
    ASSUME DirectoryInv, NEW o \in Owners, NEW row \in 0 .. HashedRows - 1, BucketsHold(o),
           NEW p \in Owners, NEW n \in 0 .. shape.slots - 1
    PROVE  /\ InCell(o, row, SlotColumn(p, n)) = {} => HashedVector(o)[row][SlotColumn(p, n)] = 0
           /\ \A k \in InCell(o, row, SlotColumn(p, n)) :
                 /\ HashedVector(o)[row][SlotColumn(p, n)] = Slot(o, k)
                 /\ Slot(o, k) = directory[o][k] + TagOf(k) * Radix /\ Slot(o, k) \in Nat
<1> DEFINE column == SlotColumn(p, n)
           C == InCell(o, row, column)
           f == [k \in C |-> Slot(o, k)]
<1>1. shape \in Shapes
    BY DEF DirectoryInv
<1>2. column \in 0 .. BucketWidth - 1
    BY <1>1, SlotColumns
<1>3. HashedVector(o)[row][column] = SumFunctionOnSet(f, C)
    <2>1. HashedVector(o)[row] = [c \in 0 .. BucketWidth - 1 |->
                                     SumFunction([k \in InCell(o, row, c) |-> Slot(o, k)])]
        BY DEF HashedVector, InCell
    <2>2. HashedVector(o)[row][column] = SumFunction(f)
        BY <1>2, <2>1
    <2>3. DOMAIN f = C
        OBVIOUS
    <2> HIDE DEF f, C, column
    <2> QED
        BY <2>2, <2>3, SumOfFunction
<1>4. C = {} => HashedVector(o)[row][column] = 0
    BY <1>3, SumEmpty
<1>5. ASSUME NEW k \in C
      PROVE  /\ HashedVector(o)[row][column] = Slot(o, k)
             /\ Slot(o, k) = directory[o][k] + TagOf(k) * Radix /\ Slot(o, k) \in Nat
    <2>1. \A j \in C : j = k
        <3>1. p = o
            BY <1>5, CellKeys
        <3>2. C = {j \in SharingRow(o, row) : TagRank(o, row, j) = n}
            BY <3>1, CellKeys
        <3> QED
            BY <1>5, <3>2, ColumnsApart
    <2>2. C = {k}
        BY <2>1
    <2>3. /\ f[k] = Slot(o, k) /\ f[k] \in Int
          /\ Slot(o, k) = directory[o][k] + TagOf(k) * Radix /\ Slot(o, k) \in Nat
        <3>1. k \in AllKeys /\ f[k] = Slot(o, k)
            BY SharingAre DEF InCell
        <3>2. TagOf(k) \in Nat /\ directory[o][k] \in Nat /\ Radix \in Nat
            BY <1>1, <3>1, TagsFit, RadixIs DEF DirectoryInv
        <3> QED
            BY <3>1, <3>2 DEF Slot, Radix
    <2> HIDE DEF f, C
    <2>4. SumFunctionOnSet(f, {k}) = f[k]
        BY <2>3, FS_Singleton, SumOne, k \in {k}
    <2> QED
        BY <1>3, <2>2, <2>3, <2>4
<1> QED
    BY <1>4, <1>5

-----------------------------------------------------------------------------
(* What a server's tables hold.                                            *)

\* The vectors an owner shares, from what it placed.
VectorsOf(o) ==
    [primary |-> IF shape.kind = "compact" THEN <<>> ELSE PrimaryVector(o),
     hashed |-> IF Hashes THEN HashedVector(o) ELSE <<>>]

\* The owner has shared what it placed.
HasShared(o) ==
    /\ ValidOntology
    /\ Hashes => BucketsHold(o)
    /\ vectors[o] = VectorsOf(o)

\* Every owner has, and the tables are what that adds up to.
TablesStand ==
    /\ DirectoryInv
    /\ ValidOntology
    /\ \A o \in Owners : HasShared(o)
    /\ assembled = Tables

\* Owner by owner, the descriptors of a key, and those of none.
Placement(k) == [o \in Owners |-> directory[o][k]]
\* No descriptor of any owner.
Nowhere == [o \in Owners |-> 0]

(* Descriptors of a key are digits, and a key of no entity has none.       *)
LEMMA PlacementsAre ==
    ASSUME DirectoryInv
    PROVE  /\ Nowhere \in [Owners -> Digits] /\ Nowhere \in [Owners -> Nat]
           /\ \A k \in AllKeys : Placement(k) \in [Owners -> Digits] /\ Placement(k) \in [Owners -> Nat]
           /\ \A k \in AllKeys : EntityOf(k) \notin Entities => Placement(k) = Nowhere
<1>1. \A k \in AllKeys, o \in Owners :
          /\ directory[o][k] \in Digits /\ directory[o][k] \in Nat
          /\ EntityOf(k) \notin Entities => directory[o][k] = 0
    BY DEF DirectoryInv, EmptyDescriptor
<1>2. 0 \in Digits
    BY RadixIs
<1> QED
    BY <1>1, <1>2 DEF Placement, Nowhere

(* A row of the primary table packs the owners' descriptors of its key.    *)
LEMMA PrimaryTable ==
    ASSUME TablesStand, shape.kind # "compact"
    PROVE  /\ \A k \in AllKeys : HasRow(k) =>
                 assembled.primary[PrimaryRow(k)] = PackedElements(Placement(k))
           /\ Hybrid => assembled.primary[0] = PackedElements(Nowhere)
<1>1. /\ DirectoryInv /\ ValidOntology /\ shape \in Shapes
      /\ \A o \in Owners : vectors[o].primary = PrimaryVector(o)
    <2>1. \A o \in Owners : VectorsOf(o).primary = PrimaryVector(o)
        BY DEF VectorsOf
    <2>2. DirectoryInv /\ ValidOntology /\ \A o \in Owners : vectors[o] = VectorsOf(o)
        BY DEF TablesStand, HasShared
    <2>3. shape \in Shapes
        BY <2>2 DEF DirectoryInv
    <2> QED
        BY <2>1, <2>2, <2>3
<1>2. \A row \in 0 .. PrimaryRows - 1 :
          assembled.primary[row] = PackedElements([o \in Owners |-> vectors[o].primary[row]])
    BY DEF TablesStand, Tables
<1>3. \A row : [o \in Owners |-> vectors[o].primary[row]] =
               [o \in Owners |-> PrimaryVector(o)[row]]
    BY <1>1
<1>4. ASSUME NEW k \in AllKeys, HasRow(k)
      PROVE  assembled.primary[PrimaryRow(k)] = PackedElements(Placement(k))
    <2>1. PrimaryRow(k) \in 0 .. PrimaryRows - 1
        BY <1>1, <1>4, RowsAre
    <2>2. \A o \in Owners : PrimaryVector(o)[PrimaryRow(k)] = directory[o][k]
        BY <1>1, <1>4, PrimaryHolds
    <2>3. [o \in Owners |-> PrimaryVector(o)[PrimaryRow(k)]] = Placement(k)
        BY <2>2 DEF Placement
    <2> QED
        BY <1>2, <1>3, <2>1, <2>3
<1>5. ASSUME Hybrid
      PROVE  assembled.primary[0] = PackedElements(Nowhere)
    <2>1. \A o \in Owners : PrimaryVector(o)[0] = 0 /\ 0 \in 0 .. PrimaryRows - 1
        BY <1>1, <1>5, PrimaryHolds
    <2>2. [o \in Owners |-> PrimaryVector(o)[0]] = Nowhere
        BY <2>1 DEF Nowhere
    <2>3. 0 \in 0 .. PrimaryRows - 1
        BY <2>1, OwnersAre, 1 \in 1 .. OwnerCount
    <2> QED
        BY <1>2, <1>3, <2>2, <2>3
<1> QED
    BY <1>4, <1>5

(* A cell of the hashed table is its owner's: the others add nothing.      *)
LEMMA HashedTable ==
    ASSUME TablesStand, Hashes, NEW row \in 0 .. HashedRows - 1, NEW o \in Owners,
           NEW n \in 0 .. shape.slots - 1
    PROVE  assembled.hashed[row][SlotColumn(o, n)] = HashedVector(o)[row][SlotColumn(o, n)]
<1> DEFINE column == SlotColumn(o, n)
           f == [p \in Owners |-> vectors[p].hashed[row][column]]
<1>1. /\ DirectoryInv /\ ValidOntology /\ shape \in Shapes
      /\ \A p \in Owners : vectors[p].hashed = HashedVector(p) /\ BucketsHold(p)
    <2>1. \A p \in Owners : VectorsOf(p).hashed = HashedVector(p)
        BY DEF VectorsOf
    <2>2. DirectoryInv /\ ValidOntology /\ \A p \in Owners : vectors[p] = VectorsOf(p) /\ BucketsHold(p)
        BY DEF TablesStand, HasShared
    <2>3. shape \in Shapes
        BY <2>2 DEF DirectoryInv
    <2> QED
        BY <2>1, <2>2, <2>3
<1>2. column \in 0 .. BucketWidth - 1
    BY <1>1, SlotColumns
<1>3. assembled.hashed[row][column] = SumFunctionOnSet(f, Owners)
    <2>1. assembled.hashed[row] =
              [c \in 0 .. BucketWidth - 1 |->
                  SumFunction([p \in Owners |-> vectors[p].hashed[row][c]])]
        BY DEF TablesStand, Tables
    <2>2. assembled.hashed[row][column] = SumFunction(f)
        BY <1>2, <2>1
    <2>3. DOMAIN f = Owners
        OBVIOUS
    <2> HIDE DEF f, column
    <2> QED
        BY <2>2, <2>3, SumOfFunction
<1>4. \A p \in Owners : f[p] = HashedVector(p)[row][column]
    BY <1>1
<1>5. \A p \in Owners \ {o} : f[p] = 0
    <2>1. \A p \in Owners \ {o} : HashedVector(p)[row][column] = 0
        BY <1>1, CellKeys, CellHolds
    <2> HIDE DEF f
    <2> QED
        BY <1>4, <2>1
<1>6. f[o] \in Int
    <2>1. HashedVector(o)[row][column] \in Nat
        BY <1>1, CellHolds
    <2> HIDE DEF f
    <2> QED
        BY <1>4, <2>1
<1> HIDE DEF f
<1>7. SumFunctionOnSet(f, Owners) = f[o]
    BY <1>5, <1>6, OwnersAre, SumOne
<1> QED
    BY <1>3, <1>4, <1>7

\* What the circuit finds in a slot.
FoundAt(o, n, row, tag) ==
    LET cell == assembled.hashed[row][SlotColumn(o, n)]
    IN  IF (cell \div 2 ^ DescriptorBits) % 2 ^ TagBits = tag % 2 ^ TagBits
        THEN cell % 2 ^ DescriptorBits
        ELSE 0

(* A slot answers for the key it holds when the tag is that key's, and     *)
(* otherwise not at all.                                                   *)
LEMMA SlotFinds ==
    ASSUME TablesStand, Hashes, NEW row \in 0 .. HashedRows - 1, NEW o \in Owners,
           NEW n \in 0 .. shape.slots - 1, NEW tag \in Tags
    PROVE  /\ \A k \in SharingRow(o, row) :
                 TagRank(o, row, k) = n /\ TagOf(k) = tag => FoundAt(o, n, row, tag) = directory[o][k]
           /\ (\A k \in SharingRow(o, row) : ~(TagRank(o, row, k) = n /\ TagOf(k) = tag)) =>
                 FoundAt(o, n, row, tag) = 0
<1> DEFINE cell == HashedVector(o)[row][SlotColumn(o, n)]
           C == InCell(o, row, SlotColumn(o, n))
           wide == 2 ^ TagBits
<1>1. DirectoryInv /\ shape \in Shapes /\ BucketsHold(o)
    BY DEF TablesStand, HasShared, DirectoryInv
<1>2. assembled.hashed[row][SlotColumn(o, n)] = cell
    BY HashedTable
<1>3. FoundAt(o, n, row, tag) =
          IF (cell \div Radix) % wide = tag % wide THEN cell % Radix ELSE 0
    BY <1>2 DEF FoundAt, Radix
<1>4. C = {k \in SharingRow(o, row) : TagRank(o, row, k) = n}
    BY <1>1, CellKeys
<1>5. wide \in Nat \ {0} /\ tag \in 0 .. wide - 1
    <2>1. TagBits \in Nat
        <3>1. (IF Partitioned THEN EntityCount ELSE DirectoryRows) \in Nat
            BY Sizes
        <3> QED
            BY <3>1, BitLengthHolds DEF TagBits
    <2> QED
        BY <2>1, PowersOfTwo DEF Tags
<1>6. \A t \in 0 .. wide - 1 : t % wide = t
    <2> HIDE DEF wide
    <2>1. \A t \in 0 .. wide - 1 : t \in Nat /\ t < wide /\ t + 0 * wide = t
        BY <1>5
    <2> QED
        BY <1>5, <2>1, Unpacking
<1>7. ASSUME NEW k \in C
      PROVE  FoundAt(o, n, row, tag) = IF TagOf(k) = tag THEN directory[o][k] ELSE 0
    <2>1. cell = directory[o][k] + TagOf(k) * Radix
        BY <1>1, CellHolds
    <2>2. k \in AllKeys
        BY <1>1, SharingAre DEF InCell
    <2>3. directory[o][k] \in Nat /\ directory[o][k] < Radix /\ TagOf(k) \in Nat /\ TagOf(k) \in 0 .. wide - 1
        BY <1>1, <2>2, TagsFit, RadixIs DEF DirectoryInv, Digits, Tags
    <2> HIDE DEF cell, wide
    <2>4. cell \div Radix = TagOf(k) /\ cell % Radix = directory[o][k]
        BY <2>1, <2>3, RadixIs, Unpacking
    <2> QED
        BY <1>3, <1>5, <1>6, <2>3, <2>4
<1>8. ASSUME C = {}
      PROVE  FoundAt(o, n, row, tag) = 0
    <2>1. cell = 0
        BY <1>1, <1>8, CellHolds
    <2>2. 0 % Radix = 0
        BY RadixIs, DivMod, Unpacking, 0 + 0 * Radix = 0
    <2> HIDE DEF cell
    <2> QED
        BY <1>3, <2>1, <2>2
<1>9. ASSUME NEW k \in SharingRow(o, row), TagRank(o, row, k) = n, TagOf(k) = tag
      PROVE  FoundAt(o, n, row, tag) = directory[o][k]
    <2>1. k \in C
        BY <1>4, <1>9
    <2> QED
        BY <1>7, <1>9, <2>1
<1>10. ASSUME \A k \in SharingRow(o, row) : ~(TagRank(o, row, k) = n /\ TagOf(k) = tag)
       PROVE  FoundAt(o, n, row, tag) = 0
    <2>1. \A k \in C : TagOf(k) # tag
        BY <1>4, <1>10
    <2> QED
        BY <1>7, <1>8, <2>1
<1> QED
    BY <1>9, <1>10

-----------------------------------------------------------------------------
(* What the circuit finds in a row of the hashed table.                    *)

\* What the circuit finds in an owner's slots of a row.
FoundIn(o, row, tag) == [n \in 0 .. shape.slots - 1 |-> FoundAt(o, n, row, tag)]
\* What it adds up to, owner by owner.
FoundAll(row, tag) == [o \in Owners |-> SumFunction(FoundIn(o, row, tag))]

(* The circuit resolves a bucket to what it found, packed again.           *)
LEMMA ResolvedIs ==
    ASSUME NEW row, NEW tag
    PROVE  Resolved(assembled.hashed[row], tag) = PackedElements(FoundAll(row, tag))
BY DEF Resolved, FoundAll, FoundIn, FoundAt, SlotColumn

(* An owner's sum runs over the slots of its bucket.                       *)
LEMMA FoundSum ==
    ASSUME shape \in Shapes, NEW o \in Owners, NEW row, NEW tag
    PROVE  /\ FoundAll(row, tag)[o] =
                 SumFunctionOnSet(FoundIn(o, row, tag), 0 .. shape.slots - 1)
           /\ IsFiniteSet(0 .. shape.slots - 1)
<1> DEFINE f == FoundIn(o, row, tag)
           S == 0 .. shape.slots - 1
<1>1. DOMAIN f = S
    BY DEF FoundIn
<1>2. FoundAll(row, tag)[o] = SumFunction(f)
    BY DEF FoundAll
<1>3. IsFiniteSet(S)
    <2>1. shape.slots - 1 \in Int /\ 0 \in Int
        BY ShapeFacts
    <2> QED
        BY <2>1, FS_Interval
<1> HIDE DEF f, S
<1>4. SumFunction(f) = SumFunctionOnSet(f, S)
    BY <1>1, SumOfFunction
<1> QED
    BY <1>2, <1>3, <1>4 DEF f, S

(* No key with that row and that tag: nothing is found.                    *)
LEMMA FindsNothing ==
    ASSUME TablesStand, Hashes, NEW row \in 0 .. HashedRows - 1, NEW tag \in Tags,
           \A k \in AllKeys : ~HasRow(k) /\ HashedRow(k) = row => TagOf(k) # tag
    PROVE  FoundAll(row, tag) = Nowhere
<1>1. DirectoryInv
    BY DEF TablesStand
<1>2. shape \in Shapes
    BY <1>1 DEF DirectoryInv
<1>3. ASSUME NEW o \in Owners
      PROVE  FoundAll(row, tag)[o] = 0
    <2> DEFINE f == FoundIn(o, row, tag)
               S == 0 .. shape.slots - 1
    <2>1. \A k \in SharingRow(o, row) : TagOf(k) # tag
        BY <1>1, SharingAre
    <2>2. \A n \in S : FoundAt(o, n, row, tag) = 0
        BY <2>1, SlotFinds
    <2>3. \A n \in S : f[n] = 0
        BY <2>2 DEF FoundIn
    <2>4. FoundAll(row, tag)[o] = SumFunctionOnSet(f, S) /\ IsFiniteSet(S)
        BY <1>2, FoundSum
    <2> HIDE DEF f, S
    <2> QED
        BY <2>3, <2>4, SumZero
<1>4. FoundAll(row, tag) = [o \in Owners |-> FoundAll(row, tag)[o]]
    BY DEF FoundAll
<1> QED
    BY <1>3, <1>4 DEF Nowhere

(* The one key with that row and that tag: every owner's descriptor of it. *)
LEMMA FindsKey ==
    ASSUME TablesStand, Hashes, NEW k \in AllKeys, ~HasRow(k)
    PROVE  FoundAll(HashedRow(k), TagOf(k)) = Placement(k)
<1> DEFINE row == HashedRow(k)
           tag == TagOf(k)
<1>1. DirectoryInv
    BY DEF TablesStand
<1>2. shape \in Shapes
    BY <1>1 DEF DirectoryInv
<1>3. row \in 0 .. HashedRows - 1 /\ tag \in Tags
    BY <1>2, TagsFit
<1>4. \A j \in AllKeys : HashedRow(j) = row /\ TagOf(j) = tag => j = k
    BY <1>2, TagsApart
<1>5. ASSUME NEW o \in Owners
      PROVE  FoundAll(row, tag)[o] = directory[o][k]
    <2> DEFINE f == FoundIn(o, row, tag)
               S == 0 .. shape.slots - 1
    <2>1. \A j \in SharingRow(o, row) : TagOf(j) = tag => j = k
        BY <1>1, <1>4, SharingAre
    <2>2. \A n \in S : f[n] = FoundAt(o, n, row, tag)
        BY DEF FoundIn
    <2>3. FoundAll(row, tag)[o] = SumFunctionOnSet(f, S) /\ IsFiniteSet(S)
        BY <1>2, FoundSum
    <2>4. CASE k \in SharingRow(o, row)
        <3> DEFINE m == TagRank(o, row, k)
        <3>1. BucketsHold(o)
            BY DEF TablesStand, HasShared
        <3>2. m \in S
            BY <1>1, <1>3, <2>4, <3>1, ColumnsApart
        <3>3. f[m] = directory[o][k]
            BY <1>3, <2>2, <2>4, <3>2, SlotFinds
        <3>4. \A n \in S \ {m} : f[n] = 0
            <4> SUFFICES ASSUME NEW n \in S \ {m} PROVE f[n] = 0
                OBVIOUS
            <4>1. \A j \in SharingRow(o, row) : ~(TagRank(o, row, j) = n /\ TagOf(j) = tag)
                BY <2>1
            <4>2. FoundAt(o, n, row, tag) = 0
                BY <1>3, <4>1, SlotFinds
            <4> QED
                BY <2>2, <4>2
        <3>5. directory[o][k] \in Int
            BY <1>1 DEF DirectoryInv
        <3> HIDE DEF f, S, m
        <3>6. f[m] \in Int
            BY <3>3, <3>5
        <3>7. SumFunctionOnSet(f, S) = f[m]
            BY <2>3, <3>2, <3>4, <3>6, SumOne
        <3> QED
            BY <2>3, <3>3, <3>7
    <2>5. CASE k \notin SharingRow(o, row)
        <3>1. directory[o][k] = 0
            BY <1>1, <2>5, SharingAre, StoredAre
        <3>2. \A j \in SharingRow(o, row) : TagOf(j) # tag
            BY <2>1, <2>5
        <3>3. \A n \in S : FoundAt(o, n, row, tag) = 0
            BY <1>3, <3>2, SlotFinds
        <3>4. \A n \in S : f[n] = 0
            BY <2>2, <3>3
        <3> HIDE DEF f, S
        <3> QED
            BY <2>3, <3>1, <3>4, SumZero
    <2> QED
        BY <2>4, <2>5
<1>6. FoundAll(row, tag) = [o \in Owners |-> FoundAll(row, tag)[o]]
    BY DEF FoundAll
<1> HIDE DEF row, tag
<1>7. FoundAll(row, tag) = Placement(k)
    BY <1>5, <1>6 DEF Placement
<1> QED
    BY <1>7 DEF row, tag

-----------------------------------------------------------------------------
(* What a read returns.                                                    *)

\* The descriptors of key k, or none.
PlacedIf(here, k) == IF here THEN Placement(k) ELSE Nowhere

(* The circuit's test and offset of a block are those the owners placed a  *)
(* key by.                                                                 *)
LEMMA BlockOfKey ==
    ASSUME TablesStand, Hybrid, NEW e \in Entities, NEW r \in Relations
    PROVE  LET k == DirectoryIndex(e, r)
           IN  /\ HasRow(k) <=> InBlock(e, r)
               /\ HasRow(k) => e - DomainStart(r) < BlockWidth(r)
               /\ PrimaryRow(k) = Coefficient(r) + e
               /\ HasRow(k) => PrimaryRow(k) = BlockStart(r) + (e - DomainStart(r))
<1> DEFINE k == DirectoryIndex(e, r)
<1>1. e \in Nat /\ r \in 0 .. RelationCount + 1 /\ e \in 0 .. EntityCount
    BY Sizes DEF Entities, Relations
<1>2. EntityOf(k) = e /\ RelationOf(k) = r /\ k \in Nat
    BY <1>1, KeyParts
<1>3. PickedRelation(r) = r
    BY <1>1, KeyOkIs
<1>4. ValidOntology
    BY DEF TablesStand
<1>5. DomainStart(r) \in Nat \ {0} /\ BlockWidth(r) \in Nat \ {0}
    BY <1>4, DomainsAre
<1>6. HasRow(k) <=> e \in DomainStart(r) .. DomainStart(r) + BlockWidth(r) - 1
    BY <1>2, HasRowIs DEF OwnBlock, DomainStart
<1>7. InBlock(e, r) <=> e >= DomainStart(r) /\ e < DomainStart(r) + BlockWidth(r)
    BY <1>3 DEF InBlock, DomainStart
<1>8. PrimaryRow(k) = Coefficient(r) + e
    BY <1>2 DEF PrimaryRow
<1>9. HasRow(k) => PrimaryRow(k) = BlockStart(r) + (e - DomainStart(r))
    BY <1>2, <1>4, HasRowIs, RowInBlock
<1>10. HasRow(k) <=> InBlock(e, r)
    BY <1>1, <1>5, <1>6, <1>7
<1>11. HasRow(k) => e - DomainStart(r) < BlockWidth(r)
    BY <1>1, <1>5, <1>6
<1> QED
    BY <1>8, <1>9, <1>10, <1>11

(* Entity zero stands for no entity: its keys have no descriptor.          *)
LEMMA KeyZero ==
    ASSUME TablesStand, NEW r \in Relations
    PROVE  /\ DirectoryIndex(0, r) \in AllKeys
           /\ Placement(DirectoryIndex(0, r)) = Nowhere
<1>1. /\ RelationCount \in Nat /\ EntityCount \in Nat \ {0} /\ r \in 1 .. RelationCount
    BY Sizes DEF Relations
<1>2. 0 * RelationCount = 0
    BY <1>1
<1>3. DirectoryIndex(0, r) = r - 1
    BY <1>1, <1>2 DEF DirectoryIndex
<1>4. RelationCount <= DirectoryRows /\ DirectoryRows \in Nat
    <2>1. 1 * RelationCount <= EntityCount * RelationCount
        BY <1>1, Products, 1 \in Nat
    <2>2. 1 * RelationCount = RelationCount /\ EntityCount * RelationCount \in Nat
        BY <1>1
    <2> QED
        BY <2>1, <2>2 DEF DirectoryRows
<1>5. DirectoryIndex(0, r) \in AllKeys
    BY <1>1, <1>3, <1>4 DEF AllKeys
<1>6. EntityOf(DirectoryIndex(0, r)) = 0
    BY KeyParts, 0 \in Nat
<1>7. 0 \notin Entities
    BY EntitiesAre
<1> QED
    BY <1>5, <1>6, <1>7, PlacementsAre DEF TablesStand

(* A read of the primary table finds a key that has a row there, and       *)
(* nothing for other keys or an invalid query.                             *)
LEMMA PrimaryRead ==
    ASSUME TablesStand, shape.kind # "compact", NEW e \in 0 .. EntityCount,
           NEW r \in 0 .. RelationCount + 1, NEW valid \in BOOLEAN
    PROVE  LET k == DirectoryIndex(e, r)
           IN  ReadPrimary(e, r, valid) =
                   PackedElements(PlacedIf(valid /\ KeyOk(e, r) /\ HasRow(k), k))
<1> DEFINE k == DirectoryIndex(e, r)
           found == PackedElements(PlacedIf(valid /\ KeyOk(e, r) /\ HasRow(k), k))
           row == Address(e, r, valid)
<1> SUFFICES ReadPrimary(e, r, valid) = found
    OBVIOUS
<1>1. DirectoryInv /\ ValidOntology
    BY DEF TablesStand
<1>2. shape \in Shapes
    BY <1>1 DEF DirectoryInv
<1>3. Hybrid => 0 \in 0 .. PrimaryRows - 1
    <2>1. 1 \in Owners
        BY OwnersAre
    <2> QED
        BY <1>1, <2>1, PrimaryHolds
<1>4. ASSUME row \in 0 .. PrimaryRows - 1, PrimaryRows \in Nat
      PROVE  ReadPrimary(e, r, valid) = assembled.primary[row]
    BY <1>4 DEF ReadPrimary
<1>5. PrimaryRows \in Nat
    BY <1>1, BlocksFollow, Sizes, RelationCount + 1 \in 1 .. RelationCount + 1 DEF PrimaryRows
<1>6. CASE valid /\ KeyOk(e, r)
    <2>1. e \in Entities /\ r \in Relations /\ k \in AllKeys
        BY <1>6, KeyOkIs
    <2>2. CASE HasRow(k)
        <3>1. row = PrimaryRow(k)
            <4>1. CASE Hybrid
                BY <1>6, <2>1, <2>2, <4>1, BlockOfKey DEF Address
            <4>2. CASE ~Hybrid
                BY <1>6, <4>2 DEF Address, PrimaryRow
            <4> QED
                BY <4>1, <4>2
        <3>2. row \in 0 .. PrimaryRows - 1
            BY <1>1, <1>2, <2>1, <2>2, <3>1, RowsAre
        <3>3. assembled.primary[row] = PackedElements(Placement(k))
            BY <2>1, <2>2, <3>1, PrimaryTable
        <3>4. found = PackedElements(Placement(k))
            BY <1>6, <2>2 DEF PlacedIf
        <3> HIDE DEF found, k, row
        <3> QED
            BY <1>4, <1>5, <3>2, <3>3, <3>4
    <2>3. CASE ~HasRow(k)
        <3>1. Hybrid
            BY <1>2, <2>3, HasRowIs, ShapeFacts DEF Hybrid
        <3>2. row = 0
            BY <1>6, <2>1, <2>3, <3>1, BlockOfKey DEF Address
        <3>3. assembled.primary[row] = PackedElements(Nowhere)
            BY <3>1, <3>2, PrimaryTable
        <3>4. found = PackedElements(Nowhere)
            BY <2>3 DEF PlacedIf
        <3> HIDE DEF found, k, row
        <3> QED
            BY <1>3, <1>4, <1>5, <3>1, <3>2, <3>3, <3>4
    <2> QED
        BY <2>2, <2>3
<1>7. CASE ~(valid /\ KeyOk(e, r))
    <2>1. row = 0
        BY <1>7 DEF Address
    <2>2. row \in 0 .. PrimaryRows - 1 /\ assembled.primary[row] = PackedElements(Nowhere)
        <3>1. CASE Hybrid
            BY <1>3, <2>1, <3>1, PrimaryTable
        <3>2. CASE ~Hybrid
            <4>1. HasRow(0)
                BY <1>2, <3>2, HasRowIs, ShapeFacts DEF Hybrid
            <4>2. 1 \in Relations
                BY Sizes DEF Relations
            <4>3. DirectoryIndex(0, 1) = 0
                BY Sizes, 0 * RelationCount = 0 DEF DirectoryIndex
            <4>4. 0 \in AllKeys /\ Placement(0) = Nowhere
                BY <4>2, <4>3, KeyZero
            <4>5. PrimaryRow(0) = 0
                BY <3>2 DEF PrimaryRow
            <4>6. 0 \in 0 .. PrimaryRows - 1
                BY <1>1, <1>2, <4>1, <4>4, <4>5, RowsAre
            <4>7. assembled.primary[0] = PackedElements(Placement(0))
                BY <4>1, <4>4, <4>5, PrimaryTable
            <4> QED
                BY <2>1, <4>4, <4>6, <4>7
        <3> QED
            BY <3>1, <3>2
    <2>3. found = PackedElements(Nowhere)
        BY <1>7 DEF PlacedIf
    <2> HIDE DEF found, k, row
    <2> QED
        BY <1>4, <1>5, <2>2, <2>3
<1> QED
    BY <1>6, <1>7

(* The hashed table has a number of rows.                                  *)
LEMMA RowsCounted ==
    ASSUME shape \in Shapes
    PROVE  HashedRows \in Nat
<1> DEFINE logical == RelationCount * shape.buckets
<1>1. shape.buckets \in Nat \ {0} /\ RelationCount \in Nat \ {0}
    BY ShapeFacts, Sizes
<1>2. logical \in Nat \ {0}
    BY <1>1
<1>3. HashedRows = IF Partitioned THEN IF logical = 1 THEN 1 ELSE 2 ^ BitLength(logical - 1)
                   ELSE shape.buckets
    BY DEF HashedRows
<1> HIDE DEF logical
<1>4. 2 ^ BitLength(logical - 1) \in Nat
    <2>1. logical - 1 \in Nat
        BY <1>2
    <2>2. BitLength(logical - 1) \in Nat
        BY <2>1, BitLengthHolds
    <2> QED
        BY <2>2, PowersOfTwo
<1> QED
    BY <1>1, <1>3, <1>4

(* Contracting the primary table by the relation first finds the same.     *)
LEMMA PrimaryFolded ==
    ASSUME TablesStand, shape.kind # "compact", NEW e \in 0 .. EntityCount,
           NEW r \in 0 .. RelationCount + 1, NEW ok \in BOOLEAN,
           ok => KeyOk(e, r), ~ok => e = 0
    PROVE  LET k == DirectoryIndex(e, r)
           IN  (IF Hybrid THEN FoldedBlock(e, r, ok) ELSE FoldedDense(e, r)) =
                   PackedElements(PlacedIf(ok /\ HasRow(k), k))
<1> DEFINE k == DirectoryIndex(e, r)
           found == PackedElements(PlacedIf(ok /\ HasRow(k), k))
           folded == IF Hybrid THEN FoldedBlock(e, r, ok) ELSE FoldedDense(e, r)
           picked == PickedRelation(r)
<1> SUFFICES folded = found
    OBVIOUS
<1>1. shape \in Shapes
    BY DEF TablesStand, DirectoryInv
<1>2. picked \in Relations /\ (ok => picked = r /\ e \in Entities /\ r \in Relations /\ k \in AllKeys)
    BY KeyOkIs
<1>3. ok /\ HasRow(k) => found = PackedElements(Placement(k))
    BY DEF PlacedIf
<1>4. ~(ok /\ HasRow(k)) => found = PackedElements(Nowhere)
    BY DEF PlacedIf
<1>5. CASE Hybrid
    <2>1. folded = IF ok /\ InBlock(e, r) /\ e - DomainStart(picked) < BlockWidth(picked)
                   THEN assembled.primary[BlockStart(picked) + (e - DomainStart(picked))]
                   ELSE NoDescriptors
        BY <1>5 DEF FoldedBlock, DomainStart
    <2>2. CASE ok /\ HasRow(k)
        <3>1. /\ InBlock(e, r) /\ e - DomainStart(picked) < BlockWidth(picked)
              /\ PrimaryRow(k) = BlockStart(picked) + (e - DomainStart(picked))
            BY <1>2, <1>5, <2>2, BlockOfKey
        <3>2. folded = assembled.primary[PrimaryRow(k)]
            BY <2>1, <2>2, <3>1
        <3>3. assembled.primary[PrimaryRow(k)] = PackedElements(Placement(k))
            BY <1>2, <2>2, PrimaryTable
        <3> QED
            BY <1>3, <2>2, <3>2, <3>3
    <2>3. CASE ~(ok /\ HasRow(k))
        <3>1. ~(ok /\ InBlock(e, r))
            BY <1>2, <1>5, <2>3, BlockOfKey
        <3>2. folded = NoDescriptors
            BY <2>1, <3>1
        <3> QED
            BY <1>1, <1>4, <2>3, <3>2, NothingPacked DEF Nowhere
    <2> QED
        BY <2>2, <2>3
<1>6. CASE ~Hybrid
    <2> DEFINE j == DirectoryIndex(e, picked)
    <2>1. folded = assembled.primary[j]
        BY <1>6 DEF FoldedDense
    <2>2. HasRow(j) /\ PrimaryRow(j) = j
        BY <1>1, <1>6, HasRowIs, ShapeFacts DEF Hybrid, PrimaryRow
    <2>3. j \in AllKeys
        BY <1>2, KeyZero
    <2>4. folded = PackedElements(Placement(j))
        BY <2>1, <2>2, <2>3, PrimaryTable
    <2>5. CASE ok
        <3>1. j = k
            BY <1>2, <2>5
        <3> QED
            BY <1>3, <2>2, <2>4, <2>5, <3>1
    <2>6. CASE ~ok
        <3>1. Placement(j) = Nowhere
            BY <1>2, <2>6, KeyZero
        <3> QED
            BY <1>4, <2>4, <2>6, <3>1
    <2> QED
        BY <2>5, <2>6
<1> QED
    BY <1>5, <1>6

(* The hashed table answers for the keys the primary one has no row for.   *)
LEMMA HashedFinds ==
    ASSUME TablesStand, Hashes, NEW k \in AllKeys
    PROVE  PackedElements(FoundAll(HashedRow(k), TagOf(k))) =
               PackedElements(PlacedIf(~HasRow(k), k))
<1>1. shape \in Shapes
    BY DEF TablesStand, DirectoryInv
<1>2. CASE ~HasRow(k)
    BY <1>2, FindsKey DEF PlacedIf
<1>3. CASE HasRow(k)
    <2>1. HashedRow(k) \in 0 .. HashedRows - 1 /\ TagOf(k) \in Tags
        BY <1>1, TagsFit
    <2>2. \A j \in AllKeys : ~HasRow(j) /\ HashedRow(j) = HashedRow(k) => TagOf(j) # TagOf(k)
        BY <1>1, <1>3, TagsApart
    <2>3. FoundAll(HashedRow(k), TagOf(k)) = Nowhere
        BY <2>1, <2>2, FindsNothing
    <2> QED
        BY <1>3, <2>3 DEF PlacedIf
<1> QED
    BY <1>2, <1>3

(* Tag zero, of a query that is not in order, finds nothing.               *)
LEMMA HashedFindsNone ==
    ASSUME TablesStand, Hashes, NEW row \in 0 .. HashedRows - 1
    PROVE  PackedElements(FoundAll(row, 0)) = PackedElements(Nowhere)
<1>1. shape \in Shapes
    BY DEF TablesStand, DirectoryInv
<1>2. \A j \in AllKeys : TagOf(j) # 0
    BY <1>1, TagsFit
<1>3. 0 \in Tags
    <2>1. 1 \in Relations
        BY Sizes DEF Relations
    <2>2. DirectoryIndex(0, 1) \in AllKeys
        BY <2>1, KeyZero
    <2> QED
        BY <1>1, <2>2, TagsFit
<1> QED
    BY <1>2, <1>3, FindsNothing

(* A read of the hashed table finds a key without a primary row, and       *)
(* nothing for others, folded by the relation or not.                      *)
LEMMA HashedRead ==
    ASSUME TablesStand, Hashes, NEW e \in 0 .. EntityCount,
           NEW r \in 0 .. RelationCount + 1, NEW ok \in BOOLEAN, ok => KeyOk(e, r)
    PROVE  LET k == DirectoryIndex(e, r)
               found == PackedElements(PlacedIf(ok /\ ~HasRow(k), k))
           IN  /\ ReadHashed(e, r, ok) = found
               /\ Partitioned => FoldedHashed(e, r, ok) = found
<1> DEFINE k == DirectoryIndex(e, r)
           found == PackedElements(PlacedIf(ok /\ ~HasRow(k), k))
           tag == WantedTag(e, r, ok)
           picked == PickedRelation(r)
           read == IF ~Partitioned THEN CircuitBucket(tag)
                   ELSE IF ok /\ RelationOk(r)
                   THEN (r - 1) * shape.buckets + CircuitBucket(tag)
                   ELSE 0
           folded == (picked - 1) * shape.buckets + CircuitBucket(tag)
<1> SUFFICES /\ ReadHashed(e, r, ok) = found
             /\ Partitioned => FoldedHashed(e, r, ok) = found
    OBVIOUS
<1>1. shape \in Shapes
    BY DEF TablesStand, DirectoryInv
<1>2. ReadHashed(e, r, ok) = PackedElements(FoundAll(read, tag))
    BY ResolvedIs DEF ReadHashed
<1>3. FoldedHashed(e, r, ok) = PackedElements(FoundAll(folded, tag))
    BY ResolvedIs DEF FoldedHashed
<1>4. picked \in Relations
    BY KeyOkIs
<1>5. CASE ok
    <2>1. KeyOk(e, r) /\ e \in Entities /\ r \in Relations /\ k \in AllKeys /\ RelationOk(r) /\ picked = r
        BY <1>5, KeyOkIs
    <2>2. EntityOf(k) = e /\ RelationOf(k) = r /\ k \in Nat
        <3>1. e \in Nat
            BY <2>1, EntitiesAre
        <3> QED
            BY <2>1, <3>1, KeyParts
    <2>3. tag = TagOf(k)
        <3>1. CASE Partitioned
            BY <1>5, <2>2, <3>1 DEF WantedTag, TagOf
        <3>2. CASE ~Partitioned
            <4>1. e * RelationCount + r = e * RelationCount + r - 1 + 1
                <5>1. e * RelationCount \in Int /\ r \in Int
                    BY Sizes
                <5> HIDE DEF k
                <5> QED
                    BY <5>1
            <4> QED
                BY <1>5, <3>2, <4>1 DEF WantedTag, TagOf, DirectoryIndex
        <3> QED
            BY <3>1, <3>2
    <2>4. tag \in Nat /\ HashedRow(k) = HashedRowAt(r, tag)
        BY <1>1, <2>1, <2>2, <2>3, TagsFit
    <2>5. CircuitBucket(tag) = BucketOf(tag)
        BY <1>1, <2>4, BucketsAgree
    <2>6. read = HashedRow(k)
        BY <1>5, <2>1, <2>4, <2>5 DEF HashedRowAt
    <2>7. Partitioned => folded = HashedRow(k)
        BY <2>1, <2>4, <2>5 DEF HashedRowAt
    <2>8. PackedElements(FoundAll(HashedRow(k), TagOf(k))) = found
        BY <1>5, <2>1, HashedFinds
    <2> HIDE DEF found, read, folded, tag, k
    <2> QED
        BY <1>2, <1>3, <2>3, <2>6, <2>7, <2>8
<1>6. CASE ~ok
    <2>1. tag = 0
        BY <1>6 DEF WantedTag
    <2>2. CircuitBucket(0) = BucketOf(0)
        BY <1>1, BucketsAgree, 0 \in Nat
    <2>3. HashedRowAt(picked, 0) \in 0 .. HashedRows - 1
        BY <1>1, <1>4, HashedRowsHold, 0 \in Nat
    <2>4. 0 \in 0 .. HashedRows - 1
        <3> DEFINE n == HashedRows
                   row == HashedRowAt(picked, 0)
        <3>1. row \in 0 .. n - 1
            BY <2>3
        <3>2. n \in Int
            BY <1>1, RowsCounted
        <3> HIDE DEF n, row
        <3>3. 0 \in 0 .. n - 1
            BY <3>1, <3>2
        <3> QED
            BY <3>3 DEF n
    <2>5. read \in 0 .. HashedRows - 1
        BY <1>6, <2>1, <2>2, <2>3, <2>4 DEF HashedRowAt
    <2>6. Partitioned => folded \in 0 .. HashedRows - 1
        BY <2>1, <2>2, <2>3 DEF HashedRowAt
    <2>7. found = PackedElements(Nowhere)
        BY <1>6 DEF PlacedIf
    <2> HIDE DEF found, read, folded, tag, k
    <2> QED
        BY <1>2, <1>3, <2>1, <2>5, <2>6, <2>7, HashedFindsNone
<1> QED
    BY <1>5, <1>6

(* What a read returns is a descriptor for each owner.                     *)
LEMMA PlacedIfIs ==
    ASSUME TablesStand, NEW here \in BOOLEAN, NEW k, here => k \in AllKeys
    PROVE  PlacedIf(here, k) \in [Owners -> Digits] /\ PlacedIf(here, k) \in [Owners -> Nat]
BY PlacementsAre DEF PlacedIf, TablesStand

(* The two tables between them hold a key once.                            *)
LEMMA TablesAdd ==
    ASSUME TablesStand, NEW here \in BOOLEAN, NEW has \in BOOLEAN, NEW k, here => k \in AllKeys
    PROVE  Added(PackedElements(PlacedIf(here /\ has, k)),
                 PackedElements(PlacedIf(here /\ ~has, k))) =
               PackedElements(PlacedIf(here, k))
<1> DEFINE a == PlacedIf(here /\ has, k)
           b == PlacedIf(here /\ ~has, k)
           d == PlacedIf(here, k)
<1>1. shape \in Shapes
    BY DEF TablesStand, DirectoryInv
<1>2. a \in [Owners -> Nat] /\ b \in [Owners -> Nat] /\ d \in [Owners -> Nat]
    BY PlacedIfIs
<1>3. (a = d /\ b = Nowhere) \/ (a = Nowhere /\ b = d)
    BY DEF PlacedIf
<1>4. \A o \in Owners : Nowhere[o] = 0
    BY DEF Nowhere
<1> HIDE DEF a, b, d
<1>5. \A o \in Owners : a[o] + b[o] = d[o]
    BY <1>2, <1>3, <1>4
<1>6. [o \in Owners |-> a[o] + b[o]] = d
    BY <1>2, <1>5
<1>7. Added(PackedElements(a), PackedElements(b)) = PackedElements(d)
    BY <1>1, <1>2, <1>6, AddedPacked
<1> QED
    BY <1>7 DEF a, b, d

(* A key has a row or it has none.                                         *)
LEMMA HasRowBoolean == ASSUME NEW k PROVE HasRow(k) \in BOOLEAN
<1>1. OwnBlock(k) \in BOOLEAN
    BY DEF OwnBlock
<1>2. CASE Hybrid
    BY <1>1, <1>2 DEF HasRow
<1>3. CASE ~Hybrid /\ shape.kind = "dense"
    BY <1>3 DEF HasRow
<1>4. CASE ~Hybrid /\ shape.kind # "dense"
    BY <1>4 DEF HasRow
<1> QED
    BY <1>2, <1>3, <1>4

(* The first hop reads the descriptors of the query's key, or none when    *)
(* the key is not in order.                                                *)
LEMMA FirstHopReads ==
    ASSUME TablesStand, NEW e \in 0 .. EntityCount, NEW r \in 0 .. RelationCount + 1
    PROVE  FirstHop(e, r) = PackedElements(PlacedIf(KeyOk(e, r), DirectoryIndex(e, r)))
<1> DEFINE k == DirectoryIndex(e, r)
           ok == KeyOk(e, r)
           primary == ReadPrimary(e, r, TRUE)
           hashed == ReadHashed(e, r, ok)
<1>1. shape \in Shapes
    BY DEF TablesStand, DirectoryInv
<1>2. ok \in BOOLEAN /\ (ok => k \in AllKeys) /\ HasRow(k) \in BOOLEAN
    BY KeyOkIs, HasRowBoolean DEF KeyOk
<1>3. shape.kind # "compact" => primary = PackedElements(PlacedIf(ok /\ HasRow(k), k))
    BY PrimaryRead
<1>4. Hashes => hashed = PackedElements(PlacedIf(ok /\ ~HasRow(k), k))
    BY <1>2, HashedRead
<1>5. FirstHop(e, r) = IF shape.kind = "dense" THEN primary
                       ELSE IF shape.kind = "compact" THEN hashed
                       ELSE Added(primary, hashed)
    BY DEF FirstHop
<1>6. shape.kind = "dense" => HasRow(k)
    BY HasRowIs
<1>7. shape.kind = "compact" => ~HasRow(k)
    BY HasRowIs
<1>8. Hashes <=> shape.kind # "dense"
    BY DEF Hashes
<1>9. Added(PackedElements(PlacedIf(ok /\ HasRow(k), k)),
            PackedElements(PlacedIf(ok /\ ~HasRow(k), k))) = PackedElements(PlacedIf(ok, k))
    BY <1>2, TablesAdd
<1>10. FirstHop(e, r) = PackedElements(PlacedIf(ok, k))
    <2> HIDE DEF k, ok, primary, hashed
    <2>1. CASE shape.kind = "dense"
        BY <1>2, <1>3, <1>5, <1>6, <2>1 DEF PlacedIf
    <2>2. CASE shape.kind = "compact"
        BY <1>2, <1>4, <1>5, <1>7, <1>8, <2>2 DEF PlacedIf
    <2>3. CASE shape.kind # "dense" /\ shape.kind # "compact"
        BY <1>3, <1>4, <1>5, <1>8, <1>9, <2>3
    <2> QED
        BY <2>1, <2>2, <2>3
<1> QED
    BY <1>10

(* The second hop reads those of the key it reached, whichever tables were *)
(* contracted by the relation first, and none without a match.             *)
LEMMA SecondHopReads ==
    ASSUME TablesStand, NEW e \in 0 .. EntityCount, NEW r \in 0 .. RelationCount + 1,
           NEW match \in BOOLEAN, NEW foldPrimary \in BOOLEAN, NEW foldHashed \in BOOLEAN
    PROVE  SecondHop(e, r, match, foldPrimary, foldHashed) =
               PackedElements(PlacedIf(match /\ KeyOk(e, r), DirectoryIndex(e, r)))
<1> DEFINE ok == match /\ KeyOk(e, r)
           entity == IF ok THEN e ELSE 0
           k == DirectoryIndex(entity, r)
           primary == IF ~foldPrimary THEN ReadPrimary(entity, r, ok)
                      ELSE IF Hybrid THEN FoldedBlock(entity, r, ok)
                      ELSE FoldedDense(entity, r)
           hashed == IF foldHashed /\ Partitioned THEN FoldedHashed(entity, r, ok)
                                                  ELSE ReadHashed(entity, r, ok)
<1>1. shape \in Shapes
    BY DEF TablesStand, DirectoryInv
<1>2. ok \in BOOLEAN /\ HasRow(k) \in BOOLEAN
    BY HasRowBoolean DEF KeyOk
<1>3. entity \in 0 .. EntityCount /\ (ok => entity = e) /\ (~ok => entity = 0)
    BY Sizes
<1>4. ok => KeyOk(entity, r) /\ k \in AllKeys
    BY <1>3, KeyOkIs
<1>5. shape.kind # "compact" => primary = PackedElements(PlacedIf(ok /\ HasRow(k), k))
    <2> HIDE DEF ok, entity
    <2>1. ASSUME shape.kind # "compact"
          PROVE  ReadPrimary(entity, r, ok) = PackedElements(PlacedIf(ok /\ HasRow(k), k))
        <3>1. (ok /\ KeyOk(entity, r) /\ HasRow(k)) = (ok /\ HasRow(k))
            BY <1>2, <1>4
        <3>2. ReadPrimary(entity, r, ok) =
                  PackedElements(PlacedIf(ok /\ KeyOk(entity, r) /\ HasRow(k), k))
            BY <1>2, <1>3, <2>1, PrimaryRead
        <3> HIDE DEF k
        <3> QED
            BY <3>1, <3>2
    <2>2. ASSUME shape.kind # "compact"
          PROVE  (IF Hybrid THEN FoldedBlock(entity, r, ok) ELSE FoldedDense(entity, r)) =
                     PackedElements(PlacedIf(ok /\ HasRow(k), k))
        BY <1>2, <1>3, <1>4, <2>2, PrimaryFolded
    <2> HIDE DEF k
    <2> QED
        BY <2>1, <2>2
<1>6. Hashes => hashed = PackedElements(PlacedIf(ok /\ ~HasRow(k), k))
    <2> HIDE DEF ok, entity
    <2>1. ASSUME Hashes
          PROVE  /\ ReadHashed(entity, r, ok) = PackedElements(PlacedIf(ok /\ ~HasRow(k), k))
                 /\ Partitioned => FoldedHashed(entity, r, ok) =
                                       PackedElements(PlacedIf(ok /\ ~HasRow(k), k))
        BY <1>2, <1>3, <1>4, <2>1, HashedRead
    <2> HIDE DEF k
    <2> QED
        BY <2>1
<1>7. SecondHop(e, r, match, foldPrimary, foldHashed) =
          IF shape.kind = "dense" THEN primary
          ELSE IF shape.kind = "compact" THEN hashed
          ELSE Added(primary, hashed)
    BY DEF SecondHop
<1>8. /\ shape.kind = "dense" => HasRow(k)
      /\ shape.kind = "compact" => ~HasRow(k)
      /\ Hashes <=> shape.kind # "dense"
    BY HasRowIs DEF Hashes
<1>9. Added(PackedElements(PlacedIf(ok /\ HasRow(k), k)),
            PackedElements(PlacedIf(ok /\ ~HasRow(k), k))) = PackedElements(PlacedIf(ok, k))
    <2> HIDE DEF ok, entity, k
    <2> QED
        BY <1>2, <1>4, TablesAdd
<1>10. SecondHop(e, r, match, foldPrimary, foldHashed) = PackedElements(PlacedIf(ok, k))
    <2> HIDE DEF k, ok, entity, primary, hashed
    <2>1. CASE shape.kind = "dense"
        BY <1>2, <1>5, <1>7, <1>8, <2>1 DEF PlacedIf
    <2>2. CASE shape.kind = "compact"
        BY <1>2, <1>6, <1>7, <1>8, <2>2 DEF PlacedIf
    <2>3. CASE shape.kind # "dense" /\ shape.kind # "compact"
        BY <1>5, <1>6, <1>7, <1>8, <1>9, <2>3
    <2> QED
        BY <2>1, <2>2, <2>3
<1>11. PlacedIf(ok, k) = PlacedIf(ok, DirectoryIndex(e, r))
    BY <1>3 DEF PlacedIf
<1> QED
    BY <1>10, <1>11

(* The tables answer every query with what the owners placed.              *)
LEMMA TablesAnswer ==
    ASSUME TablesStand
    PROVE  DescriptorsExact
<1>1. shape \in Shapes
    BY DEF TablesStand, DirectoryInv
<1>2. ASSUME NEW e \in 0 .. EntityCount, NEW r \in 0 .. RelationCount + 1
      PROVE  LET first == FirstHop(e, r)
                 Placed(o) == IF KeyOk(e, r) THEN directory[o][DirectoryIndex(e, r)]
                              ELSE EmptyDescriptor
             IN  /\ \A o \in Owners : Unpacked(first, o) = Placed(o)
                 /\ \A match, foldPrimary, foldHashed \in BOOLEAN :
                       LET second == SecondHop(e, r, match, foldPrimary, foldHashed)
                       IN  \A o \in Owners :
                               Unpacked(second, o) =
                                   IF match THEN Placed(o) ELSE EmptyDescriptor
    <2> DEFINE k == DirectoryIndex(e, r)
    <2>1. KeyOk(e, r) \in BOOLEAN /\ (KeyOk(e, r) => k \in AllKeys)
        BY KeyOkIs DEF KeyOk
    <2>2. \A here \in BOOLEAN : (here => KeyOk(e, r)) =>
              \A o \in Owners : Unpacked(PackedElements(PlacedIf(here, k)), o) =
                                    IF here THEN directory[o][k] ELSE 0
        <3> SUFFICES ASSUME NEW here \in BOOLEAN, here => KeyOk(e, r), NEW o \in Owners
                     PROVE  Unpacked(PackedElements(PlacedIf(here, k)), o) =
                                IF here THEN directory[o][k] ELSE 0
            OBVIOUS
        <3>1. PlacedIf(here, k) \in [Owners -> Digits]
            BY <2>1, PlacedIfIs
        <3>2. PlacedIf(here, k)[o] = IF here THEN directory[o][k] ELSE 0
            BY DEF PlacedIf, Placement, Nowhere
        <3>3. Unpacked(PackedElements(PlacedIf(here, k)), o) = PlacedIf(here, k)[o]
            BY <1>1, <3>1, UnpackPacked
        <3> QED
            BY <3>2, <3>3
    <2>3. \A o \in Owners : Unpacked(FirstHop(e, r), o) =
              IF KeyOk(e, r) THEN directory[o][k] ELSE EmptyDescriptor
        BY <2>1, <2>2, FirstHopReads DEF EmptyDescriptor
    <2>4. \A match, foldPrimary, foldHashed \in BOOLEAN, o \in Owners :
              Unpacked(SecondHop(e, r, match, foldPrimary, foldHashed), o) =
                  IF match
                  THEN IF KeyOk(e, r) THEN directory[o][k] ELSE EmptyDescriptor
                  ELSE EmptyDescriptor
        <3> SUFFICES ASSUME NEW match \in BOOLEAN, NEW foldPrimary \in BOOLEAN,
                            NEW foldHashed \in BOOLEAN, NEW o \in Owners
                     PROVE  Unpacked(SecondHop(e, r, match, foldPrimary, foldHashed), o) =
                                IF match
                                THEN IF KeyOk(e, r) THEN directory[o][k] ELSE EmptyDescriptor
                                ELSE EmptyDescriptor
            OBVIOUS
        <3>1. SecondHop(e, r, match, foldPrimary, foldHashed) =
                  PackedElements(PlacedIf(match /\ KeyOk(e, r), k))
            BY SecondHopReads
        <3>2. Unpacked(PackedElements(PlacedIf(match /\ KeyOk(e, r), k)), o) =
                  IF match /\ KeyOk(e, r) THEN directory[o][k] ELSE 0
            BY <2>1, <2>2
        <3> QED
            BY <3>1, <3>2 DEF EmptyDescriptor
    <2> QED
        BY <2>3, <2>4
<1> QED
    BY <1>2 DEF DescriptorsExact

-----------------------------------------------------------------------------
(* What stays when a step leaves the shape and an owner's file alone.      *)

(* The rows of keys depend on the shape alone.                             *)
LEMMA ShapeKeeps ==
    ASSUME shape' = shape
    PROVE  /\ Hybrid' <=> Hybrid
           /\ Hashes' <=> Hashes
           /\ Partitioned' <=> Partitioned
           /\ ValidOntology' <=> ValidOntology
           /\ \A k : OwnBlock(k)' <=> OwnBlock(k)
           /\ \A k : PrimaryRow(k)' = PrimaryRow(k)
           /\ PrimaryRows' = PrimaryRows
<1>1. /\ Hybrid' <=> Hybrid
      /\ Hashes' <=> Hashes
      /\ Partitioned' <=> Partitioned
    BY DEF Hybrid, Hashes, Partitioned
<1>2. \A type : MembersOf(type)' = MembersOf(type)
    BY DEF MembersOf
<1>3. \A type : TypeSize(type)' = TypeSize(type) /\ TypeStart(type)' = TypeStart(type)
    BY <1>2 DEF TypeSize, TypeStart
<1>4. \A r : BlockWidth(r)' = BlockWidth(r)
    BY <1>3 DEF BlockWidth
<1>5. \A r : BlockStart(r)' = BlockStart(r)
    BY <1>4 DEF BlockStart
<1>6. \A r : Coefficient(r)' = Coefficient(r)
    BY <1>3, <1>5 DEF Coefficient
<1>7. \A k : OwnBlock(k)' <=> OwnBlock(k)
    BY <1>3, <1>4 DEF OwnBlock
<1>8. \A k : PrimaryRow(k)' = PrimaryRow(k)
    BY <1>1, <1>6 DEF PrimaryRow
<1>9. PrimaryRows' = PrimaryRows
    BY <1>1, <1>5 DEF PrimaryRows
<1>10. ValidOntology' <=> ValidOntology
    BY <1>1, <1>2, <1>3 DEF ValidOntology
<1> QED
    BY <1>1, <1>7, <1>8, <1>9, <1>10

(* An owner's primary vector depends on the shape and its directory.       *)
LEMMA PrimaryKeeps ==
    ASSUME shape' = shape, NEW o, directory'[o] = directory[o]
    PROVE  /\ InPrimary(o)' = InPrimary(o) /\ InHashed(o)' = InHashed(o)
           /\ PrimaryVector(o)' = PrimaryVector(o)
<1>1. Stored(o)' = Stored(o)
    BY DEF Stored
<1>2. InPrimary(o)' = InPrimary(o)
    <2>1. {k \in Stored(o) : OwnBlock(k)}' = {k \in Stored(o) : OwnBlock(k)}
        BY <1>1, ShapeKeeps
    <2> QED
        BY <1>1, <2>1, ShapeKeeps DEF InPrimary
<1>3. InHashed(o)' = InHashed(o)
    BY <1>1, <1>2 DEF InHashed
<1>4. \A row : {k \in InPrimary(o) : PrimaryRow(k) = row}' = {k \in InPrimary(o) : PrimaryRow(k) = row}
    BY <1>2, ShapeKeeps
<1>5. PrimaryVector(o)' = PrimaryVector(o)
    BY <1>4, ShapeKeeps DEF PrimaryVector
<1> QED
    BY <1>2, <1>3, <1>5

(* So do its buckets.                                                      *)
LEMMA HashedKeeps ==
    ASSUME shape' = shape, NEW o, directory'[o] = directory[o]
    PROVE  /\ BucketsHold(o)' <=> BucketsHold(o)
           /\ HashedVector(o)' = HashedVector(o)
<1>1. InHashed(o)' = InHashed(o)
    BY PrimaryKeeps
<1>2. \A tag : BucketOf(tag)' = BucketOf(tag)
    BY DEF BucketOf, BucketBits
<1>3. \A k : TagOf(k)' = TagOf(k)
    BY ShapeKeeps DEF TagOf
<1>4. \A k : HashedRow(k)' = HashedRow(k)
    BY <1>2, <1>3, ShapeKeeps DEF HashedRow
<1>5. HashedRows' = HashedRows /\ BucketWidth' = BucketWidth
    BY ShapeKeeps DEF HashedRows, BucketWidth
<1>6. \A row : SharingRow(o, row)' = SharingRow(o, row)
    BY <1>1, <1>4 DEF SharingRow
<1>7. BucketsHold(o)' <=> BucketsHold(o)
    BY <1>5, <1>6 DEF BucketsHold
<1>8. \A k : {j \in SharingRow(o, HashedRow(k)) : TagOf(j) < TagOf(k)}' =
                 {j \in SharingRow(o, HashedRow(k)) : TagOf(j) < TagOf(k)}
    BY <1>3, <1>4, <1>6
<1>9. \A k : ColumnOf(o, k)' = ColumnOf(o, k)
    BY <1>8 DEF ColumnOf
<1>10. \A k : Slot(o, k)' = Slot(o, k)
    BY <1>3 DEF Slot
<1>11. \A row, column : InCell(o, row, column)' = InCell(o, row, column)
    BY <1>6, <1>9 DEF InCell
<1>12. \A row, column : [k \in InCell(o, row, column) |-> Slot(o, k)]' =
                            [k \in InCell(o, row, column) |-> Slot(o, k)]
    BY <1>10, <1>11
<1>13. HashedVector(o) = [row \in 0 .. HashedRows - 1 |-> [column \in 0 .. BucketWidth - 1 |->
                              SumFunction([k \in InCell(o, row, column) |-> Slot(o, k)])]]
    BY DEF HashedVector, InCell
<1>14. HashedVector(o)' = [row \in 0 .. HashedRows' - 1 |-> [column \in 0 .. BucketWidth' - 1 |->
                              SumFunction([k \in InCell(o, row, column) |-> Slot(o, k)]')]]
    BY DEF HashedVector, InCell
<1>15. HashedVector(o)' = HashedVector(o)
    BY <1>5, <1>12, <1>13, <1>14
<1> QED
    BY <1>7, <1>15

(* So does all it shares.                                                  *)
LEMMA VectorsKeep ==
    ASSUME shape' = shape, NEW o, directory'[o] = directory[o]
    PROVE  /\ VectorsOf(o)' = VectorsOf(o)
           /\ vectors'[o] = vectors[o] => (HasShared(o)' <=> HasShared(o))
<1>1. VectorsOf(o)' = VectorsOf(o)
    BY PrimaryKeeps, HashedKeeps, ShapeKeeps DEF VectorsOf
<1>2. (BucketsHold(o)' <=> BucketsHold(o)) /\ (Hashes' <=> Hashes) /\ (ValidOntology' <=> ValidOntology)
    BY HashedKeeps, ShapeKeeps
<1> QED
    BY <1>1, <1>2 DEF HasShared

(* The tables depend on the shape and the shared vectors.                  *)
LEMMA TablesKeep ==
    ASSUME shape' = shape, vectors' = vectors
    PROVE  Tables' = Tables
<1>1. Columns' = Columns /\ HashedRows' = HashedRows /\ BucketWidth' = BucketWidth
    BY ShapeKeeps DEF Columns, HashedRows, BucketWidth
<1>2. \A o : ColumnOfOwner(o)' = ColumnOfOwner(o) /\ OffsetOfOwner(o)' = OffsetOfOwner(o)
    BY DEF ColumnOfOwner, OffsetOfOwner
<1>3. \A c : SharingColumn(c)' = SharingColumn(c)
    BY <1>2 DEF SharingColumn
<1>4. \A row : PackedElements([o \in Owners |-> vectors[o].primary[row]])' =
               PackedElements([o \in Owners |-> vectors[o].primary[row]])
    <2> SUFFICES ASSUME NEW row
                 PROVE  PackedElements([o \in Owners |-> vectors[o].primary[row]])' =
                        PackedElements([o \in Owners |-> vectors[o].primary[row]])
        OBVIOUS
    <2> DEFINE ds == [o \in Owners |-> vectors[o].primary[row]]
    <2>1. ds' = ds
        OBVIOUS
    <2> HIDE DEF ds
    <2>2. \A c : [o \in SharingColumn(c) |-> ds[o] * 2 ^ OffsetOfOwner(o)]' =
                 [o \in SharingColumn(c) |-> ds[o] * 2 ^ OffsetOfOwner(o)]
        BY <1>2, <1>3, <2>1
    <2>3. PackedElements(ds)' = PackedElements(ds)
        BY <1>1, <2>2 DEF PackedElements
    <2> QED
        BY <2>3 DEF ds
<1>5. \A row, column : [o \in Owners |-> vectors[o].hashed[row][column]]' =
                       [o \in Owners |-> vectors[o].hashed[row][column]]
    OBVIOUS
<1>6. PrimaryRows' = PrimaryRows /\ (Hashes' <=> Hashes)
    BY ShapeKeeps
<1> QED
    BY <1>1, <1>4, <1>5, <1>6 DEF Tables

-----------------------------------------------------------------------------
(* The invariant of the directories.                                       *)

\* A key with a descriptor is a real entity's.
RealKeys ==
    \A o \in Owners, k \in AllKeys :
        directory[o][k] # EmptyDescriptor => EntityOf(k) \in Entities

\* Owners share in their order, and none is asked again.
SharedInv ==
    \A o \in Owners : o < owner \/ phase \notin {"build", "refused"} => HasShared(o)

\* A server assembles what all have shared, and only once.
AssembledInv ==
    assembled # Unshared =>
        /\ phase # "build"
        /\ \A o \in Owners : HasShared(o)
        /\ assembled = Tables

\* All of it, on top of the invariant of the paged layouts.
DirectoriesInv ==
    /\ LayoutInv
    /\ shape \in Shapes
    /\ vectors = [o \in Owners |-> vectors[o]]
    /\ RealKeys
    /\ SharedInv
    /\ AssembledInv

(* A descriptor fits the bits that the circuit splits an element by.       *)
LEMMA DescriptorFits ==
    ASSUME NEW d \in Nat, PageCount(d) <= PagesPerKey
    PROVE  d \in Digits
<1> DEFINE w == Wide
           q == d \div w
           n == 2 ^ BitLength(PagesPerKey)
<1>1. w \in Nat \ {0} /\ PagesPerKey \in Nat \ {0}
    BY Sizes
<1>2. BitLength(PagesPerKey) \in Nat /\ PagesPerKey < n
    BY <1>1, BitLengthHolds
<1>3. n \in Nat
    BY <1>2, PowersOfTwo
<1>4. PageBaseBits \in Nat
    BY PageAssumption, BitLengthHolds, PageBudget - 1 \in Nat DEF PageBaseBits
<1>5. Radix = w * n
    BY <1>2, <1>4, PowerAdd DEF Radix, DescriptorBits, Wide
<1>6. q <= PagesPerKey
    BY DEF PageCount, Wide
<1>7. q * w + (d % w) = d /\ d % w \in 0 .. w - 1 /\ q \in Nat
    BY <1>1, DivMod
<1> HIDE DEF q, n, w
<1>8. q + 1 <= n
    BY <1>1, <1>2, <1>3, <1>6, <1>7
<1>9. (q + 1) * w <= n * w /\ (q + 1) * w = q * w + w
    BY <1>1, <1>3, <1>7, <1>8, Products
<1>10. n * w = w * n
    BY <1>1, <1>3
<1>11. d < n * w
    BY <1>1, <1>3, <1>7, <1>9
<1> QED
    BY <1>5, <1>10, <1>11 DEF Digits

(* What the lemmas about single directories ask for.                       *)
LEMMA DirectoryFromInv == DirectoriesInv => DirectoryInv
<1> SUFFICES ASSUME DirectoriesInv PROVE DirectoryInv
    OBVIOUS
<1>1. directory \in [Owners -> [AllKeys -> Nat]]
    BY DEF DirectoriesInv, LayoutInv, LayoutShape
<1>2. \A o \in Owners, k \in AllKeys : PageCount(directory[o][k]) <= PagesPerKey
    BY DEF DirectoriesInv, LayoutInv, DescriptorsSmall
<1>3. \A o \in Owners, k \in AllKeys : directory[o][k] \in Digits
    BY <1>1, <1>2, DescriptorFits
<1>4. shape \in Shapes /\ RealKeys
    BY DEF DirectoriesInv
<1> QED
    BY <1>1, <1>3, <1>4 DEF DirectoryInv, RealKeys

(* What the lemmas about reads ask for: all of it, once assembled.         *)
LEMMA TablesFromInv == DirectoriesInv /\ assembled # Unshared => TablesStand
<1> SUFFICES ASSUME DirectoriesInv, assembled # Unshared PROVE TablesStand
    OBVIOUS
<1>1. DirectoryInv
    BY DirectoryFromInv
<1>2. (\A o \in Owners : HasShared(o)) /\ assembled = Tables
    BY DEF DirectoriesInv, AssembledInv
<1>3. 1 \in Owners
    BY OwnersAre
<1>4. ValidOntology
    BY <1>2, <1>3 DEF HasShared
<1> QED
    BY <1>1, <1>2, <1>4 DEF TablesStand

(* Nothing is placed, shared or assembled at first.                        *)
LEMMA DirectoriesInit == Init => DirectoriesInv
<1> SUFFICES ASSUME Init PROVE DirectoriesInv
    OBVIOUS
<1>1. LayoutInv
    BY LayoutInitInv DEF Init
<1>2. RealKeys
    BY DEF Init, LayoutInit, RealKeys, AllKeys
<1>3. SharedInv
    BY OwnersAre DEF Init, LayoutInit, SharedInv
<1>4. AssembledInv
    BY DEF Init, AssembledInv
<1> QED
    BY <1>1, <1>2, <1>3, <1>4 DEF Init, DirectoriesInv

(* Placing a key touches neither the shared vectors nor a shared file.     *)
LEMMA DirectoriesPlaceKey ==
    ASSUME DirectoriesInv, NEW k \in Keys(owner), PlaceKey(k), UNCHANGED <<shape, tableVars>>
    PROVE  DirectoriesInv'
<1>1. /\ LayoutInv /\ LayoutInv' /\ shape' = shape /\ vectors' = vectors
      /\ assembled' = assembled
    BY PlaceKeyKeeps DEF DirectoriesInv, tableVars
<1>2. /\ owner' = owner /\ phase = "build" /\ phase' = "build"
      /\ \A n \in DOMAIN edges[owner] : ValidEdge(edges[owner][n])
      /\ \E d : directory' = [directory EXCEPT ![owner][k] = d]
    BY DEF PlaceKey
<1>3. owner \in Owners /\ directory \in [Owners -> [AllKeys -> Nat]]
    BY <1>1 DEF LayoutInv, LayoutShape
<1>4. EntityOf(k) \in Entities
    <2>1. PICK n \in DOMAIN edges[owner] : k = KeyOf(edges[owner][n])
        BY DEF Keys
    <2> DEFINE e == edges[owner][n].source
               r == edges[owner][n].relation
    <2>2. e \in Entities /\ r \in Relations
        BY <1>2, <2>1 DEF ValidEdge, Entities, Relations
    <2>3. k = DirectoryIndex(e, r)
        BY <2>1 DEF KeyOf
    <2>4. e \in Nat
        BY <2>2, EntitiesAre
    <2> HIDE DEF e, r
    <2> QED
        BY <2>2, <2>3, <2>4, KeyParts
<1>5. RealKeys'
    <2>1. \A o \in Owners, j \in AllKeys :
              j = k \/ directory'[o][j] = directory[o][j]
        BY <1>2, <1>3
    <2> QED
        BY <1>4, <2>1 DEF DirectoriesInv, RealKeys, EntityOf, Entities
<1>6. SharedInv'
    <2>1. \A o \in Owners : o < owner => directory'[o] = directory[o]
        BY <1>2, <1>3, OwnersAre
    <2>2. \A o \in Owners : o < owner => HasShared(o)'
        BY <1>1, <2>1, VectorsKeep DEF DirectoriesInv, SharedInv
    <2> QED
        BY <1>2, <2>2 DEF SharedInv
<1>7. AssembledInv'
    BY <1>1, <1>2 DEF DirectoriesInv, AssembledInv
<1> QED
    BY <1>1, <1>5, <1>6, <1>7 DEF DirectoriesInv

(* Neither does a step that leaves the layouts alone.                      *)
LEMMA DirectoriesMove ==
    ASSUME DirectoriesInv, UNCHANGED <<layoutVars, shape, vectors>>, phase' \in Phases,
           phase' = "refused" \/ phase' = phase
              \/ {phase, phase'} \cap {"build", "refused"} = {},
           assembled' # Unshared =>
              \/ assembled' = assembled
              \/ assembled' = Tables /\ phase \notin {"build", "refused"}
    PROVE  DirectoriesInv'
<1>1. /\ owner' = owner /\ directory' = directory /\ shape' = shape /\ vectors' = vectors
    BY DEF layoutVars
<1>2. LayoutInv'
    BY PhaseMoves DEF DirectoriesInv
<1>3. \A o : HasShared(o) => HasShared(o)'
    BY <1>1, VectorsKeep
<1>4. RealKeys'
    BY <1>1 DEF DirectoriesInv, RealKeys, EntityOf, Entities
<1>5. SharedInv'
    BY <1>1, <1>3 DEF DirectoriesInv, SharedInv
<1>6. AssembledInv'
    <2> SUFFICES ASSUME assembled' # Unshared
                 PROVE  /\ phase' # "build" /\ assembled' = Tables'
                        /\ \A o \in Owners : HasShared(o)'
        BY DEF AssembledInv, Unshared
    <2>1. Tables' = Tables
        BY <1>1, TablesKeep
    <2>2. CASE assembled' = assembled
        <3>1. /\ phase # "build" /\ assembled = Tables
              /\ \A o \in Owners : HasShared(o)
            BY <2>2 DEF DirectoriesInv, AssembledInv
        <3> QED
            BY <1>3, <2>1, <2>2, <3>1
    <2>3. CASE assembled' = Tables /\ phase \notin {"build", "refused"}
        <3>1. \A o \in Owners : HasShared(o)
            BY <2>3 DEF DirectoriesInv, SharedInv
        <3> QED
            BY <1>3, <2>1, <2>3, <3>1
    <2> QED
        BY <2>2, <2>3
<1> QED
    BY <1>1, <1>2, <1>4, <1>5, <1>6 DEF DirectoriesInv

(* An owner shares what it has placed, all of it and as it is laid out.    *)
LEMMA DirectoriesShare ==
    ASSUME DirectoriesInv, ValidOntology, Hashes => BucketsHold(owner), FinishOwner,
           vectors' = [vectors EXCEPT ![owner] = VectorsOf(owner)],
           UNCHANGED <<shape, assembled>>
    PROVE  DirectoriesInv'
<1>1. LayoutInv' /\ LayoutInv
    BY FinishOwnerKeeps DEF DirectoriesInv
<1>2. /\ directory' = directory /\ shape' = shape /\ phase = "build"
      /\ \/ owner = OwnerCount /\ phase' = "check" /\ owner' = owner
         \/ owner' = owner + 1 /\ phase' = "build"
    BY DEF FinishOwner
<1>3. owner \in Owners /\ Owners = 1 .. OwnerCount /\ OwnerCount \in Nat
    BY <1>1, OwnersAre DEF LayoutInv, LayoutShape
<1>4. vectors = [o \in Owners |-> vectors[o]]
    BY DEF DirectoriesInv
<1>5. /\ vectors'[owner] = VectorsOf(owner) /\ vectors' = [o \in Owners |-> vectors'[o]]
      /\ \A o \in Owners : o # owner => vectors'[o] = vectors[o]
    BY <1>3, <1>4
<1>6. \A o \in Owners : o < owner => HasShared(o)'
    BY <1>2, <1>3, <1>5, VectorsKeep DEF DirectoriesInv, SharedInv
<1>7. ASSUME NEW o \in Owners, o = owner
      PROVE  HasShared(o)'
    <2>1. VectorsOf(o)' = VectorsOf(o) /\ (BucketsHold(o)' <=> BucketsHold(o))
        BY <1>2, VectorsKeep, HashedKeeps
    <2>2. vectors'[o] = VectorsOf(o)'
        BY <1>5, <1>7, <2>1
    <2>3. ValidOntology' /\ (Hashes' => BucketsHold(o)')
        BY <1>2, <1>7, <2>1, ShapeKeeps
    <2> QED
        BY <2>2, <2>3 DEF HasShared
<1>8. SharedInv'
    <2>1. \A o \in Owners : o < owner' \/ phase' \notin {"build", "refused"} =>
              o < owner \/ o = owner
        BY <1>2, <1>3
    <2>2. \A o \in Owners : o < owner' \/ phase' \notin {"build", "refused"} => HasShared(o)'
        BY <1>6, <1>7, <2>1
    <2> QED
        BY <2>2 DEF SharedInv
<1>9. RealKeys'
    BY <1>2 DEF DirectoriesInv, RealKeys, EntityOf, Entities
<1>10. AssembledInv'
    BY <1>2 DEF DirectoriesInv, AssembledInv
<1>11. shape' \in Shapes
    BY <1>2 DEF DirectoriesInv
<1> QED
    BY <1>1, <1>5, <1>8, <1>9, <1>10, <1>11 DEF DirectoriesInv

(* Every step keeps the invariant: placing, sharing, assembling, refusing. *)
LEMMA DirectoriesNext == DirectoriesInv /\ [Next]_vars => DirectoriesInv'
<1> SUFFICES ASSUME DirectoriesInv, [Next]_vars PROVE DirectoriesInv'
    OBVIOUS
<1>1. phase \in Phases
    BY DEF DirectoriesInv, LayoutInv, LayoutShape
<1>2. CASE UNCHANGED vars
    BY <1>1, <1>2, DirectoriesMove DEF vars, tableVars
<1>3. CASE RefuseConfig
    BY <1>3, DirectoriesMove DEF RefuseConfig, tableVars, Phases
<1>4. CASE BuildOwner
    <2>1. CASE \E k \in Keys(owner) : PlaceKey(k)
        BY <1>4, <2>1, DirectoriesPlaceKey DEF BuildOwner
    <2>2. CASE RefuseLayout
        BY <1>4, <2>2, DirectoriesMove DEF BuildOwner, RefuseLayout, tableVars, Phases
    <2> QED
        BY <1>4, <2>1, <2>2 DEF BuildOwner
<1>5. CASE ShareOwner
    <2>1. CASE Hashes => BucketsHold(owner)
        <3>1. /\ ValidOntology /\ FinishOwner /\ UNCHANGED <<shape, assembled>>
              /\ vectors' = [vectors EXCEPT ![owner] = VectorsOf(owner)]
            BY <1>5, <2>1 DEF ShareOwner, VectorsOf
        <3> QED
            BY <2>1, <3>1, DirectoriesShare
    <2>2. CASE ~(Hashes => BucketsHold(owner))
        <3>1. /\ phase' = "refused"
              /\ UNCHANGED <<layoutVars, shape, vectors>> /\ assembled' = assembled
            BY <1>5, <2>2 DEF ShareOwner
        <3> QED
            BY <3>1, DirectoriesMove DEF Phases
    <2> QED
        BY <2>1, <2>2
<1>6. CASE Assemble
    BY <1>1, <1>6, DirectoriesMove DEF Assemble
<1>7. CASE CheckBound
    BY <1>7, DirectoriesMove DEF CheckBound, Phases
<1> QED
    BY <1>2, <1>3, <1>4, <1>5, <1>6, <1>7 DEF Next

(* It holds throughout a preparation.                                      *)
LEMMA DirectoriesInvariant == Spec => []DirectoriesInv
BY DirectoriesInit, DirectoriesNext, PTL DEF Spec

(* Whatever the owners' files hold, the tables of every kind of directory  *)
(* answer every query of either hop with the very descriptors that the     *)
(* owners placed, and answer nothing for a key that is out of order or was *)
(* not reached (page_program.py, "must return identical descriptors";      *)
(* compact_directory.py, "the reference the circuit must match").          *)
THEOREM DirectoriesLoseNothing == Spec => []DescriptorsExact
<1>1. DirectoriesInv => DescriptorsExact
    <2>1. assembled = Unshared => DescriptorsExact
        BY DEF DescriptorsExact
    <2> QED
        BY <2>1, TablesFromInv, TablesAnswer
<1> QED
    BY <1>1, DirectoriesInvariant, PTL

-----------------------------------------------------------------------------
(* Arithmetic modulo the prime of the field.                               *)

(* The sizes the bound check accepts: counts and rows stay below the       *)
(* prime.                                                                  *)
LEMMA PrimeIs ==
    /\ Prime \in Nat \ {0, 1, 2} /\ MaximumCount \in Nat \ {0, 1} /\ MaximumCount < Prime
    /\ GlobalFrontier \in Nat \ {0} /\ GlobalFrontier < MaximumCount
    /\ DirectoryRows \in Nat /\ DirectoryRows < Prime
    /\ MaximumCount = OwnerCount * SlotsPerKey
<1>1. OwnerCount \in Nat /\ SlotsPerKey \in Nat /\ DirectoryRows \in Nat
    BY Sizes
<1>2. MaximumCount \in Nat /\ MaximumCount = OwnerCount * SlotsPerKey
    BY <1>1 DEF MaximumCount
<1> QED
    BY <1>1, <1>2, PageAssumption, DirectoryAssumption

(* Division with remainder.                                                *)
LEMMA Remainders ==
    ASSUME NEW a \in Int, NEW m \in Nat \ {0}
    PROVE  /\ a % m \in 0 .. m - 1
           /\ a \div m \in Int
           /\ a = (a \div m) * m + (a % m)
BY SMTT(30)

(* There is one way to divide with remainder.                              *)
LEMMA RemainderIs ==
    ASSUME NEW q \in Int, NEW m \in Nat \ {0}, NEW r \in 0 .. m - 1
    PROVE  (q * m + r) % m = r
BY SMTT(30)

\* Equal in the field.
Alike(a, b) == \E k \in Int : a = b + k * Prime

(* Equal in the field is having the same remainder.                        *)
LEMMA AlikeIs ==
    ASSUME NEW a \in Int, NEW b \in Int
    PROVE  Alike(a, b) <=> a % Prime = b % Prime
<1> DEFINE p == Prime
<1>1. p \in Nat \ {0}
    BY PrimeIs
<1> HIDE DEF p
<1>2. /\ a % p \in 0 .. p - 1 /\ a \div p \in Int /\ a = (a \div p) * p + (a % p)
      /\ b % p \in 0 .. p - 1 /\ b \div p \in Int /\ b = (b \div p) * p + (b % p)
    BY <1>1, Remainders
<1> DEFINE u == a \div p
           v == b \div p
           r == a % p
           s == b % p
<1>3. ASSUME NEW k \in Int, a = b + k * p
      PROVE  r = s
    <2>1. u \in Int /\ v \in Int /\ r \in 0 .. p - 1 /\ s \in 0 .. p - 1 /\ a = u * p + r /\ b = v * p + s
        BY <1>2
    <2>2. a = (v + k) * p + s
        <3>1. \A x, y, z \in Int : (x * z + y) + k * z = (x + k) * z + y
            OBVIOUS
        <3> HIDE DEF v, s
        <3> QED
            BY <1>1, <1>3, <2>1, <3>1
    <2>3. v + k \in Int
        BY <2>1
    <2>4. ((v + k) * p + s) % p = s
        <3> HIDE DEF v, s
        <3> QED
            BY <1>1, <2>1, <2>3, RemainderIs
    <2> QED
        BY <2>2, <2>4
<1>4. ASSUME r = s
      PROVE  \E k \in Int : a = b + k * p
    <2>1. u \in Int /\ v \in Int /\ r \in Int /\ a = u * p + r /\ b = v * p + r
        BY <1>1, <1>2, <1>4
    <2> HIDE DEF u, v, r, s
    <2>2. a = b + (u - v) * p /\ u - v \in Int
        BY <1>1, <2>1
    <2> QED
        BY <2>2
<1> QED
    BY <1>3, <1>4 DEF Alike, p

(* It is an equivalence, and a number is alike its remainder.              *)
LEMMA AlikeRules ==
    ASSUME NEW a \in Int, NEW b \in Int
    PROVE  /\ Alike(a, a) /\ Alike(a % Prime, a)
           /\ Alike(a, b) => Alike(b, a)
           /\ \A c \in Int : Alike(a, b) /\ Alike(b, c) => Alike(a, c)
           /\ a % Prime \in 0 .. Prime - 1
<1>1. Prime \in Nat \ {0} /\ \A c \in Int : c % Prime \in Int
    BY PrimeIs, Remainders
<1>2. a % Prime \in 0 .. Prime - 1
    BY PrimeIs, Remainders
<1>3. (a % Prime) % Prime = a % Prime
    <2>1. 0 * Prime + (a % Prime) = a % Prime
        BY <1>1
    <2> QED
        BY <1>1, <1>2, <2>1, RemainderIs, 0 \in Int
<1> QED
    BY <1>1, <1>2, <1>3, AlikeIs

(* Sums and products of alike numbers are alike.                           *)
LEMMA AlikeSums ==
    ASSUME NEW a \in Int, NEW b \in Int, NEW c \in Int, NEW d \in Int, Alike(a, b), Alike(c, d)
    PROVE  Alike(a + c, b + d) /\ Alike(a * c, b * d)
<1>1. PICK k \in Int : a = b + k * Prime
    BY DEF Alike
<1>2. PICK l \in Int : c = d + l * Prime
    BY DEF Alike
<1>3. Prime \in Int
    BY PrimeIs
<1>4. a + c = (b + d) + (k + l) * Prime
    BY <1>1, <1>2, <1>3
<1>5. a * c = (b * d) + (b * l + k * d + k * l * Prime) * Prime
    <2>1. \A x, y, u, v, p \in Int :
              (x + u * p) * (y + v * p) = (x * y) + (x * v + u * y + u * v * p) * p
        OBVIOUS
    <2> QED
        BY <1>1, <1>2, <1>3, <2>1
<1>6. k + l \in Int /\ b * l + k * d + k * l * Prime \in Int
    BY <1>3
<1> QED
    BY <1>4, <1>5, <1>6 DEF Alike

(* A number that is not zero has an inverse.                               *)
LEMMA InversesExist ==
    ASSUME NEW y \in 1 .. Prime - 1
    PROVE  /\ InverseOf(y) \in 1 .. Prime - 1
           /\ (y * InverseOf(y)) % Prime = 1
<1> DEFINE S == 1 .. Prime - 1
           f == [z \in S |-> (y * z) % Prime]
<1>1. Prime \in Nat \ {0, 1, 2} /\ 1 \in S /\ IsFiniteSet(S)
    BY PrimeIs, FS_Interval
<1>2. \A a, b \in S : (a * b) % Prime \in S
    <2>1. \A a, b \in S : (a * b) % Prime # 0
        BY DirectoryAssumption
    <2>2. \A a, b \in S : a * b \in Int
        BY <1>1
    <2>3. \A n \in Int : n % Prime \in 0 .. Prime - 1
        BY AlikeRules
    <2> QED
        BY <1>1, <2>1, <2>2, <2>3
<1>3. ASSUME NEW a \in S, NEW b \in S, (y * a) % Prime = (y * b) % Prime, a < b
      PROVE  FALSE
    <2>1. a \in Int /\ b \in Int /\ y \in Int /\ y \in S /\ b - a \in S
        BY <1>1, <1>3
    <2>2. Alike(y * b, y * a)
        BY <1>3, <2>1, AlikeIs
    <2>3. PICK k \in Int : y * b = y * a + k * Prime
        BY <2>2 DEF Alike
    <2>4. y * (b - a) = k * Prime + 0
        <3>1. y * b = y * a + y * (b - a)
            BY <2>1
        <3>2. y * a \in Int /\ y * (b - a) \in Int /\ k * Prime \in Int
            BY <1>1, <2>1
        <3> QED
            BY <2>3, <3>1, <3>2
    <2>5. (k * Prime + 0) % Prime = 0
        BY <1>1, RemainderIs, 0 \in 0 .. Prime - 1
    <2> QED
        BY <1>2, <2>1, <2>4, <2>5
<1>4. \A a, b \in S : f[a] = f[b] => a = b
    BY <1>1, <1>3
<1>5. f \in [S -> S]
    BY <1>2
<1> HIDE DEF f, S
<1>6. f \in Injection(S, S)
    BY <1>4, <1>5 DEF Injection, IsInjective
<1>7. f \in Surjection(S, S)
    BY <1>1, <1>6, FS_Injection
<1>8. \E z \in S : f[z] = 1
    BY <1>1, <1>7 DEF Surjection
<1>9. \E z \in S : (y * z) % Prime = 1
    BY <1>8 DEF f
<1> QED
    BY <1>9 DEF InverseOf, S

-----------------------------------------------------------------------------
(* Polynomials by their coefficients.                                      *)

\* The values of a recursion, step by step.
IsRun(S, a, F, last, g) ==
    /\ g \in [0 .. last -> S]
    /\ g[0] = a
    /\ \A n \in 1 .. last : g[n] = F[<<n, g[n - 1]>>]

(* A step that is defined everywhere can be taken as often as one likes.   *)
LEMMA Recursion ==
    ASSUME NEW S, NEW a \in S, NEW F \in [Nat \X S -> S], NEW last \in Nat
    PROVE  \E g : IsRun(S, a, F, last, g)
<1> DEFINE Runs(m, g) == /\ g \in [0 .. m -> S] /\ g[0] = a
                         /\ \A n \in 1 .. m : g[n] = F[<<n, g[n - 1]>>]
           N == {m \in Nat : \E g : Runs(m, g)}
<1>1. 0 \in N
    <2> DEFINE g == [n \in 0 .. 0 |-> a]
    <2>1. Runs(0, g)
        OBVIOUS
    <2> QED
        BY <2>1
<1>2. ASSUME NEW m \in N
      PROVE  m + 1 \in N
    <2>1. PICK g : Runs(m, g)
        OBVIOUS
    <2> DEFINE h == [n \in 0 .. m + 1 |-> IF n = m + 1 THEN F[<<m + 1, g[m]>>] ELSE g[n]]
    <2>2. m \in Nat /\ g[m] \in S
        BY <2>1
    <2>3. F[<<m + 1, g[m]>>] \in S
        BY <2>2
    <2>4. h \in [0 .. m + 1 -> S]
        BY <2>1, <2>2, <2>3
    <2>5. h[0] = a
        BY <2>1, <2>2
    <2>6. ASSUME NEW n \in 1 .. m + 1
          PROVE  h[n] = F[<<n, h[n - 1]>>]
        <3>1. CASE n = m + 1
            <4>1. n - 1 = m /\ m \in 0 .. m + 1 /\ m # m + 1 /\ n \in 0 .. m + 1
                BY <2>2, <3>1
            <4>2. h[n] = F[<<m + 1, g[m]>>] /\ h[m] = g[m]
                BY <3>1, <4>1
            <4> HIDE DEF h
            <4> QED
                BY <3>1, <4>1, <4>2
        <3>2. CASE n # m + 1
            <4>1. n \in 1 .. m /\ h[n] = g[n] /\ h[n - 1] = g[n - 1]
                BY <2>2, <3>2
            <4> QED
                BY <2>1, <4>1
        <3> QED
            BY <3>1, <3>2
    <2>7. Runs(m + 1, h)
        BY <2>4, <2>5, <2>6
    <2> HIDE DEF Runs, h
    <2> QED
        BY <2>2, <2>7
<1>3. N \in SUBSET Nat
    OBVIOUS
<1> HIDE DEF N
<1>4. N = Nat
    BY <1>1, <1>2, <1>3, NatSetInduction
<1>5. last \in N
    BY <1>4
<1>6. \E g : Runs(last, g)
    BY <1>5 DEF N
<1> QED
    BY <1>6 DEF IsRun

\* The coefficients go with the powers up to the largest count.
Degrees == 0 .. MaximumCount
\* Their values, reduced or not.
Polynomials == [Degrees -> Int]

\* The values of Horner's scheme, from the highest coefficient down.
IsHorner(c, x, h) ==
    /\ h \in [Degrees -> Int]
    /\ h[MaximumCount] = c[MaximumCount]
    /\ \A d \in 0 .. MaximumCount - 1 : h[d] = h[d + 1] * x + c[d]

\* Horner's scheme over the integers.
Horner(c, x) == CHOOSE h : IsHorner(c, x, h)
\* The value of a polynomial.
ValueAt(c, x) == Horner(c, x)[0]

(* Every polynomial has a value at every number.                           *)
LEMMA HornerIs ==
    ASSUME NEW c \in Polynomials, NEW x \in Int
    PROVE  IsHorner(c, x, Horner(c, x)) /\ ValueAt(c, x) \in Int
<1> DEFINE M == MaximumCount
           Step(n, v) == IF n <= M THEN v * x + c[M - n] ELSE 0
           G == [p \in Nat \X Int |-> Step(p[1], p[2])]
<1>1. M \in Nat \ {0}
    BY PrimeIs
<1>2. c \in [0 .. M -> Int]
    BY DEF Polynomials, Degrees
<1> HIDE DEF M
<1>3. \A n \in Nat, v \in Int : Step(n, v) \in Int /\ G[<<n, v>>] = Step(n, v)
    <2>1. ASSUME NEW n \in Nat, NEW v \in Int
          PROVE  Step(n, v) \in Int
        <3>1. n <= M => M - n \in 0 .. M
            BY <1>1
        <3>2. n <= M => c[M - n] \in Int
            BY <1>2, <3>1
        <3>3. v * x \in Int
            OBVIOUS
        <3> QED
            BY <3>2, <3>3
    <2> HIDE DEF Step
    <2>2. \A n \in Nat, v \in Int : G[<<n, v>>] = Step(n, v)
        OBVIOUS
    <2> QED
        BY <2>1, <2>2
<1>4. G \in [Nat \X Int -> Int]
    BY <1>3
<1>5. PICK g \in [0 .. M -> Int] : g[0] = c[M] /\ \A n \in 1 .. M : g[n] = G[<<n, g[n - 1]>>]
    <2> DEFINE a == c[M]
               S == Int
    <2>1. a \in S /\ M \in Nat /\ G \in [Nat \X S -> S]
        BY <1>1, <1>2, <1>4
    <2> HIDE DEF a, S, G
    <2>2. \E g : IsRun(S, a, G, M, g)
        BY <2>1, Recursion
    <2> QED
        BY <2>2 DEF IsRun, a, S
<1> DEFINE h == [d \in 0 .. M |-> g[M - d]]
<1>6. h \in [0 .. M -> Int] /\ h[M] = c[M]
    BY <1>1, <1>5
<1>7. ASSUME NEW d \in 0 .. M - 1
      PROVE  h[d] = h[d + 1] * x + c[d]
    <2> DEFINE n == M - d
    <2>1. /\ n \in 1 .. M /\ n - 1 \in 0 .. M /\ M - n = d /\ n = M - d
          /\ n - 1 = M - (d + 1) /\ d \in 0 .. M /\ d + 1 \in 0 .. M
        BY <1>1
    <2> HIDE DEF n, G, Step
    <2>2. h[d] = g[n] /\ h[d + 1] = g[n - 1]
        BY <2>1
    <2> HIDE DEF h
    <2>3. g[n] = Step(n, g[n - 1])
        <3>1. n \in Nat /\ g[n - 1] \in Int
            BY <1>5, <2>1
        <3> QED
            BY <1>3, <1>5, <2>1, <3>1
    <2>4. n <= M
        BY <1>1, <2>1
    <2>5. Step(n, g[n - 1]) = g[n - 1] * x + c[d]
        BY <2>1, <2>4 DEF Step
    <2> QED
        BY <2>2, <2>3, <2>5
<1>8. IsHorner(c, x, h)
    BY <1>6, <1>7 DEF IsHorner, M, Degrees
<1> HIDE DEF h
<1>9. IsHorner(c, x, Horner(c, x))
    BY <1>8 DEF Horner
<1>10. Horner(c, x) \in [Degrees -> Int] /\ 0 \in Degrees
    BY <1>1, <1>9 DEF IsHorner, Degrees, M
<1> QED
    BY <1>9, <1>10 DEF ValueAt

(* Descending induction over the coefficients.                             *)
LEMMA Descending ==
    ASSUME NEW D \in SUBSET Degrees, MaximumCount \in D,
           \A d \in 0 .. MaximumCount - 1 : d + 1 \in D => d \in D
    PROVE  D = Degrees
<1> DEFINE M == MaximumCount
           N == {n \in Nat : n <= M => M - n \in D}
<1>1. M \in Nat
    BY PrimeIs
<1>2. 0 \in N
    BY <1>1
<1>3. \A n \in N : n + 1 \in N
    <2> SUFFICES ASSUME NEW n \in N, n + 1 <= M PROVE M - (n + 1) \in D
        OBVIOUS
    <2>1. n \in Nat /\ M - n \in D
        BY <1>1
    <2>2. M - (n + 1) \in 0 .. M - 1 /\ (M - (n + 1)) + 1 = M - n
        BY <1>1, <2>1
    <2> QED
        BY <2>1, <2>2
<1>4. N \in SUBSET Nat
    OBVIOUS
<1>5. N = Nat
    <2> HIDE DEF N
    <2> QED
        BY <1>2, <1>3, <1>4, NatSetInduction
<1>6. ASSUME NEW d \in Degrees
      PROVE  d \in D
    <2>1. M - d \in Nat /\ M - d <= M /\ M - (M - d) = d
        BY <1>1 DEF Degrees
    <2>2. \A n \in Nat : n <= M => M - n \in D
        BY <1>5
    <2>3. M - (M - d) \in D
        BY <2>1, <2>2
    <2> QED
        BY <2>1, <2>3
<1> QED
    BY <1>6

(* A polynomial is its coefficients.                                       *)
LEMMA PolynomialIs ==
    ASSUME NEW c \in Polynomials
    PROVE  c = [d \in Degrees |-> c[d]] /\ \A d \in Degrees : c[d] \in Int
BY DEF Polynomials

\* What is known of the degrees.
LEMMA DegreesAre ==
    /\ MaximumCount \in Degrees /\ 0 \in Degrees /\ Degrees \in SUBSET Nat /\ MaximumCount # 0
    /\ \A d \in 0 .. MaximumCount - 1 : d \in Degrees /\ d + 1 \in Degrees /\ d # MaximumCount
    /\ \A d \in Degrees : d # 0 => d - 1 \in Degrees /\ d - 1 \in 0 .. MaximumCount - 1
    /\ \A d \in Degrees : d # MaximumCount => d \in 0 .. MaximumCount - 1
BY PrimeIs DEF Degrees

(* The value is linear in the coefficients.                                *)
LEMMA ValuesAdd ==
    ASSUME NEW b \in Polynomials, NEW c \in Polynomials, NEW e \in Polynomials,
           NEW a \in Int, NEW x \in Int, \A d \in Degrees : e[d] = a * b[d] + c[d]
    PROVE  ValueAt(e, x) = a * ValueAt(b, x) + ValueAt(c, x)
<1> DEFINE f == Horner(b, x)
           g == Horner(c, x)
           h == Horner(e, x)
           D == {d \in Degrees : h[d] = a * f[d] + g[d]}
<1>1. IsHorner(b, x, f) /\ IsHorner(c, x, g) /\ IsHorner(e, x, h)
    BY HornerIs
<1> HIDE DEF f, g, h
<1>2. MaximumCount \in D
    BY <1>1, DegreesAre DEF IsHorner
<1>3. ASSUME NEW d \in 0 .. MaximumCount - 1, d + 1 \in D
      PROVE  d \in D
    <2>1. d \in Degrees /\ d + 1 \in Degrees
        BY DegreesAre
    <2>2. /\ f[d] = f[d + 1] * x + b[d] /\ g[d] = g[d + 1] * x + c[d]
          /\ h[d] = h[d + 1] * x + e[d] /\ h[d + 1] = a * f[d + 1] + g[d + 1]
          /\ e[d] = a * b[d] + c[d]
        BY <1>1, <1>3, <2>1 DEF IsHorner
    <2>3. f[d + 1] \in Int /\ g[d + 1] \in Int /\ b[d] \in Int /\ c[d] \in Int
        BY <1>1, <2>1, PolynomialIs DEF IsHorner
    <2>4. \A u, v, s, t \in Int :
              (a * u + v) * x + (a * s + t) = a * (u * x + s) + (v * x + t)
        OBVIOUS
    <2>5. h[d] = a * f[d] + g[d]
        BY <2>2, <2>3, <2>4
    <2> QED
        BY <2>1, <2>5
<1>4. D \in SUBSET Degrees
    OBVIOUS
<1> HIDE DEF D
<1>5. D = Degrees
    BY <1>2, <1>3, <1>4, Descending
<1> QED
    BY <1>5, DegreesAre DEF D, ValueAt, f, g, h

(* Coefficients that are equal in the field have equal values there.       *)
LEMMA ValuesAlike ==
    ASSUME NEW b \in Polynomials, NEW c \in Polynomials, NEW x \in Int,
           \A d \in Degrees : Alike(b[d], c[d])
    PROVE  Alike(ValueAt(b, x), ValueAt(c, x))
<1> DEFINE f == Horner(b, x)
           g == Horner(c, x)
           D == {d \in Degrees : Alike(f[d], g[d])}
<1>1. IsHorner(b, x, f) /\ IsHorner(c, x, g)
    BY HornerIs
<1> HIDE DEF f, g
<1>2. MaximumCount \in D
    BY <1>1, DegreesAre DEF IsHorner
<1>3. ASSUME NEW d \in 0 .. MaximumCount - 1, d + 1 \in D
      PROVE  d \in D
    <2>1. d \in Degrees /\ d + 1 \in Degrees
        BY DegreesAre
    <2>2. f[d] = f[d + 1] * x + b[d] /\ g[d] = g[d + 1] * x + c[d]
        BY <1>1 DEF IsHorner
    <2>3. /\ f[d + 1] \in Int /\ g[d + 1] \in Int /\ b[d] \in Int /\ c[d] \in Int
          /\ f[d + 1] * x \in Int /\ g[d + 1] * x \in Int
        BY <1>1, <2>1, PolynomialIs DEF IsHorner
    <2>4. Alike(f[d + 1] * x, g[d + 1] * x)
        BY <1>3, <2>3, AlikeSums, AlikeRules
    <2>5. Alike(f[d], g[d])
        BY <2>1, <2>2, <2>3, <2>4, AlikeSums
    <2> QED
        BY <2>1, <2>5
<1>4. D \in SUBSET Degrees
    OBVIOUS
<1> HIDE DEF D
<1>5. D = Degrees
    BY <1>2, <1>3, <1>4, Descending
<1> QED
    BY <1>5, DegreesAre DEF D, ValueAt, f, g

(* Multiplying by x - m moves the coefficients up.                         *)
LEMMA ValueTimes ==
    ASSUME NEW c \in Polynomials, NEW e \in Polynomials, NEW m \in Int, NEW x \in Int,
           c[MaximumCount] = 0,
           \A d \in Degrees : e[d] = (IF d = 0 THEN 0 ELSE c[d - 1]) - m * c[d]
    PROVE  ValueAt(e, x) = (x - m) * ValueAt(c, x)
<1> DEFINE g == Horner(c, x)
           h == Horner(e, x)
           D == {d \in Degrees : h[d] = (x - m) * g[d] + (IF d = 0 THEN 0 ELSE c[d - 1])}
<1>1. IsHorner(c, x, g) /\ IsHorner(e, x, h)
    BY HornerIs
<1> HIDE DEF g, h
<1>2. MaximumCount \in D
    <2>1. /\ g[MaximumCount] = 0 /\ h[MaximumCount] = e[MaximumCount]
          /\ e[MaximumCount] = c[MaximumCount - 1] - m * 0
        BY <1>1, DegreesAre DEF IsHorner
    <2>2. c[MaximumCount - 1] \in Int
        BY DegreesAre, PolynomialIs
    <2>3. c[MaximumCount - 1] - m * 0 = (x - m) * 0 + c[MaximumCount - 1]
        BY <2>2
    <2> QED
        BY <2>1, <2>3, DegreesAre
<1>3. ASSUME NEW d \in 0 .. MaximumCount - 1, d + 1 \in D
      PROVE  d \in D
    <2> DEFINE under == IF d = 0 THEN 0 ELSE c[d - 1]
    <2>1. d \in Degrees /\ d + 1 \in Degrees /\ d + 1 # 0 /\ (d + 1) - 1 = d
        BY DegreesAre
    <2>2. /\ g[d] = g[d + 1] * x + c[d] /\ h[d] = h[d + 1] * x + e[d]
          /\ e[d] = under - m * c[d] /\ h[d + 1] = (x - m) * g[d + 1] + c[d]
        BY <1>1, <1>3, <2>1 DEF IsHorner
    <2>3. g[d + 1] \in Int /\ c[d] \in Int /\ under \in Int
        BY <1>1, <2>1, PolynomialIs, DegreesAre DEF IsHorner
    <2>4. \A u, s, t \in Int :
              ((x - m) * u + s) * x + (t - m * s) = (x - m) * (u * x + s) + t
        OBVIOUS
    <2> HIDE DEF under
    <2>5. h[d] = (x - m) * g[d] + under
        BY <2>2, <2>3, <2>4
    <2> QED
        BY <2>1, <2>5 DEF under
<1>4. D \in SUBSET Degrees
    OBVIOUS
<1>5. D = Degrees
    <2> HIDE DEF D
    <2> QED
        BY <1>2, <1>3, <1>4, Descending
<1>6. h[0] = (x - m) * g[0] + 0
    BY <1>5, DegreesAre
<1>7. g[0] \in Int
    BY <1>1, DegreesAre DEF IsHorner
<1>8. h[0] = (x - m) * g[0]
    BY <1>6, <1>7
<1> QED
    BY <1>8 DEF ValueAt, g, h

(* Ascending induction, over points or over steps.                         *)
LEMMA Ascending ==
    ASSUME NEW last \in Nat, NEW D \in SUBSET (0 .. last), 0 \in D,
           \A n \in 1 .. last : n - 1 \in D => n \in D
    PROVE  D = 0 .. last
<1> DEFINE N == {n \in Nat : n <= last => n \in D}
<1>1. 0 \in N
    OBVIOUS
<1>2. \A n \in N : n + 1 \in N
    <2> SUFFICES ASSUME NEW n \in N, n + 1 <= last PROVE n + 1 \in D
        OBVIOUS
    <2>1. n \in Nat /\ n \in D /\ n + 1 \in 1 .. last /\ (n + 1) - 1 = n
        OBVIOUS
    <2> QED
        BY <2>1
<1>3. N = Nat
    <2> HIDE DEF N
    <2> QED
        BY <1>1, <1>2, NatSetInduction DEF N
<1>4. \A n \in 0 .. last : n \in N
    BY <1>3
<1>5. \A n \in 0 .. last : n \in D
    BY <1>4
<1> QED
    BY <1>5

\* The interpolation's products, factor by factor.
OneTerm == [d \in 0 .. MaximumCount |-> IF d = 0 THEN 1 ELSE 0]
\* Multiplying by x - m.
TimesRoot(c, m) ==
    [d \in 0 .. MaximumCount |->
        ((IF d = 0 THEN 0 ELSE c[d - 1]) - m * c[d]) % Prime]
\* The product for a point leaves its own factor out.
BasisStep(point, n, before) ==
    IF n - 1 = point THEN before ELSE TimesRoot(before, n - 1)
\* The product, after each factor.
BasisRun(point) ==
    CHOOSE p : p = [n \in 0 .. MaximumCount + 1 |->
                       IF n = 0 THEN OneTerm ELSE BasisStep(point, n, p[n - 1])]
\* The same product at the point itself, as a number.
DenominatorStep(point, n, before) ==
    IF n - 1 = point THEN before ELSE (before * (point - (n - 1))) % Prime
\* That number, after each factor.
DenominatorRun(point) ==
    CHOOSE p : p = [n \in 0 .. MaximumCount + 1 |->
                       IF n = 0 THEN 1 ELSE DenominatorStep(point, n, p[n - 1])]
\* The circuit's Horner scheme, reduced at every coefficient.
OverflowRun(x) ==
    CHOOSE h : h = [d \in 0 .. MaximumCount |->
                       IF d = MaximumCount THEN Coefficients[d]
                       ELSE (h[d + 1] * x + Coefficients[d]) % Prime]

(* The model's recursive functions are these runs.                         *)
LEMMA RunsAre ==
    ASSUME NEW point
    PROVE  /\ Basis(point) = BasisRun(point)[MaximumCount + 1]
           /\ Denominator(point) = DenominatorRun(point)[MaximumCount + 1]
           /\ Overflow(point) = OverflowRun(point)[0]
<1>1. Basis(point) = BasisRun(point)[MaximumCount + 1]
    BY DEF Basis, BasisRun, BasisStep, TimesRoot, OneTerm
<1>2. Denominator(point) = DenominatorRun(point)[MaximumCount + 1]
    BY DEF Denominator, DenominatorRun, DenominatorStep
<1>3. Overflow(point) = OverflowRun(point)[0]
    BY DEF Overflow, OverflowRun
<1> QED
    BY <1>1, <1>2, <1>3

(* A factor more makes a polynomial of a polynomial.                       *)
LEMMA StepsAre ==
    /\ OneTerm \in Polynomials
    /\ \A c \in Polynomials, m \in Int : TimesRoot(c, m) \in Polynomials
<1>1. Prime \in Nat \ {0}
    BY PrimeIs
<1>2. OneTerm \in Polynomials
    BY DEF OneTerm, Polynomials, Degrees
<1>3. ASSUME NEW c \in Polynomials, NEW m \in Int
      PROVE  TimesRoot(c, m) \in Polynomials
    <2>1. \A d \in Degrees : (IF d = 0 THEN 0 ELSE c[d - 1]) - m * c[d] \in Int
        BY DegreesAre, PolynomialIs
    <2>2. \A n \in Int : n % Prime \in Int
        BY AlikeRules
    <2> QED
        BY <2>1, <2>2 DEF TimesRoot, Polynomials, Degrees
<1> QED
    BY <1>2, <1>3

(* The product goes through all factors.                                   *)
LEMMA BasisRunIs ==
    ASSUME NEW point
    PROVE  /\ BasisRun(point) \in [0 .. MaximumCount + 1 -> Polynomials]
           /\ BasisRun(point)[0] = OneTerm
           /\ \A n \in 1 .. MaximumCount + 1 :
                 BasisRun(point)[n] = BasisStep(point, n, BasisRun(point)[n - 1])
<1> DEFINE last == MaximumCount + 1
           F == [p \in Nat \X Polynomials |-> BasisStep(point, p[1], p[2])]
           Solves(p) == p = [n \in 0 .. last |->
                                IF n = 0 THEN OneTerm ELSE BasisStep(point, n, p[n - 1])]
           run == BasisRun(point)
<1>1. last \in Nat
    BY PrimeIs
<1>2. \A n \in Nat, c \in Polynomials : BasisStep(point, n, c) \in Polynomials
    BY StepsAre DEF BasisStep
<1>3. F \in [Nat \X Polynomials -> Polynomials]
    BY <1>2
<1>4. \A n \in Nat, c \in Polynomials : F[<<n, c>>] = BasisStep(point, n, c)
    OBVIOUS
<1> HIDE DEF F, last
<1>5. PICK g : IsRun(Polynomials, OneTerm, F, last, g)
    BY <1>1, <1>3, StepsAre, Recursion
<1>6. /\ g \in [0 .. last -> Polynomials] /\ g[0] = OneTerm
      /\ \A n \in 1 .. last : g[n] = BasisStep(point, n, g[n - 1])
    <2>1. \A n \in 1 .. last : n \in Nat /\ n - 1 \in 0 .. last
        BY <1>1
    <2> QED
        BY <1>4, <1>5, <2>1 DEF IsRun
<1>7. Solves(g)
    <2>1. \A n \in 0 .. last : g[n] = IF n = 0 THEN OneTerm ELSE BasisStep(point, n, g[n - 1])
        BY <1>1, <1>6
    <2> QED
        BY <1>6, <2>1
<1>8. Solves(run)
    <2>1. run = CHOOSE p : Solves(p)
        BY DEF BasisRun, last
    <2> HIDE DEF Solves, run
    <2> QED
        BY <1>7, <2>1
<1> HIDE DEF run
<1>9. /\ run = [n \in 0 .. last |-> run[n]] /\ run[0] = OneTerm
      /\ \A n \in 1 .. last : run[n] = BasisStep(point, n, run[n - 1])
    <2>1. \A n \in 1 .. last : n \in 0 .. last /\ n # 0
        BY <1>1
    <2>2. 0 \in 0 .. last
        BY <1>1
    <2> QED
        BY <1>8, <2>1, <2>2
<1>10. \A n \in 0 .. last : run[n] \in Polynomials
    <2> DEFINE D == {n \in 0 .. last : run[n] \in Polynomials}
    <2>1. 0 \in D
        BY <1>1, <1>9, StepsAre
    <2>2. \A n \in 1 .. last : n - 1 \in D => n \in D
        <3>1. \A n \in 1 .. last : n \in Nat /\ n \in 0 .. last
            BY <1>1
        <3> QED
            BY <1>2, <1>9, <3>1
    <2>3. D \in SUBSET (0 .. last)
        OBVIOUS
    <2> HIDE DEF D
    <2>4. D = 0 .. last
        BY <1>1, <2>1, <2>2, <2>3, Ascending
    <2> QED
        BY <2>4 DEF D
<1>11. run \in [0 .. last -> Polynomials]
    BY <1>9, <1>10
<1> QED
    BY <1>9, <1>11 DEF run, last

(* So does the number, and it is never zero in the field.                  *)
LEMMA DenominatorRunIs ==
    ASSUME NEW point \in Degrees
    PROVE  /\ DenominatorRun(point)[0] = 1
           /\ \A n \in 1 .. MaximumCount + 1 :
                 DenominatorRun(point)[n] = DenominatorStep(point, n, DenominatorRun(point)[n - 1])
           /\ \A n \in 0 .. MaximumCount + 1 : DenominatorRun(point)[n] \in 1 .. Prime - 1
<1> DEFINE last == MaximumCount + 1
           S == 1 .. Prime - 1
           Step(n, v) == IF n \in 1 .. last THEN DenominatorStep(point, n, v) ELSE 1
           F == [p \in Nat \X S |-> Step(p[1], p[2])]
           Solves(p) == p = [n \in 0 .. last |->
                                IF n = 0 THEN 1 ELSE DenominatorStep(point, n, p[n - 1])]
           run == DenominatorRun(point)
<1>1. last \in Nat /\ MaximumCount \in Nat /\ Prime \in Nat \ {0, 1, 2} /\ MaximumCount < Prime
    BY PrimeIs
<1>2. 1 \in S
    BY <1>1
<1>3. ASSUME NEW n \in Nat, n # 0, n <= last, NEW v \in S
      PROVE  DenominatorStep(point, n, v) \in S
    <2>1. CASE n - 1 = point
        BY <2>1 DEF DenominatorStep
    <2>2. CASE n - 1 # point
        <3> DEFINE m == point - (n - 1)
        <3>1. m \in Int /\ v \in Int /\ m # 0 /\ -Prime < m /\ m < Prime
            BY <1>1, <1>3, <2>2 DEF Degrees
        <3> HIDE DEF m
        <3>2. m % Prime \in S
            <4>1. CASE m > 0
                <5>1. m \in 0 .. Prime - 1 /\ 0 * Prime + m = m
                    BY <1>1, <3>1, <4>1
                <5>2. (0 * Prime + m) % Prime = m
                    BY <1>1, <5>1, RemainderIs, 0 \in Int
                <5> QED
                    BY <1>1, <3>1, <4>1, <5>1, <5>2
            <4>2. CASE m < 0
                <5>1. m + Prime \in 0 .. Prime - 1 /\ (-1) * Prime + (m + Prime) = m /\ -1 \in Int
                    BY <1>1, <3>1, <4>2
                <5>2. ((-1) * Prime + (m + Prime)) % Prime = m + Prime
                    BY <1>1, <5>1, RemainderIs
                <5> QED
                    BY <1>1, <3>1, <4>2, <5>1, <5>2
            <4> QED
                BY <3>1, <4>1, <4>2
        <3>3. (v * (m % Prime)) % Prime # 0
            BY <3>2, DirectoryAssumption
        <3>4. m % Prime \in Int /\ v * m \in Int /\ v * (m % Prime) \in Int
            BY <3>1, <3>2
        <3>5. Alike(v * m, v * (m % Prime))
            BY <3>1, <3>4, AlikeSums, AlikeRules
        <3>6. (v * m) % Prime = (v * (m % Prime)) % Prime
            BY <3>4, <3>5, AlikeIs
        <3>7. (v * m) % Prime \in 0 .. Prime - 1
            BY <3>4, AlikeRules
        <3>8. (v * m) % Prime \in S
            BY <1>1, <3>3, <3>6, <3>7
        <3> QED
            BY <2>2, <3>8 DEF DenominatorStep, m
    <2> QED
        BY <2>1, <2>2
<1>4. F \in [Nat \X S -> S]
    <2>1. \A n \in Nat, v \in S : Step(n, v) \in S
        BY <1>1, <1>2, <1>3
    <2> HIDE DEF Step, S
    <2> QED
        BY <2>1
<1>5. \A n \in 1 .. last, v \in S : F[<<n, v>>] = DenominatorStep(point, n, v)
    BY <1>1
<1>6. run = CHOOSE p : Solves(p)
    BY DEF DenominatorRun
<1> HIDE DEF F, S, last, run
<1>7. PICK g : IsRun(S, 1, F, last, g)
    BY <1>1, <1>2, <1>4, Recursion
<1>8. /\ g \in [0 .. last -> S] /\ g[0] = 1
      /\ \A n \in 1 .. last : g[n] = DenominatorStep(point, n, g[n - 1])
    <2>1. \A n \in 1 .. last : n - 1 \in 0 .. last
        BY <1>1
    <2> QED
        BY <1>5, <1>7, <2>1 DEF IsRun
<1>9. Solves(g)
    <2>1. \A n \in 0 .. last : g[n] = IF n = 0 THEN 1 ELSE DenominatorStep(point, n, g[n - 1])
        BY <1>1, <1>8
    <2> QED
        BY <1>8, <2>1
<1>10. Solves(run)
    <2> HIDE DEF Solves
    <2> QED
        BY <1>6, <1>9
<1>11. /\ run[0] = 1
       /\ \A n \in 1 .. last : run[n] = DenominatorStep(point, n, run[n - 1])
    <2>1. \A n \in 1 .. last : n \in 0 .. last /\ n # 0
        BY <1>1
    <2>2. 0 \in 0 .. last
        BY <1>1
    <2> QED
        BY <1>10, <2>1, <2>2
<1>12. \A n \in 0 .. last : run[n] \in S
    <2> DEFINE D == {n \in 0 .. last : run[n] \in S}
    <2>1. 0 \in D
        BY <1>1, <1>2, <1>11
    <2>2. \A n \in 1 .. last : n - 1 \in D => n \in D
        <3>1. \A n \in 1 .. last : n \in Nat /\ n # 0 /\ n <= last /\ n \in 0 .. last
            BY <1>1
        <3> QED
            BY <1>3, <1>11, <3>1
    <2>3. D \in SUBSET (0 .. last)
        OBVIOUS
    <2> HIDE DEF D
    <2>4. D = 0 .. last
        BY <1>1, <2>1, <2>2, <2>3, Ascending
    <2> QED
        BY <2>4 DEF D
<1> QED
    BY <1>11, <1>12 DEF run, last, S

\* The degree of the product after n points, one of them left out.
Width(point, n) == n - (IF point < n THEN 1 ELSE 0)

(* No product has more degrees than factors: nothing is cut off at the     *)
(* top.                                                                    *)
LEMMA BasisNarrow ==
    ASSUME NEW point \in Degrees
    PROVE  \A n \in 0 .. MaximumCount + 1, d \in Degrees :
               d > Width(point, n) => BasisRun(point)[n][d] = 0
<1> DEFINE run == BasisRun(point)
           last == MaximumCount + 1
           D == {n \in 0 .. last : \A d \in Degrees : d > Width(point, n) => run[n][d] = 0}
<1>1. MaximumCount \in Nat /\ last \in Nat /\ point \in Nat /\ Prime \in Nat \ {0}
    BY PrimeIs, DegreesAre
<1>2. /\ run \in [0 .. last -> Polynomials] /\ run[0] = OneTerm
      /\ \A n \in 1 .. last : run[n] = BasisStep(point, n, run[n - 1])
    BY BasisRunIs
<1> HIDE DEF run, last
<1>3. 0 \in D
    <2>1. ASSUME NEW d \in Degrees, d > Width(point, 0)
          PROVE  run[0][d] = 0
        <3>1. d # 0
            BY <1>1, <2>1 DEF Width
        <3> QED
            BY <1>2, <3>1 DEF OneTerm, Degrees
    <2> QED
        BY <1>1, <2>1
<1>4. ASSUME NEW n \in 1 .. last, n - 1 \in D
      PROVE  n \in D
    <2>1. n \in Int /\ n \in 0 .. last /\ n - 1 \in 0 .. last
        BY <1>1
    <2>2. \A d \in Degrees : d > Width(point, n - 1) => run[n - 1][d] = 0
        BY <1>4
    <2>3. ASSUME NEW d \in Degrees, d > Width(point, n)
          PROVE  run[n][d] = 0
        <3>1. d \in Nat
            BY DegreesAre
        <3>2. CASE n - 1 = point
            <4>1. Width(point, n) = Width(point, n - 1)
                BY <1>1, <2>1, <3>2 DEF Width
            <4> QED
                BY <1>2, <2>2, <2>3, <3>2, <4>1 DEF BasisStep
        <3>3. CASE n - 1 # point
            <4> DEFINE c == run[n - 1]
            <4>1. Width(point, n) = Width(point, n - 1) + 1 /\ Width(point, n - 1) \in Int
                  /\ Width(point, n) >= 0
                BY <1>1, <2>1, <3>3 DEF Width
            <4>2. d # 0 /\ d > Width(point, n - 1) /\ d - 1 > Width(point, n - 1)
                BY <2>3, <3>1, <4>1
            <4>3. d - 1 \in Degrees
                BY <4>2, DegreesAre
            <4>4. c[d] = 0 /\ c[d - 1] = 0
                BY <2>2, <4>2, <4>3
            <4>5. run[n][d] = (c[d - 1] - (n - 1) * c[d]) % Prime
                BY <1>2, <3>3, <4>2 DEF BasisStep, TimesRoot, Degrees
            <4> HIDE DEF c
            <4>6. c[d - 1] - (n - 1) * c[d] = 0
                BY <2>1, <4>4
            <4>7. 0 * Prime + 0 = 0 /\ 0 \in 0 .. Prime - 1
                BY <1>1
            <4>8. 0 % Prime = 0
                BY <1>1, <4>7, RemainderIs, 0 \in Int
            <4> QED
                BY <4>5, <4>6, <4>8
        <3> QED
            BY <3>2, <3>3
    <2> QED
        BY <2>1, <2>3
<1>5. D \in SUBSET (0 .. last)
    OBVIOUS
<1>6. D = 0 .. last
    <2> HIDE DEF D
    <2> QED
        BY <1>1, <1>3, <1>4, <1>5, Ascending
<1> QED
    BY <1>6 DEF run, last

(* A factor multiplies the value.                                          *)
LEMMA BasisGrows ==
    ASSUME NEW point \in Degrees, NEW x \in Int, NEW n \in 1 .. MaximumCount + 1,
           n - 1 # point
    PROVE  Alike(ValueAt(BasisRun(point)[n], x),
                 (x - (n - 1)) * ValueAt(BasisRun(point)[n - 1], x))
<1> DEFINE c == BasisRun(point)[n - 1]
           m == n - 1
           e == [d \in Degrees |-> (IF d = 0 THEN 0 ELSE c[d - 1]) - m * c[d]]
           b == BasisRun(point)[n]
<1>1. MaximumCount \in Nat /\ point \in 0 .. MaximumCount /\ m \in 0 .. MaximumCount
      /\ m \in Int /\ n \in 0 .. MaximumCount + 1 /\ m \in 0 .. MaximumCount + 1
    BY PrimeIs DEF Degrees
<1>2. c \in Polynomials /\ b \in Polynomials /\ b = TimesRoot(c, m)
    BY <1>1, BasisRunIs DEF BasisStep
<1>3. c[MaximumCount] = 0
    <2>1. MaximumCount > Width(point, m)
        BY <1>1 DEF Width
    <2> HIDE DEF m
    <2>2. \A d \in Degrees : d > Width(point, m) => BasisRun(point)[m][d] = 0
        BY <1>1, BasisNarrow
    <2>3. BasisRun(point)[m][MaximumCount] = 0
        BY <2>1, <2>2, DegreesAre
    <2> QED
        BY <2>3 DEF m
<1> HIDE DEF c, m, b
<1>4. \A d \in Degrees : e[d] \in Int
    BY <1>1, <1>2, DegreesAre, PolynomialIs
<1>5. e \in Polynomials
    BY <1>4 DEF Polynomials
<1>6. ValueAt(e, x) = (x - m) * ValueAt(c, x)
    <2>1. \A d \in Degrees : e[d] = (IF d = 0 THEN 0 ELSE c[d - 1]) - m * c[d]
        OBVIOUS
    <2> HIDE DEF e
    <2> QED
        BY <1>1, <1>2, <1>3, <1>5, <2>1, ValueTimes
<1>7. \A d \in Degrees : b[d] = e[d] % Prime
    BY <1>2 DEF TimesRoot, Degrees
<1> HIDE DEF e
<1>8. \A d \in Degrees : Alike(b[d], e[d])
    BY <1>4, <1>7, AlikeRules
<1>9. Alike(ValueAt(b, x), ValueAt(e, x))
    BY <1>2, <1>5, <1>8, ValuesAlike
<1> QED
    BY <1>6, <1>9 DEF b, c, m

(* The products along the way are polynomials with values.                 *)
LEMMA BasisValues ==
    ASSUME NEW point \in Degrees, NEW x \in Int
    PROVE  \A n \in 0 .. MaximumCount + 1 :
               BasisRun(point)[n] \in Polynomials /\ ValueAt(BasisRun(point)[n], x) \in Int
BY BasisRunIs, HornerIs

(* The empty product is one everywhere.                                    *)
LEMMA OneEverywhere ==
    ASSUME NEW x \in Int
    PROVE  ValueAt(OneTerm, x) = 1
<1> DEFINE h == Horner(OneTerm, x)
           D == {d \in Degrees : h[d] = IF d = 0 THEN 1 ELSE 0}
<1>1. IsHorner(OneTerm, x, h)
    BY StepsAre, HornerIs
<1>2. \A d \in Degrees : OneTerm[d] = IF d = 0 THEN 1 ELSE 0
    BY DEF OneTerm, Degrees
<1> HIDE DEF h
<1>3. MaximumCount \in D
    BY <1>1, <1>2, DegreesAre DEF IsHorner
<1>4. ASSUME NEW d \in 0 .. MaximumCount - 1, d + 1 \in D
      PROVE  d \in D
    <2>1. d \in Degrees /\ d + 1 # 0
        BY DegreesAre
    <2>2. h[d] = 0 * x + OneTerm[d]
        BY <1>1, <1>4, <2>1 DEF IsHorner
    <2>3. h[d] = OneTerm[d]
        BY <1>2, <2>1, <2>2
    <2> QED
        BY <1>2, <2>1, <2>3
<1>5. D \in SUBSET Degrees
    OBVIOUS
<1>6. D = Degrees
    <2> HIDE DEF D
    <2> QED
        BY <1>3, <1>4, <1>5, Descending
<1> QED
    BY <1>6, DegreesAre DEF ValueAt, h

(* At its point the product is the denominator, and elsewhere it is zero.  *)
LEMMA BasisAtPoint ==
    ASSUME NEW point \in Degrees
    PROVE  Alike(ValueAt(Basis(point), point), Denominator(point))
<1> DEFINE last == MaximumCount + 1
           v == [n \in 0 .. last |-> ValueAt(BasisRun(point)[n], point)]
           w == DenominatorRun(point)
           D == {n \in 0 .. last : Alike(v[n], w[n])}
<1>1. last \in Nat /\ point \in Int /\ Prime \in Nat
    BY PrimeIs, DegreesAre
<1>2. \A n \in 0 .. last : v[n] \in Int /\ w[n] \in Int
    BY <1>1, BasisValues, DenominatorRunIs
<1>3. v[0] = 1 /\ w[0] = 1
    BY <1>1, OneEverywhere, BasisRunIs, DenominatorRunIs
<1>4. \A n \in 1 .. last : /\ n - 1 = point => v[n] = v[n - 1]
                           /\ n - 1 # point => Alike(v[n], (point - (n - 1)) * v[n - 1])
    <2>1. \A n \in 1 .. last : n \in 0 .. last /\ n - 1 \in 0 .. last
        BY <1>1
    <2>2. \A n \in 0 .. last : v[n] = ValueAt(BasisRun(point)[n], point)
        OBVIOUS
    <2> HIDE DEF v
    <2>3. \A n \in 1 .. last : n - 1 = point => BasisRun(point)[n] = BasisRun(point)[n - 1]
        BY BasisRunIs DEF BasisStep
    <2> QED
        BY <1>1, <2>1, <2>2, <2>3, BasisGrows
<1>5. \A n \in 1 .. last : w[n] = DenominatorStep(point, n, w[n - 1])
    BY DenominatorRunIs
<1> HIDE DEF v, w, last
<1>6. 0 \in D
    BY <1>1, <1>3, AlikeRules
<1>7. ASSUME NEW n \in 1 .. last, n - 1 \in D
      PROVE  n \in D
    <2>1. n \in 0 .. last /\ n - 1 \in 0 .. last /\ n \in Int
        BY <1>1
    <2>2. Alike(v[n - 1], w[n - 1]) /\ v[n - 1] \in Int /\ w[n - 1] \in Int /\ v[n] \in Int /\ w[n] \in Int
        BY <1>2, <1>7, <2>1
    <2>3. CASE n - 1 = point
        BY <1>4, <1>5, <2>1, <2>2, <2>3 DEF DenominatorStep
    <2>4. CASE n - 1 # point
        <3> DEFINE f == point - (n - 1)
                   a == v[n - 1]
                   b == w[n - 1]
        <3>1. f \in Int /\ a \in Int /\ b \in Int /\ Alike(a, b) /\ f * a \in Int /\ b * f \in Int
              /\ f * b = b * f
            BY <1>1, <2>1, <2>2
        <3>2. w[n] = (b * f) % Prime
            BY <1>5, <2>4 DEF DenominatorStep
        <3>3. Alike(v[n], f * a)
            BY <1>4, <2>4
        <3> HIDE DEF f, a, b
        <3>4. Alike(f * a, f * b)
            BY <3>1, AlikeSums, AlikeRules
        <3>5. Alike(b * f, w[n])
            BY <2>2, <3>1, <3>2, AlikeRules
        <3>6. Alike(f * a, w[n])
            BY <2>2, <3>1, <3>4, <3>5, AlikeRules
        <3>7. Alike(v[n], w[n])
            BY <2>2, <3>1, <3>3, <3>6, AlikeRules
        <3> QED
            BY <2>1, <3>7
    <2> QED
        BY <2>3, <2>4
<1>8. D \in SUBSET (0 .. last)
    OBVIOUS
<1>9. D = 0 .. last
    <2> HIDE DEF D
    <2> QED
        BY <1>1, <1>6, <1>7, <1>8, Ascending
<1>10. Alike(v[last], w[last])
    BY <1>1, <1>9
<1>11. v[last] = ValueAt(Basis(point), point) /\ w[last] = Denominator(point)
    <2>1. last \in 0 .. last
        BY <1>1
    <2> QED
        BY <2>1, RunsAre DEF v, w, last
<1> QED
    BY <1>10, <1>11

(* At every other point the product is zero.                               *)
LEMMA BasisElsewhere ==
    ASSUME NEW point \in Degrees, NEW x \in Degrees, x # point
    PROVE  Alike(ValueAt(Basis(point), x), 0)
<1> DEFINE last == MaximumCount + 1
           v == [n \in 0 .. last |-> ValueAt(BasisRun(point)[n], x)]
           D == {n \in 0 .. last : n > x => Alike(v[n], 0)}
<1>1. last \in Nat /\ x \in Nat /\ x \in Int /\ x < last
    BY PrimeIs DEF Degrees
<1>2. \A n \in 0 .. last : v[n] \in Int
    BY <1>1, BasisValues
<1>3. \A n \in 1 .. last : /\ n - 1 = point => v[n] = v[n - 1]
                           /\ n - 1 # point => Alike(v[n], (x - (n - 1)) * v[n - 1])
    <2>1. \A n \in 1 .. last : n \in 0 .. last /\ n - 1 \in 0 .. last
        BY <1>1
    <2>2. \A n \in 0 .. last : v[n] = ValueAt(BasisRun(point)[n], x)
        OBVIOUS
    <2> HIDE DEF v
    <2>3. \A n \in 1 .. last : n - 1 = point => BasisRun(point)[n] = BasisRun(point)[n - 1]
        BY BasisRunIs DEF BasisStep
    <2> QED
        BY <1>1, <2>1, <2>2, <2>3, BasisGrows
<1> HIDE DEF v, last
<1>4. 0 \in D
    BY <1>1
<1>5. ASSUME NEW n \in 1 .. last, n - 1 \in D
      PROVE  n \in D
    <2>1. n \in 0 .. last /\ n - 1 \in 0 .. last /\ n \in Int
        BY <1>1
    <2>2. v[n - 1] \in Int /\ v[n] \in Int
        BY <1>2, <2>1
    <2>3. CASE n - 1 < x
        BY <1>1, <2>1, <2>3
    <2>4. CASE n - 1 = x
        <3>1. Alike(v[n], (x - (n - 1)) * v[n - 1])
            BY <1>3, <2>4
        <3>2. (x - (n - 1)) * v[n - 1] = 0
            BY <1>1, <2>1, <2>2, <2>4
        <3> QED
            BY <2>1, <3>1, <3>2
    <2>5. CASE n - 1 > x
        <3>1. Alike(v[n - 1], 0)
            BY <1>5, <2>5
        <3>2. CASE n - 1 = point
            BY <1>3, <2>1, <3>1, <3>2
        <3>3. CASE n - 1 # point
            <4> DEFINE f == x - (n - 1)
            <4>1. f \in Int /\ f * v[n - 1] \in Int /\ f * 0 = 0
                BY <1>1, <2>1, <2>2
            <4>2. Alike(v[n], f * v[n - 1])
                BY <1>3, <3>3
            <4> HIDE DEF f
            <4>3. Alike(f * v[n - 1], 0)
                <5>1. Alike(f, f)
                    BY <4>1, AlikeRules
                <5>2. Alike(f * v[n - 1], f * 0)
                    BY <2>2, <3>1, <4>1, <5>1, AlikeSums, 0 \in Int
                <5> QED
                    BY <4>1, <5>2
            <4>4. Alike(v[n], 0)
                BY <2>2, <4>1, <4>2, <4>3, AlikeRules, 0 \in Int
            <4> QED
                BY <2>1, <4>4
        <3> QED
            BY <3>2, <3>3
    <2> QED
        BY <1>1, <2>1, <2>3, <2>4, <2>5
<1>6. D \in SUBSET (0 .. last)
    OBVIOUS
<1>7. D = 0 .. last
    <2> HIDE DEF D
    <2> QED
        BY <1>1, <1>4, <1>5, <1>6, Ascending
<1>8. last \in 0 .. last
    BY <1>1
<1>9. Alike(v[last], 0)
    BY <1>1, <1>7, <1>8
<1>10. v[last] = ValueAt(Basis(point), x)
    BY <1>8, RunsAre DEF v, last
<1> QED
    BY <1>9, <1>10

-----------------------------------------------------------------------------
(* The polynomial of the bound check.                                      *)

\* What a product is multiplied by to be one at its point.
Weight(point) == InverseOf(Denominator(point))
\* The counts over the bound.
Above == GlobalFrontier + 1 .. MaximumCount
\* What each of them adds to a coefficient.
Term(d) == [point \in Above |-> Basis(point)[d] * Weight(point)]
\* The polynomial of some of them.
SumOver(T) == [d \in Degrees |-> SumFunctionOnSet(Term(d), T)]

(* The products, and what they are multiplied by, are as they should be.   *)
LEMMA TermsAre ==
    /\ IsFiniteSet(Above) /\ Above \in SUBSET Degrees
    /\ \A point \in Above :
          /\ Weight(point) \in Int /\ Denominator(point) \in Int
          /\ (Denominator(point) * Weight(point)) % Prime = 1
          /\ Basis(point) \in Polynomials
    /\ \A d \in Degrees, point \in Above :
          Term(d)[point] \in Int /\ Term(d)[point] = Basis(point)[d] * Weight(point)
<1>1. IsFiniteSet(Above) /\ Above \in SUBSET Degrees
    <2>1. GlobalFrontier + 1 \in Int /\ MaximumCount \in Int
        BY PrimeIs
    <2>2. IsFiniteSet(Above)
        BY <2>1, FS_Interval DEF Above
    <2> QED
        BY <2>1, <2>2, PrimeIs DEF Above, Degrees
<1>2. MaximumCount + 1 \in 0 .. MaximumCount + 1 /\ Prime \in Nat
    BY PrimeIs
<1>3. ASSUME NEW point \in Above
      PROVE  /\ Weight(point) \in Int /\ Denominator(point) \in Int
             /\ (Denominator(point) * Weight(point)) % Prime = 1
             /\ Basis(point) \in Polynomials
    <2>1. point \in Degrees
        BY <1>1
    <2>2. Basis(point) \in Polynomials
        BY <1>2, BasisRunIs, RunsAre
    <2>3. Denominator(point) \in 1 .. Prime - 1
        BY <1>2, <2>1, DenominatorRunIs, RunsAre
    <2>4. /\ Weight(point) \in 1 .. Prime - 1
          /\ (Denominator(point) * Weight(point)) % Prime = 1
        BY <2>3, InversesExist DEF Weight
    <2> QED
        BY <1>2, <2>2, <2>3, <2>4
<1>4. ASSUME NEW d \in Degrees, NEW point \in Above
      PROVE  Term(d)[point] \in Int /\ Term(d)[point] = Basis(point)[d] * Weight(point)
    <2>1. Term(d)[point] = Basis(point)[d] * Weight(point)
        BY DEF Term
    <2>2. Basis(point)[d] \in Int /\ Weight(point) \in Int
        BY <1>3, PolynomialIs
    <2> QED
        BY <2>1, <2>2
<1> QED
    BY <1>1, <1>3, <1>4

(* A point more adds its product.                                          *)
LEMMA SumOverIs ==
    /\ \A T \in SUBSET Above : SumOver(T) \in Polynomials
    /\ SumOver({}) = [d \in Degrees |-> 0]
    /\ \A T \in SUBSET Above : \A y \in Above \ T : \A d \in Degrees :
          SumOver(T \cup {y})[d] = Weight(y) * Basis(y)[d] + SumOver(T)[d]
<1>1. ASSUME NEW d \in Degrees
      PROVE  /\ SumFunctionOnSet(Term(d), {}) = 0
             /\ \A T \in SUBSET Above : SumFunctionOnSet(Term(d), T) \in Int
             /\ \A T \in SUBSET Above : \A y \in Above \ T :
                   SumFunctionOnSet(Term(d), T \cup {y}) = Term(d)[y] + SumFunctionOnSet(Term(d), T)
    <2>1. IsFiniteSet(Above) /\ \A point \in Above : Term(d)[point] \in Int
        BY TermsAre
    <2> QED
        BY <2>1, SumGrows
<1>2. \A T \in SUBSET Above : SumOver(T) \in Polynomials
    BY <1>1 DEF SumOver, Polynomials
<1>3. SumOver({}) = [d \in Degrees |-> 0]
    BY <1>1 DEF SumOver
<1>4. ASSUME NEW T \in SUBSET Above, NEW y \in Above \ T, NEW d \in Degrees
      PROVE  SumOver(T \cup {y})[d] = Weight(y) * Basis(y)[d] + SumOver(T)[d]
    <2>1. SumOver(T \cup {y})[d] = Term(d)[y] + SumOver(T)[d]
        BY <1>1 DEF SumOver
    <2>2. Term(d)[y] = Basis(y)[d] * Weight(y) /\ Basis(y)[d] \in Int /\ Weight(y) \in Int
        BY TermsAre, PolynomialIs
    <2>3. Basis(y)[d] * Weight(y) = Weight(y) * Basis(y)[d]
        BY <2>2
    <2> QED
        BY <2>1, <2>2, <2>3
<1> QED
    BY <1>2, <1>3, <1>4

(* It is one above the bound, and zero up to it.                           *)
LEMMA SumOverValue ==
    ASSUME NEW x \in Degrees
    PROVE  Alike(ValueAt(SumOver(Above), x), IF x \in Above THEN 1 ELSE 0)
<1> DEFINE Is(T) == Alike(ValueAt(SumOver(T), x), IF x \in T THEN 1 ELSE 0)
           P == {T \in SUBSET Above : Is(T)}
<1>1. x \in Int
    BY DegreesAre
<1>2. {} \in P
    <2> DEFINE z == SumOver({})
    <2>1. z \in Polynomials /\ \A d \in Degrees : z[d] = 0
        BY SumOverIs
    <2> HIDE DEF z
    <2>2. \A d \in Degrees : z[d] = 1 * z[d] + z[d]
        BY <2>1
    <2>3. ValueAt(z, x) = 1 * ValueAt(z, x) + ValueAt(z, x)
        BY <1>1, <2>1, <2>2, ValuesAdd, 1 \in Int
    <2>4. ValueAt(z, x) = 0
        BY <1>1, <2>1, <2>3, HornerIs
    <2>5. Alike(0, 0)
        BY AlikeRules, 0 \in Int
    <2> QED
        BY <2>4, <2>5 DEF z
<1>3. ASSUME NEW T \in P, NEW y \in Above \ T
      PROVE  T \cup {y} \in P
    <2> DEFINE b == SumOver(T)
               e == SumOver(T \cup {y})
               w == Weight(y)
               u == ValueAt(Basis(y), x)
               v == ValueAt(b, x)
    <2>1. T \in SUBSET Above /\ T \cup {y} \in SUBSET Above /\ y \in Degrees
        BY TermsAre
    <2>2. b \in Polynomials /\ e \in Polynomials /\ Basis(y) \in Polynomials /\ w \in Int
        BY <2>1, SumOverIs, TermsAre
    <2>3. \A d \in Degrees : e[d] = w * Basis(y)[d] + b[d]
        BY <2>1, SumOverIs
    <2>4. u \in Int /\ v \in Int
        BY <1>1, <2>2, HornerIs
    <2>5. Alike(v, IF x \in T THEN 1 ELSE 0)
        OBVIOUS
    <2> HIDE DEF b, e, w
    <2>6. ValueAt(e, x) = w * u + v
        BY <1>1, <2>2, <2>3, ValuesAdd
    <2>7. Alike(w * u, IF x = y THEN 1 ELSE 0)
        <3>1. CASE x = y
            <4> DEFINE dn == Denominator(y)
            <4>1. Alike(u, dn) /\ dn \in Int /\ (dn * w) % Prime = 1
                BY <2>1, <3>1, BasisAtPoint, TermsAre DEF w
            <4> HIDE DEF u, dn
            <4>2. Alike(w, w)
                BY <2>2, AlikeRules
            <4>3. Alike(w * u, w * dn)
                BY <2>2, <2>4, <4>1, <4>2, AlikeSums
            <4>4. w * dn = dn * w /\ dn * w \in Int /\ w * u \in Int
                BY <2>2, <2>4, <4>1
            <4>5. Alike(1, dn * w)
                BY <4>1, <4>4, AlikeRules
            <4>6. Alike(w * u, 1)
                BY <4>3, <4>4, <4>5, AlikeRules, 1 \in Int
            <4> QED
                BY <3>1, <4>6
        <3>2. CASE x # y
            <4>1. Alike(u, 0)
                BY <2>1, <3>2, BasisElsewhere
            <4>2. Alike(w, w)
                BY <2>2, AlikeRules
            <4> HIDE DEF u
            <4>3. Alike(w * u, w * 0)
                BY <2>2, <2>4, <4>1, <4>2, AlikeSums, 0 \in Int
            <4>4. w * 0 = 0
                BY <2>2
            <4> QED
                BY <3>2, <4>3, <4>4
        <3> QED
            BY <3>1, <3>2
    <2> DEFINE s == IF x = y THEN 1 ELSE 0
               t == IF x \in T THEN 1 ELSE 0
    <2>8. s \in Int /\ t \in Int /\ s + t = IF x \in T \cup {y} THEN 1 ELSE 0
        BY <1>3
    <2>9. w * u \in Int
        BY <2>2, <2>4
    <2> HIDE DEF s, t, u, v
    <2>10. Alike(w * u + v, s + t)
        BY <2>4, <2>5, <2>7, <2>8, <2>9, AlikeSums DEF s, t
    <2> QED
        BY <2>1, <2>6, <2>8, <2>10 DEF e
<1>4. P \in SUBSET SUBSET Above
    OBVIOUS
<1> HIDE DEF P
<1>5. Above \in P
    BY <1>2, <1>3, <1>4, TermsAre, SubsetInduction
<1> QED
    BY <1>5 DEF P

(* The circuit's coefficients are the polynomial's, reduced.               *)
LEMMA CoefficientsAre ==
    /\ Coefficients \in Polynomials
    /\ \A d \in Degrees : Alike(Coefficients[d], SumOver(Above)[d])
<1>1. ASSUME NEW d \in Degrees
      PROVE  Coefficients[d] = SumOver(Above)[d] % Prime
    <2>1. Coefficients[d] = SumFunction(Term(d)) % Prime
        BY DEF Coefficients, Term, Weight, Above, Degrees
    <2>2. DOMAIN Term(d) = Above
        BY DEF Term
    <2>3. SumFunction(Term(d)) = SumFunctionOnSet(Term(d), Above)
        BY <2>2, SumOfFunction
    <2> QED
        BY <2>1, <2>3 DEF SumOver
<1>2. \A d \in Degrees : SumOver(Above)[d] \in Int
    BY SumOverIs, PolynomialIs
<1>3. \A d \in Degrees : /\ Coefficients[d] \in 0 .. Prime - 1
                         /\ Alike(Coefficients[d], SumOver(Above)[d])
    BY <1>1, <1>2, AlikeRules
<1>4. Coefficients = [d \in Degrees |-> Coefficients[d]]
    BY DEF Coefficients, Degrees
<1>5. \A d \in Degrees : Coefficients[d] \in Int
    BY <1>3, PrimeIs
<1> QED
    BY <1>3, <1>4, <1>5 DEF Polynomials

(* Horner's scheme in the field finds the polynomial's value there.        *)
LEMMA OverflowIs ==
    ASSUME NEW x \in Int
    PROVE  /\ Overflow(x) \in 0 .. Prime - 1
           /\ Alike(Overflow(x), ValueAt(Coefficients, x))
<1> DEFINE M == MaximumCount
           c == Coefficients
           Step(n, v) == IF n <= M THEN (v * x + c[M - n]) % Prime ELSE 0
           F == [p \in Nat \X Int |-> Step(p[1], p[2])]
           Solves(h) == h = [d \in 0 .. M |-> IF d = M THEN c[d]
                                              ELSE (h[d + 1] * x + c[d]) % Prime]
           run == OverflowRun(x)
           h == Horner(c, x)
<1>1. M \in Nat /\ Prime \in Nat
    BY PrimeIs
<1>2. c \in [0 .. M -> Int] /\ c \in Polynomials
    BY CoefficientsAre DEF Polynomials, Degrees
<1>3. \A n \in Int : n % Prime \in Int
    BY AlikeRules
<1>4. IsHorner(c, x, h)
    BY <1>2, HornerIs
<1>5. run = CHOOSE g : Solves(g)
    BY DEF OverflowRun
<1> HIDE DEF M, c, run, h
<1>6. \A n \in Nat, v \in Int : Step(n, v) \in Int
    <2>1. \A n \in Nat, v \in Int : n <= M => v * x + c[M - n] \in Int
        BY <1>1, <1>2
    <2> QED
        BY <1>3, <2>1
<1>7. \A n \in Nat, v \in Int : F[<<n, v>>] = Step(n, v)
    OBVIOUS
<1>8. PICK g : IsRun(Int, c[M], F, M, g)
    <2> DEFINE a == c[M]
               S == Int
    <2>1. a \in S /\ F \in [Nat \X S -> S]
        <3> HIDE DEF Step
        <3> QED
            BY <1>1, <1>2, <1>6
    <2> HIDE DEF a, S, F
    <2>2. \E g : IsRun(S, a, F, M, g)
        BY <1>1, <2>1, Recursion
    <2> QED
        BY <2>2 DEF a, S
<1>9. /\ g \in [0 .. M -> Int] /\ g[0] = c[M]
      /\ \A n \in 1 .. M : g[n] = Step(n, g[n - 1])
    <2> HIDE DEF F, Step
    <2>1. \A n \in 1 .. M : n \in Nat /\ n - 1 \in 0 .. M
        BY <1>1
    <2> QED
        BY <1>7, <1>8, <2>1 DEF IsRun
<1> DEFINE w == [d \in 0 .. M |-> g[M - d]]
<1>10. Solves(w)
    <2> HIDE DEF F
    <2>1. ASSUME NEW d \in 0 .. M
          PROVE  w[d] = IF d = M THEN c[d] ELSE (w[d + 1] * x + c[d]) % Prime
        <3>1. CASE d = M
            BY <1>1, <1>9, <3>1
        <3>2. CASE d # M
            <4> DEFINE n == M - d
            <4>1. /\ n \in 1 .. M /\ n - 1 \in 0 .. M /\ M - n = d /\ n = M - d
                  /\ n - 1 = M - (d + 1) /\ d + 1 \in 0 .. M /\ n <= M
                BY <1>1, <3>2
            <4> HIDE DEF n
            <4>2. w[d] = g[n] /\ w[d + 1] = g[n - 1]
                BY <4>1
            <4> HIDE DEF w
            <4>3. g[n] = (g[n - 1] * x + c[d]) % Prime
                BY <1>9, <4>1
            <4> QED
                BY <3>2, <4>2, <4>3
        <3> QED
            BY <3>1, <3>2
    <2>2. w = [d \in 0 .. M |-> w[d]]
        OBVIOUS
    <2> HIDE DEF w
    <2> QED
        BY <2>1, <2>2
<1>11. Solves(run)
    <2> HIDE DEF Solves, w
    <2> QED
        BY <1>5, <1>10
<1>12. /\ run[M] = c[M]
       /\ \A d \in 0 .. M - 1 : run[d] = (run[d + 1] * x + c[d]) % Prime
    <2>1. M \in 0 .. M /\ \A d \in 0 .. M - 1 : d \in 0 .. M /\ d # M
        BY <1>1
    <2> QED
        BY <1>11, <2>1
<1> HIDE DEF Solves, w, F, Step
<1> DEFINE D == {d \in Degrees : run[d] \in Int /\ Alike(run[d], h[d])}
<1>13. MaximumCount \in D
    <2>1. run[M] = h[M] /\ h[M] \in Int /\ M \in Degrees
        BY <1>4, <1>12, DegreesAre DEF IsHorner, M
    <2> QED
        BY <2>1, AlikeRules DEF M
<1>14. ASSUME NEW d \in 0 .. MaximumCount - 1, d + 1 \in D
       PROVE  d \in D
    <2>1. d \in Degrees /\ d + 1 \in Degrees
        BY DegreesAre
    <2> DEFINE a == run[d + 1]
               b == h[d + 1]
               k == c[d]
               u == a * x + k
               v == b * x + k
    <2>2. run[d] = u % Prime /\ h[d] = v
        BY <1>4, <1>12 DEF IsHorner, M
    <2>3. a \in Int /\ Alike(a, b)
        BY <1>14
    <2>4. b \in Int
        BY <1>4, <2>1 DEF IsHorner
    <2>5. k \in Int
        BY <1>2, <2>1, PolynomialIs
    <2> HIDE DEF a, b, k
    <2>6. Alike(u, v) /\ u \in Int /\ v \in Int
        <3> DEFINE s == a * x
                   t == b * x
        <3>1. s \in Int /\ t \in Int
            BY <2>3, <2>4
        <3>2. Alike(x, x) /\ Alike(k, k)
            BY <2>5, AlikeRules
        <3>3. Alike(s, t)
            BY <2>3, <2>4, <3>2, AlikeSums
        <3>4. u = s + k /\ v = t + k
            OBVIOUS
        <3> HIDE DEF s, t, u, v
        <3>5. Alike(s + k, t + k)
            BY <2>5, <3>1, <3>2, <3>3, AlikeSums
        <3> QED
            BY <2>5, <3>1, <3>4, <3>5
    <2> HIDE DEF u, v
    <2>7. Alike(u % Prime, v) /\ u % Prime \in Int
        BY <1>3, <2>6, AlikeRules
    <2> QED
        BY <2>1, <2>2, <2>7
<1>15. D = Degrees
    <2>1. D \in SUBSET Degrees
        OBVIOUS
    <2> HIDE DEF D
    <2> QED
        BY <1>13, <1>14, <2>1, Descending
<1>16. Alike(run[0], h[0])
    BY <1>15, DegreesAre
<1>17. run[0] \in 0 .. Prime - 1
    <2>1. 0 \in 0 .. MaximumCount - 1 /\ 0 + 1 \in Degrees
        BY PrimeIs, DegreesAre
    <2>2. run[0 + 1] \in Int /\ c[0] \in Int
        BY <1>2, <1>15, <2>1, DegreesAre, PolynomialIs
    <2>3. run[0] = (run[0 + 1] * x + c[0]) % Prime
        BY <1>12, <2>1 DEF M
    <2> DEFINE u == run[0 + 1] * x + c[0]
    <2>4. u \in Int /\ run[0] = u % Prime
        BY <2>2, <2>3
    <2> HIDE DEF u
    <2> QED
        BY <2>4, AlikeRules
<1> QED
    BY <1>16, <1>17, RunsAre DEF run, h, c, ValueAt

(* Every count of the public width is judged right.                        *)
LEMMA OverflowJudges ==
    ASSUME NEW x \in Degrees
    PROVE  Overflow(x) = IF x > GlobalFrontier THEN 1 ELSE 0
<1> DEFINE v == ValueAt(Coefficients, x)
           u == ValueAt(SumOver(Above), x)
           one == IF x > GlobalFrontier THEN 1 ELSE 0
<1>1. x \in Int /\ SumOver(Above) \in Polynomials /\ Coefficients \in Polynomials
    BY DegreesAre, SumOverIs, CoefficientsAre
<1>2. Alike(v, u)
    BY <1>1, CoefficientsAre, ValuesAlike
<1>3. u \in Int /\ v \in Int
    BY <1>1, HornerIs
<1>4. x \in Above <=> x > GlobalFrontier
    BY PrimeIs DEF Degrees, Above
<1>5. Alike(u, one)
    BY <1>4, SumOverValue
<1>6. Alike(Overflow(x), v) /\ Overflow(x) \in 0 .. Prime - 1
    BY <1>1, OverflowIs
<1>7. one \in 0 .. Prime - 1 /\ one \in Int /\ Overflow(x) \in Int /\ Prime \in Nat \ {0}
    BY <1>6, PrimeIs
<1> HIDE DEF u, v, one
<1>8. Alike(Overflow(x), u)
    BY <1>2, <1>3, <1>6, <1>7, AlikeRules
<1>9. Alike(Overflow(x), one)
    BY <1>3, <1>5, <1>7, <1>8, AlikeRules
<1>10. Overflow(x) % Prime = one % Prime
    BY <1>7, <1>9, AlikeIs
<1>11. \A n \in 0 .. Prime - 1 : n % Prime = n
    <2>1. \A n \in 0 .. Prime - 1 : 0 * Prime + n = n
        BY <1>7
    <2> QED
        BY <1>7, <2>1, RemainderIs, 0 \in Int
<1>12. Overflow(x) = one
    BY <1>6, <1>7, <1>10, <1>11
<1> QED
    BY <1>12 DEF one

-----------------------------------------------------------------------------
(* The counts the polynomial is evaluated at.                              *)

\* How many triples of a key each owner has.
CountsOf(k) == [o \in Owners |-> Degree(o, k)]

(* The circuit adds the owners' counts of a key to the federation's, and   *)
(* admitted files keep that within the polynomial's points.                *)
LEMMA FederationCounts ==
    ASSUME LayoutShape, NEW k \in AllKeys, \A o \in Owners : Admitted(o)
    PROVE  FederationDegree(k) = Occupancy(k) /\ Occupancy(k) \in Degrees
<1> DEFINE f == CountsOf(k)
           n == OwnerCount
           up == [o \in 0 .. n |-> SumFunctionOnSet(f, 1 .. o)]
           Solves(u) == u = [o \in 0 .. n |-> IF o = 0 THEN 0 ELSE u[o - 1] + Degree(o, k)]
           run == CHOOSE u : Solves(u)
<1>1. Owners = 1 .. n /\ n \in Nat /\ IsFiniteSet(Owners)
    BY OwnersAre
<1>2. \A o \in Owners : f[o] = Degree(o, k) /\ f[o] \in Int /\ f[o] \in 0 .. SlotsPerKey
    <2> SUFFICES ASSUME NEW o \in Owners
                 PROVE  Degree(o, k) \in 0 .. SlotsPerKey
        BY DEF CountsOf
    <2>1. Degree(o, k) \in Nat /\ (k \in Keys(o) <=> Degree(o, k) # 0)
        BY RowsFinite DEF LayoutShape
    <2>2. k \in Keys(o) => Degree(o, k) <= FrontierPerOwner
        BY DEF Admitted
    <2>3. FrontierPerOwner \in Nat /\ FrontierPerOwner <= SlotsPerKey /\ SlotsPerKey \in Nat
        BY Sizes, PageAssumption
    <2> QED
        BY <2>1, <2>2, <2>3
<1> HIDE DEF f
<1>3. \A o \in 1 .. n : 1 .. o = (1 .. o - 1) \cup {o} /\ 1 .. o - 1 \in SUBSET Owners /\ o \in Owners \ (1 .. o - 1)
    BY <1>1
<1>4. /\ SumFunctionOnSet(f, {}) = 0
      /\ \A T \in SUBSET Owners : SumFunctionOnSet(f, T) \in Int
      /\ \A T \in SUBSET Owners : \A y \in Owners \ T :
            SumFunctionOnSet(f, T \cup {y}) = f[y] + SumFunctionOnSet(f, T)
    <2>1. IsFiniteSet(Owners) /\ \A o \in Owners : f[o] \in Int
        BY <1>1, <1>2
    <2> QED
        BY <2>1, SumGrows
<1>5. \A o \in 1 .. n : SumFunctionOnSet(f, 1 .. o) = SumFunctionOnSet(f, 1 .. o - 1) + Degree(o, k)
    <2> SUFFICES ASSUME NEW o \in 1 .. n
                 PROVE  SumFunctionOnSet(f, 1 .. o) = SumFunctionOnSet(f, 1 .. o - 1) + Degree(o, k)
        OBVIOUS
    <2> DEFINE T == 1 .. o - 1
               s == SumFunctionOnSet(f, T)
    <2>1. 1 .. o = T \cup {o} /\ T \in SUBSET Owners /\ o \in Owners \ T
        BY <1>3
    <2> HIDE DEF T
    <2>2. SumFunctionOnSet(f, T \cup {o}) = f[o] + s /\ s \in Int
        BY <1>4, <2>1
    <2>3. f[o] = Degree(o, k) /\ f[o] \in Int
        BY <1>2, <2>1
    <2> HIDE DEF s
    <2>4. f[o] + s = s + Degree(o, k)
        BY <2>2, <2>3
    <2> QED
        BY <2>1, <2>2, <2>4 DEF T, s
<1>6. SumFunctionOnSet(f, 1 .. 0) = 0
    <2>1. 1 .. 0 = {}
        OBVIOUS
    <2> QED
        BY <1>4, <2>1
<1>7. Solves(up)
    <2>1. \A o \in 0 .. n : up[o] = IF o = 0 THEN 0 ELSE up[o - 1] + Degree(o, k)
        <3>1. \A o \in 0 .. n : up[o] = SumFunctionOnSet(f, 1 .. o)
            OBVIOUS
        <3>2. \A o \in 0 .. n : o = 0 \/ (o \in 1 .. n /\ o - 1 \in 0 .. n)
            BY <1>1
        <3> HIDE DEF up
        <3> QED
            BY <1>5, <1>6, <3>1, <3>2
    <2>2. up = [o \in 0 .. n |-> up[o]]
        OBVIOUS
    <2> HIDE DEF up
    <2> QED
        BY <2>1, <2>2
<1>8. Solves(run)
    <2> HIDE DEF Solves, up
    <2> QED
        BY <1>7
<1>9. FederationDegree(k) = run[n]
    BY DEF FederationDegree
<1> HIDE DEF run
<1>10. run[0] = 0 /\ \A o \in 1 .. n : run[o] = run[o - 1] + Degree(o, k)
    <2>1. 0 \in 0 .. n /\ \A o \in 1 .. n : o \in 0 .. n /\ o # 0
        BY <1>1
    <2> QED
        BY <1>8, <2>1
<1> DEFINE D == {o \in 0 .. n : run[o] = SumFunctionOnSet(f, 1 .. o) /\ run[o] \in 0 .. o * SlotsPerKey}
<1>11. 0 \in D
    <2>1. 0 * SlotsPerKey = 0 /\ 0 \in 0 .. n
        BY <1>1, Sizes
    <2> QED
        BY <1>6, <1>10, <2>1
<1>12. ASSUME NEW o \in 1 .. n, o - 1 \in D
       PROVE  o \in D
    <2>1. o \in 0 .. n /\ o - 1 \in Nat /\ (o - 1) + 1 = o /\ o \in Owners /\ SlotsPerKey \in Nat
        BY <1>1, Sizes
    <2>2. run[o] = SumFunctionOnSet(f, 1 .. o)
        BY <1>5, <1>10, <1>12
    <2>3. Degree(o, k) \in 0 .. SlotsPerKey /\ run[o - 1] \in 0 .. (o - 1) * SlotsPerKey
        BY <1>2, <1>12, <2>1
    <2>4. o * SlotsPerKey = (o - 1) * SlotsPerKey + SlotsPerKey /\ (o - 1) * SlotsPerKey \in Nat
        <3>1. ((o - 1) + 1) * SlotsPerKey = (o - 1) * SlotsPerKey + SlotsPerKey
            BY <2>1, Products
        <3> QED
            BY <2>1, <3>1
    <2> DEFINE a == run[o - 1]
               b == (o - 1) * SlotsPerKey
               c == Degree(o, k)
    <2>5. run[o] = a + c /\ o * SlotsPerKey = b + SlotsPerKey /\ a \in 0 .. b /\ c \in 0 .. SlotsPerKey /\ b \in Nat
        BY <1>10, <2>3, <2>4
    <2> HIDE DEF a, b, c
    <2>6. run[o] \in 0 .. o * SlotsPerKey
        BY <2>1, <2>5
    <2> QED
        BY <2>1, <2>2, <2>6
<1>13. D = 0 .. n
    <2>1. D \in SUBSET (0 .. n)
        OBVIOUS
    <2> HIDE DEF D
    <2> QED
        BY <1>1, <1>11, <1>12, <2>1, Ascending
<1>14. run[n] = SumFunctionOnSet(f, Owners) /\ run[n] \in 0 .. n * SlotsPerKey
    BY <1>1, <1>13
<1>15. Occupancy(k) = SumFunctionOnSet(f, Owners)
    <2>1. DOMAIN f = Owners /\ Occupancy(k) = SumFunction(f)
        BY DEF f, CountsOf, Occupancy
    <2> QED
        BY <2>1, SumOfFunction
<1> QED
    BY <1>9, <1>14, <1>15 DEF Degrees, MaximumCount

\* The keys over the bound.
Crowded == {k \in 0 .. DirectoryRows - 1 : FederationDegree(k) > GlobalFrontier}

(* The circuit opens the number of keys over the bound: there are fewer    *)
(* keys than the prime, so that none is lost to a reduction.               *)
LEMMA VerdictIs ==
    ASSUME LayoutShape, \A o \in Owners : Admitted(o)
    PROVE  Violations = Cardinality(Crowded)
<1> DEFINE f == [k \in AllKeys |-> Overflow(Occupancy(k))]
<1>1. IsFiniteSet(AllKeys) /\ Cardinality(AllKeys) = DirectoryRows /\ DirectoryRows \in Nat
    <2>1. DirectoryRows \in Nat
        BY Sizes
    <2> QED
        BY <2>1, FS_Interval DEF AllKeys
<1>2. Crowded \in SUBSET AllKeys
    BY DEF Crowded, AllKeys
<1>3. \A k \in AllKeys : f[k] = IF k \in Crowded THEN 1 ELSE 0
    <2>1. \A k \in AllKeys : k \in Crowded <=> FederationDegree(k) > GlobalFrontier
        BY DEF Crowded, AllKeys
    <2>2. \A k \in AllKeys : FederationDegree(k) = Occupancy(k) /\ Occupancy(k) \in Degrees
        BY FederationCounts
    <2> QED
        BY <2>1, <2>2, OverflowJudges
<1>4. Violations = SumFunctionOnSet(f, AllKeys) % Prime
    <2>1. DOMAIN f = AllKeys /\ Violations = SumFunction(f) % Prime
        BY DEF Violations, AllKeys
    <2> HIDE DEF f
    <2> QED
        BY <2>1, SumOfFunction
<1> HIDE DEF f
<1>5. SumFunctionOnSet(f, AllKeys) = Cardinality(Crowded)
    BY <1>1, <1>2, <1>3, SumCounts
<1>6. Cardinality(Crowded) \in Nat /\ Cardinality(Crowded) <= DirectoryRows
    BY <1>1, <1>2, FS_Subset, FS_CardinalityType
<1>7. /\ Cardinality(Crowded) \in 0 .. Prime - 1 /\ Prime \in Nat \ {0}
      /\ 0 * Prime + Cardinality(Crowded) = Cardinality(Crowded)
    BY <1>6, PrimeIs
<1>8. Cardinality(Crowded) % Prime = Cardinality(Crowded)
    BY <1>7, RemainderIs, 0 \in Int
<1> QED
    BY <1>4, <1>5, <1>8

\* What was opened is the number of keys over the bound.
VerdictInv ==
    /\ LayoutInv
    /\ AdmittedInv
    /\ violations # Unopened => violations = Cardinality(Crowded)

(* They depend on the files alone.                                         *)
LEMMA CrowdedKeep ==
    ASSUME edges' = edges
    PROVE  Crowded' = Crowded
<1>1. \A o, k : Degree(o, k)' = Degree(o, k)
    BY FilesKeep
<1>2. \A k : FederationDegree(k)' = FederationDegree(k)
    BY <1>1 DEF FederationDegree
<1> QED
    BY <1>2 DEF Crowded

(* A verdict stands while the files do.                                    *)
LEMMA VerdictStays ==
    ASSUME VerdictInv, LayoutInv', AdmittedInv', edges' = edges, violations' = violations
    PROVE  VerdictInv'
BY CrowdedKeep DEF VerdictInv, Unopened

(* A verdict is opened once all files are admitted and stays.              *)
LEMMA VerdictNext == VerdictInv /\ [Next]_vars => VerdictInv'
<1> SUFFICES ASSUME VerdictInv, [Next]_vars PROVE VerdictInv'
    OBVIOUS
<1>1. LayoutInv /\ AdmittedInv /\ LayoutShape /\ phase \in Phases
    BY DEF VerdictInv, LayoutInv, LayoutShape
<1>2. LayoutInv'
    BY <1>1, LayoutNext
<1>3. CASE UNCHANGED vars
    <2>1. UNCHANGED layoutVars /\ phase' = phase /\ violations' = violations
        BY <1>3 DEF vars, tableVars
    <2>2. AdmittedInv'
        BY <1>1, <2>1, AdmittedMoves
    <2> QED
        BY <1>2, <2>1, <2>2, VerdictStays DEF layoutVars
<1>4. CASE RefuseConfig
    <2>1. UNCHANGED layoutVars /\ phase' = "refused" /\ violations' = violations
        BY <1>4 DEF RefuseConfig, tableVars
    <2>2. AdmittedInv'
        BY <1>1, <2>1, AdmittedMoves
    <2> QED
        BY <1>2, <2>1, <2>2, VerdictStays DEF layoutVars
<1>5. CASE BuildOwner
    <2>1. violations' = violations
        BY <1>5 DEF BuildOwner, tableVars
    <2>2. CASE \E k \in Keys(owner) : PlaceKey(k)
        <3>1. PICK k \in Keys(owner) : PlaceKey(k)
            BY <2>2
        <3>2. AdmittedInv' /\ edges' = edges
            BY <1>1, <3>1, AdmittedPlaceKey DEF PlaceKey
        <3> QED
            BY <1>2, <2>1, <3>2, VerdictStays
    <2>3. CASE RefuseLayout
        <3>1. UNCHANGED layoutVars /\ phase' = "refused"
            BY <2>3 DEF RefuseLayout
        <3>2. AdmittedInv'
            BY <1>1, <3>1, AdmittedMoves
        <3> QED
            BY <1>2, <2>1, <3>1, <3>2, VerdictStays DEF layoutVars
    <2> QED
        BY <1>5, <2>2, <2>3 DEF BuildOwner
<1>6. CASE ShareOwner
    <2>1. violations' = violations
        BY <1>6 DEF ShareOwner
    <2>2. CASE FinishOwner
        <3>1. AdmittedInv' /\ edges' = edges
            BY <1>1, <2>2, AdmittedFinishOwner DEF FinishOwner
        <3> QED
            BY <1>2, <2>1, <3>1, VerdictStays
    <2>3. CASE UNCHANGED layoutVars /\ phase' = "refused"
        <3>1. AdmittedInv'
            BY <1>1, <2>3, AdmittedMoves
        <3> QED
            BY <1>2, <2>1, <2>3, <3>1, VerdictStays DEF layoutVars
    <2> QED
        BY <1>6, <2>2, <2>3 DEF ShareOwner
<1>7. CASE Assemble
    <2>1. UNCHANGED layoutVars /\ phase' = phase /\ violations' = violations
        BY <1>7 DEF Assemble
    <2>2. AdmittedInv'
        BY <1>1, <2>1, AdmittedMoves
    <2> QED
        BY <1>2, <2>1, <2>2, VerdictStays DEF layoutVars
<1>8. CASE CheckBound
    <2>1. /\ UNCHANGED layoutVars /\ phase = "check" /\ phase' \in {"hop1", "refused"}
          /\ violations' = Violations
        BY <1>8 DEF CheckBound
    <2>2. AdmittedInv'
        BY <1>1, <2>1, AdmittedMoves
    <2>3. \A o \in Owners : Admitted(o)
        BY <1>1, <2>1 DEF AdmittedInv
    <2>4. violations' = Cardinality(Crowded)
        BY <1>1, <2>1, <2>3, VerdictIs
    <2>5. Crowded' = Crowded
        BY <2>1, CrowdedKeep DEF layoutVars
    <2> QED
        BY <1>2, <2>2, <2>4, <2>5 DEF VerdictInv
<1> QED
    BY <1>3, <1>4, <1>5, <1>6, <1>7, <1>8 DEF Next

(* What the bound check opens is the number of keys that hold more edges   *)
(* over the federation than the frontier has entries, so it is zero        *)
(* exactly when the bound holds (bound_check_program.py, "the exact        *)
(* predicate").                                                            *)
THEOREM BoundVerdicts == Spec => []BoundVerdictExact
<1>1. Init => VerdictInv
    BY LayoutInitInv, AdmittedInit DEF Init, VerdictInv
<1>2. VerdictInv /\ [Next]_vars => VerdictInv'
    BY VerdictNext
<1>3. VerdictInv => BoundVerdictExact
    BY DEF VerdictInv, Crowded, BoundVerdictExact
<1> QED
    BY <1>1, <1>2, <1>3, PTL DEF Spec
=============================================================================
