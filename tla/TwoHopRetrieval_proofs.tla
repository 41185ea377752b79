------------------------- MODULE TwoHopRetrieval_proofs -------------------------
(***************************************************************************)
(* Proofs for any federation, files, widths, queries and ranks, whichever  *)
(* circuit the deployment compiled: no access number of a stack is used    *)
(* twice or past the budget, no candidate is taken out of the scan twice,  *)
(* every array keeps its public width, the frontier has every first edge,  *)
(* and the answers are those of the plain join of the edge files.          *)
(*                                                                         *)
(* The last two go from the files to the answers: what a layout, a record  *)
(* or a block holds lists the edges of a key in their order, joining and   *)
(* compacting rows keeps a listing, every part of hop1, frontier and hop2  *)
(* that the loops have passed is what a full read answers, and the winners *)
(* of the scans are the kept candidates by rank, which are the kept paths. *)
(***************************************************************************)
EXTENDS TwoHopRetrieval, RelationPages_proofs

Before == {"build", "check", "refused"}

\* Where the loops are.  The circuits that read a batch at once only loop
\* over queries and ranks.
LoopsInRange ==
    /\ circuit \in Circuits
    /\ phase \in Phases
    /\ step \in [query : Queries, entry : 1 .. LastEntry, owner : 1 .. LastOwner]
    /\ ~Stacked => /\ step.owner = 1
                   /\ phase # "rank" => step.entry = 1
    /\ phase \in Before => step = FirstStep

\* The reads of owner o that lie behind the loop.
Taken(o) ==
    CASE phase \in Before -> 0
      [] phase = "hop1" -> step.query - 1 + (IF o < step.owner THEN 1 ELSE 0)
      [] phase = "compact" -> QueryCount
      [] phase = "hop2" -> QueryCount + (step.query - 1) * GlobalFrontier
                           + (step.entry - 1) + (IF o < step.owner THEN 1 ELSE 0)
      [] OTHER -> DirectoryAccesses

\* The first n access numbers, in order.
Counting(n) == [i \in 1 .. n |-> i - 1]

PagesTaken(o) == IF circuit.reads = "records" THEN 0 ELSE Taken(o) * PagesPerKey

\* The numbers used are those the position of the loops tells.
NumbersFollowLoops ==
    /\ directoryUsed = [o \in Owners |-> directoryUsed[o]]
    /\ pageUsed = [o \in Owners |-> pageUsed[o]]
    /\ Stacked => \A o \in Owners :
          /\ directoryUsed[o] = Counting(Taken(o))
          /\ pageUsed[o] = Counting(PagesTaken(o))

ScheduleInv == LoopsInRange /\ NumbersFollowLoops

-----------------------------------------------------------------------------
LEMMA Constants ==
    /\ OwnerCount \in Nat \ {0} /\ QueryCount \in Nat \ {0} /\ TopK \in Nat \ {0}
    /\ GlobalFrontier \in Nat \ {0} /\ PagesPerKey \in Nat \ {0}
    /\ DirectoryAccesses \in Nat /\ PageAccesses = DirectoryAccesses * PagesPerKey
    /\ 1 \in Queries /\ 1 \in Owners
BY PageAssumption, QueryAssumption DEF DirectoryAccesses, PageAccesses, Queries, Owners

(* How two sequences of numbers are joined.                                *)
LEMMA Joining ==
    ASSUME NEW s \in Seq(Nat), NEW t \in Seq(Nat)
    PROVE  /\ s \o t \in Seq(Nat)
           /\ Len(s \o t) = Len(s) + Len(t)
           /\ \A i \in 1 .. Len(s) : (s \o t)[i] = s[i]
           /\ \A i \in 1 .. Len(t) : (s \o t)[Len(s) + i] = t[i]
    OBVIOUS

(* Sequences of numbers are equal when their entries are.                  *)
LEMMA SameNumbers ==
    ASSUME NEW s \in Seq(Nat), NEW t \in Seq(Nat), Len(s) = Len(t),
           \A i \in 1 .. Len(s) : s[i] = t[i]
    PROVE  s = t
    OBVIOUS

LEMMA CountingIs ==
    ASSUME NEW n \in Nat
    PROVE  /\ Counting(n) \in Seq(Nat) /\ Len(Counting(n)) = n
           /\ \A i \in 1 .. n : Counting(n)[i] = i - 1
    BY DEF Counting

(* A sequence that counts on where the numbers up to n end.                *)
LEMMA CountsOn ==
    ASSUME NEW n \in Nat, NEW m \in Nat, NEW s \in Seq(Nat), Len(s) = m,
           \A i \in 1 .. m : s[i] = n + i - 1
    PROVE  Counting(n) \o s = Counting(n + m)
<1> DEFINE first == Counting(n)
           whole == Counting(n + m)
<1>1. /\ first \in Seq(Nat) /\ Len(first) = n
      /\ \A i \in 1 .. n : first[i] = i - 1
    BY CountingIs
<1>2. /\ whole \in Seq(Nat) /\ Len(whole) = n + m
      /\ \A i \in 1 .. n + m : whole[i] = i - 1
    <2>1. n + m \in Nat
        OBVIOUS
    <2> QED
        BY <2>1, CountingIs
<1> SUFFICES first \o s = whole
    OBVIOUS
<1> HIDE DEF first, whole
<1> DEFINE joined == first \o s
<1>3. /\ joined \in Seq(Nat)
      /\ Len(joined) = Len(first) + Len(s)
      /\ \A i \in 1 .. Len(first) : joined[i] = first[i]
      /\ \A i \in 1 .. Len(s) : joined[Len(first) + i] = s[i]
    BY <1>1, Joining, Zenon
<1> HIDE DEF joined
<1>4. ASSUME NEW i \in 1 .. n + m
      PROVE  joined[i] = i - 1
    <2>1. CASE i \in 1 .. n
        BY <1>1, <1>3, <2>1
    <2>2. CASE i \notin 1 .. n
        <3>1. i - n \in 1 .. m /\ n + (i - n) = i
            BY <2>2
        <3>2. joined[n + (i - n)] = s[i - n]
            BY <1>1, <1>3, <3>1
        <3> QED
            BY <3>1, <3>2
    <2> QED
        BY <2>1, <2>2
<1>5. joined = whole
    BY <1>1, <1>2, <1>3, <1>4, SameNumbers
<1> QED
    BY <1>5 DEF joined

(* Counting on by one number and by a block of numbers.                    *)
LEMMA CountingGrows ==
    ASSUME NEW n \in Nat, NEW b \in Nat
    PROVE  /\ Append(Counting(n), n) = Counting(n + 1)
           /\ Counting(n) \o [p \in 1 .. b |-> n + p - 1] = Counting(n + b)
<1>1. Counting(n) \o [p \in 1 .. b |-> n + p - 1] = Counting(n + b)
    <2> DEFINE block == [p \in 1 .. b |-> n + p - 1]
    <2>1. /\ block \in Seq(Nat) /\ Len(block) = b
          /\ \A p \in 1 .. b : block[p] = n + p - 1
        OBVIOUS
    <2> HIDE DEF block
    <2>2. Counting(n) \o block = Counting(n + b)
        BY <2>1, CountsOn
    <2> QED
        BY <2>2 DEF block
<1>2. Append(Counting(n), n) = Counting(n + 1)
    <2>1. <<n>> \in Seq(Nat) /\ Len(<<n>>) = 1 /\ \A i \in 1 .. 1 : <<n>>[i] = n + i - 1
        OBVIOUS
    <2>2. Counting(n) \o <<n>> = Counting(n + 1)
        BY <2>1, CountsOn
    <2>3. ASSUME NEW s \in Seq(Nat)
          PROVE  Append(s, n) = s \o <<n>>
        OBVIOUS
    <2> QED
        BY <2>2, <2>3, CountingIs
<1> QED
    BY <1>1, <1>2

(* The numbers counted are all different and within the budget.            *)
LEMMA CountingNeverRepeats ==
    ASSUME NEW n \in Nat, NEW budget \in Nat, n <= budget
    PROVE  NeverRepeats(Counting(n), budget)
BY DEF NeverRepeats, Counting

(* How the loops go on.                                                    *)
LEMMA NextStepEffect ==
    ASSUME LoopsInRange, NEW entries \in Nat \ {0}, NEW owners \in Nat \ {0},
           step.entry <= entries, step.owner <= owners,
           NEW next, NextStep(entries, owners, next)
    PROVE  \/ /\ step.owner < owners /\ phase' = phase
              /\ step' = [query |-> step.query, entry |-> step.entry, owner |-> step.owner + 1]
           \/ /\ step.owner = owners /\ step.entry < entries /\ phase' = phase
              /\ step' = [query |-> step.query, entry |-> step.entry + 1, owner |-> 1]
           \/ /\ step.owner = owners /\ step.entry = entries /\ step.query < QueryCount
              /\ phase' = phase
              /\ step' = [query |-> step.query + 1, entry |-> 1, owner |-> 1]
           \/ /\ step.owner = owners /\ step.entry = entries /\ step.query = QueryCount
              /\ phase' = next
              /\ step' = [query |-> 1, entry |-> 1, owner |-> 1]
<1>1. step \in [query : 1 .. QueryCount, entry : Nat, owner : Nat]
    BY Constants DEF LoopsInRange, Queries, LastEntry, LastOwner
<1>2. step.owner < owners \/ step.owner = owners
    BY <1>1
<1>3. step.entry < entries \/ step.entry = entries
    BY <1>1
<1>4. step.query < QueryCount \/ step.query = QueryCount
    BY <1>1, Constants
<1>5. ~(owners < owners) /\ ~(entries < entries) /\ ~(QueryCount < QueryCount)
    BY Constants
<1>6. CASE step.owner < owners
    BY <1>1, <1>6 DEF NextStep
<1>7. CASE step.owner = owners /\ step.entry < entries
    BY <1>1, <1>5, <1>7 DEF NextStep
<1>8. CASE step.owner = owners /\ step.entry = entries /\ step.query < QueryCount
    BY <1>1, <1>5, <1>8 DEF NextStep
<1>9. CASE step.owner = owners /\ step.entry = entries /\ step.query = QueryCount
    BY <1>1, <1>5, <1>9 DEF NextStep, FirstStep
<1> QED
    BY <1>2, <1>3, <1>4, <1>6, <1>7, <1>8, <1>9

-----------------------------------------------------------------------------
(* The loops never say that more was read than the budget holds.           *)
LEMMA TakenInBudget ==
    ASSUME LoopsInRange, NEW o \in Owners
    PROVE  Taken(o) \in 0 .. DirectoryAccesses
<1> DEFINE QC == QueryCount
           GF == GlobalFrontier
           q == step.query
<1>1. /\ QC \in Nat \ {0} /\ GF \in Nat \ {0} /\ q \in 1 .. QC
      /\ step.entry \in 1 .. LastEntry
    BY Constants DEF LoopsInRange, Queries
<1>2. /\ DirectoryAccesses = QC + QC * GF /\ QC * GF \in Nat
    BY <1>1 DEF DirectoryAccesses
<1>3. (q - 1) * GF \in Nat /\ (q - 1) * GF + GF <= QC * GF
    <2>1. q - 1 \in Nat /\ QC - 1 \in Nat /\ q - 1 <= QC - 1 /\ (QC - 1) + 1 = QC
        BY <1>1
    <2>2. /\ (q - 1) * GF \in Nat /\ (QC - 1) * GF \in Nat
          /\ (q - 1) * GF <= (QC - 1) * GF
        BY <1>1, <2>1, Products
    <2>3. QC * GF = (QC - 1) * GF + GF
        BY <1>1, <2>1, Products
    <2> QED
        BY <1>1, <2>2, <2>3
<1> DEFINE add == IF o < step.owner THEN 1 ELSE 0
           before == (q - 1) * GF
           all == QC * GF
<1>4. add \in 0 .. 1
    OBVIOUS
<1> HIDE DEF QC, GF, q, add, before, all
<1>5. CASE phase \in Before
    <2>1. Taken(o) = 0
        BY <1>5 DEF Taken, Before
    <2> QED
        BY <1>1, <1>2, <2>1 DEF all
<1>6. CASE phase = "hop1"
    <2>1. Taken(o) = q - 1 + add
        BY <1>6 DEF Taken, Before, q, add
    <2> QED
        BY <1>1, <1>2, <1>4, <2>1 DEF all
<1>7. CASE phase = "compact"
    <2>1. Taken(o) = QC
        BY <1>7 DEF Taken, Before, QC
    <2> QED
        BY <1>1, <1>2, <2>1 DEF all
<1>8. CASE phase = "hop2"
    <2>1. Taken(o) = QC + before + (step.entry - 1) + add
        BY <1>8 DEF Taken, Before, QC, q, add, before, GF
    <2>2. step.entry \in 1 .. GF
        BY <1>1, <1>8 DEF LastEntry, GF
    <2>3. before \in Nat /\ all \in Nat /\ before + GF <= all /\ DirectoryAccesses = QC + all
        BY <1>2, <1>3 DEF before, all
    <2> QED
        BY <1>1, <1>4, <2>1, <2>2, <2>3
<1>9. CASE phase \notin Before \cup {"hop1", "compact", "hop2"}
    <2>1. Taken(o) = DirectoryAccesses
        BY <1>9 DEF Taken, Before
    <2> QED
        BY <1>1, <1>2, <2>1 DEF all
<1> QED
    BY <1>5, <1>6, <1>7, <1>8, <1>9

(* A read takes the next numbers of one owner's stacks.                    *)
LEMMA AccessesTaken ==
    ASSUME LoopsInRange, NumbersFollowLoops, Stacked, circuit' = circuit,
           NEW o \in Owners, TakeAccesses(o),
           \A p \in Owners : Taken(p)' = Taken(p) + (IF p = o THEN 1 ELSE 0)
    PROVE  NumbersFollowLoops'
<1>1. /\ directoryUsed' = [p \in Owners |-> directoryUsed'[p]]
      /\ pageUsed' = [p \in Owners |-> pageUsed'[p]]
    <2>1. DOMAIN directoryUsed = Owners /\ DOMAIN pageUsed = Owners
        BY DEF NumbersFollowLoops
    <2>2. /\ directoryUsed' = [p \in Owners |-> IF p = o
                THEN Append(directoryUsed[o], Len(directoryUsed[o])) ELSE directoryUsed[p]]
        BY DEF NumbersFollowLoops, TakeAccesses
    <2>3. CASE circuit.reads = "records"
        BY <2>2, <2>3 DEF NumbersFollowLoops, TakeAccesses
    <2>4. CASE circuit.reads # "records"
        <3>1. pageUsed' = [p \in Owners |-> IF p = o
                THEN pageUsed[o] \o [i \in 1 .. PagesPerKey |->
                        Len(directoryUsed[o]) * PagesPerKey + i - 1]
                ELSE pageUsed[p]]
            BY <2>4 DEF NumbersFollowLoops, TakeAccesses
        <3> QED
            BY <2>2, <3>1
    <2> QED
        BY <2>3, <2>4
<1> SUFFICES ASSUME NEW p \in Owners
             PROVE  /\ directoryUsed'[p] = Counting(Taken(p)')
                    /\ pageUsed'[p] = Counting(PagesTaken(p)')
    BY <1>1 DEF NumbersFollowLoops
<1>2. /\ directoryUsed[p] = Counting(Taken(p)) /\ pageUsed[p] = Counting(PagesTaken(p))
      /\ Taken(p) \in Nat
    BY TakenInBudget, Constants DEF NumbersFollowLoops
<1>3. CASE p # o
    <2>1. Taken(p)' = Taken(p)
        BY <1>2, <1>3
    <2>2. PagesTaken(p)' = PagesTaken(p)
        BY <2>1 DEF PagesTaken
    <2>3. directoryUsed'[p] = directoryUsed[p] /\ pageUsed'[p] = pageUsed[p]
        BY <1>3 DEF NumbersFollowLoops, TakeAccesses
    <2> QED
        BY <1>2, <2>1, <2>2, <2>3
<1>4. CASE p = o
    <2> DEFINE t == Taken(p)
    <2>1. Taken(p)' = t + 1 /\ t \in Nat
        BY <1>2, <1>4
    <2>2. Len(directoryUsed[p]) = t
        BY <1>2, CountingIs
    <2> HIDE DEF t
    <2>3. directoryUsed'[p] = Counting(t + 1)
        <3>1. directoryUsed'[p] = Append(Counting(t), t)
            BY <1>2, <1>4, <2>2 DEF NumbersFollowLoops, TakeAccesses, t
        <3> QED
            BY <2>1, <3>1, CountingGrows
    <2>4. pageUsed'[p] = Counting(PagesTaken(p)')
        <3>1. CASE circuit.reads = "records"
            BY <1>2, <3>1 DEF PagesTaken, TakeAccesses
        <3>2. CASE circuit.reads # "records"
            <4>1. t * PagesPerKey \in Nat /\ (t + 1) * PagesPerKey = t * PagesPerKey + PagesPerKey
                BY <2>1, Constants, Products
            <4>2. pageUsed'[p] = pageUsed[p] \o [i \in 1 .. PagesPerKey |->
                                                    t * PagesPerKey + i - 1]
                BY <1>4, <2>2, <3>2 DEF NumbersFollowLoops, TakeAccesses
            <4>3. pageUsed[p] = Counting(t * PagesPerKey)
                BY <1>2, <3>2 DEF PagesTaken, t
            <4>4. pageUsed'[p] = Counting(t * PagesPerKey + PagesPerKey)
                BY <4>1, <4>2, <4>3, CountingGrows, Constants
            <4>5. PagesTaken(p)' = (t + 1) * PagesPerKey
                BY <2>1, <3>2 DEF PagesTaken
            <4> QED
                BY <4>1, <4>4, <4>5
        <3> QED
            BY <3>1, <3>2
    <2> QED
        BY <2>1, <2>3, <2>4
<1> QED
    BY <1>3, <1>4

LEMMA NothingTaken ==
    ASSUME NumbersFollowLoops, UNCHANGED usedVars, circuit' = circuit,
           Stacked => \A o \in Owners : Taken(o)' = Taken(o)
    PROVE  NumbersFollowLoops'
<1>1. CASE Stacked
    <2>1. \A o \in Owners : PagesTaken(o)' = PagesTaken(o)
        BY <1>1 DEF PagesTaken
    <2> QED
        BY <1>1, <2>1 DEF NumbersFollowLoops, usedVars
<1>2. CASE ~Stacked
    BY <1>2 DEF NumbersFollowLoops, usedVars, Stacked
<1> QED
    BY <1>1, <1>2

(* Preparation does not move the loops.                                    *)
LEMMA LoopsWait ==
    ASSUME ScheduleInv, phase \in Before, phase' \in Before \cup {"hop1"},
           circuit' = circuit, step' = step, UNCHANGED usedVars
    PROVE  ScheduleInv'
<1>1. step = FirstStep /\ circuit \in Circuits
    BY DEF ScheduleInv, LoopsInRange
<1>2. /\ FirstStep \in [query : Queries, entry : 1 .. 1, owner : 1 .. OwnerCount]
      /\ FirstStep \in [query : Queries, entry : 1 .. 1, owner : 1 .. 1]
      /\ FirstStep.entry = 1 /\ FirstStep.owner = 1
    BY Constants DEF FirstStep
<1>3. LastEntry' = 1 /\ LastOwner' = IF phase' = "hop1" THEN OwnerCount ELSE 1
    BY DEF LastEntry, LastOwner, Before
<1>4. LoopsInRange'
    BY <1>1, <1>2, <1>3 DEF LoopsInRange, Before, Phases
<1>5. ASSUME NEW o \in Owners
      PROVE  Taken(o) = 0 /\ Taken(o)' = 0
    <2>1. Taken(o) = 0
        BY DEF Taken, Before
    <2>2. CASE phase' \in Before
        BY <2>2 DEF Taken, Before
    <2>3. CASE phase' = "hop1"
        <3>1. ~(o < 1) /\ FirstStep.query = 1
            BY DEF Owners, FirstStep
        <3>2. Taken(o)' = step.query - 1 + (IF o < step.owner THEN 1 ELSE 0)
            BY <2>3 DEF Taken, Before
        <3> QED
            BY <1>1, <1>2, <2>1, <3>1, <3>2
    <2> QED
        BY <2>1, <2>2, <2>3
<1>6. NumbersFollowLoops'
    BY <1>5, NothingTaken DEF ScheduleInv
<1> QED
    BY <1>4, <1>6 DEF ScheduleInv

LEMMA ScheduleInit == Init => ScheduleInv
<1> SUFFICES ASSUME Init PROVE ScheduleInv
    OBVIOUS
<1>1. /\ phase = "build" /\ step = FirstStep /\ circuit \in Circuits
      /\ directoryUsed = [o \in Owners |-> <<>>]
      /\ pageUsed = [o \in Owners |-> <<>>]
    BY DEF Init, LayoutInit
<1>2. LastEntry = 1 /\ LastOwner = 1
    BY <1>1 DEF LastEntry, LastOwner
<1>3. LoopsInRange
    BY <1>1, <1>2, Constants DEF LoopsInRange, FirstStep, Phases
<1>4. Counting(0) = <<>>
    BY DEF Counting
<1>5. \A o \in Owners : Taken(o) = 0 /\ PagesTaken(o) = 0
    BY <1>1, Constants DEF Taken, PagesTaken, Before
<1> QED
    BY <1>1, <1>3, <1>4, <1>5 DEF ScheduleInv, NumbersFollowLoops

LEMMA PreparationSchedule ==
    ASSUME ScheduleInv, BuildPages \/ BoundFrontier \/ PackOwner
    PROVE  ScheduleInv'
<1>1. circuit' = circuit /\ step' = step /\ UNCHANGED usedVars
    BY DEF BuildPages, BoundFrontier, PackOwner, settingVars
<1>2. phase \in Before /\ phase' \in Before \cup {"hop1"}
    <2>1. CASE BuildPages
        BY <2>1 DEF BuildPages, PlaceKey, RefuseLayout, FinishOwner, Before
    <2>2. CASE BoundFrontier
        BY <2>2 DEF BoundFrontier, CheckFrontier, Before
    <2>3. CASE PackOwner
        BY <2>3 DEF PackOwner, Before
    <2> QED
        BY <2>1, <2>2, <2>3
<1> QED
    BY <1>1, <1>2, LoopsWait

(* The first hop reads once per query and owner.                           *)
LEMMA ReadHop1Schedule ==
    ASSUME ScheduleInv, ReadHop1
    PROVE  ScheduleInv'
<1>1. /\ LoopsInRange /\ NumbersFollowLoops /\ Stacked /\ phase = "hop1"
      /\ circuit' = circuit /\ TakeAccesses(step.owner)
      /\ NextStep(1, OwnerCount, "compact")
    BY DEF ScheduleInv, ReadHop1, settingVars
<1>2. step.query \in 1 .. QueryCount /\ step.entry = 1 /\ step.owner \in 1 .. OwnerCount
    BY <1>1 DEF LoopsInRange, LastEntry, LastOwner, Queries
<1>3. \/ /\ step.owner < OwnerCount /\ phase' = phase
         /\ step' = [query |-> step.query, entry |-> 1, owner |-> step.owner + 1]
      \/ /\ step.owner = OwnerCount /\ step.query < QueryCount /\ phase' = phase
         /\ step' = [query |-> step.query + 1, entry |-> 1, owner |-> 1]
      \/ /\ step.owner = OwnerCount /\ step.query = QueryCount /\ phase' = "compact"
         /\ step' = [query |-> 1, entry |-> 1, owner |-> 1]
    <2>1. ~(1 < 1) /\ step.entry <= 1 /\ step.owner <= OwnerCount /\ 1 \in Nat \ {0}
        BY <1>2, Constants
    <2> QED
        BY <1>1, <1>2, <2>1, Constants, NextStepEffect
<1>4. LoopsInRange'
    <2>1. /\ step' \in [query : Queries, entry : 1 .. 1, owner : 1 .. OwnerCount]
          /\ phase' = "compact" => step'.owner = 1
          /\ phase' \in {"hop1", "compact"}
        BY <1>1, <1>2, <1>3, Constants DEF Queries
    <2>2. LastEntry' = 1 /\ LastOwner' = IF phase' = "hop1" THEN OwnerCount ELSE 1
        BY <2>1 DEF LastEntry, LastOwner
    <2>3. step' \in [query : Queries, entry : 1 .. LastEntry', owner : 1 .. LastOwner']
        BY <1>3, <2>1, <2>2
    <2>4. Stacked' /\ circuit' \in Circuits /\ phase' \notin Before /\ phase' \in Phases
        BY <1>1, <2>1 DEF LoopsInRange, Stacked, Before, Phases
    <2> QED
        BY <2>3, <2>4 DEF LoopsInRange
<1>5. ASSUME NEW p \in Owners
      PROVE  Taken(p)' = Taken(p) + (IF p = step.owner THEN 1 ELSE 0)
    <2>1. Taken(p) = step.query - 1 + (IF p < step.owner THEN 1 ELSE 0)
        BY <1>1 DEF Taken, Before
    <2>2. CASE phase' = "hop1"
        <3>1. Taken(p)' = step'.query - 1 + (IF p < step'.owner THEN 1 ELSE 0)
            BY <2>2 DEF Taken, Before
        <3> QED
            BY <1>1, <1>2, <1>3, <2>1, <2>2, <3>1 DEF Owners
    <2>3. CASE phase' = "compact"
        <3>1. Taken(p)' = QueryCount
            BY <2>3 DEF Taken, Before
        <3> QED
            BY <1>1, <1>2, <1>3, <2>1, <2>3, <3>1 DEF Owners
    <2> QED
        BY <1>1, <1>3, <2>2, <2>3
<1>6. step.owner \in Owners
    BY <1>2 DEF Owners
<1> QED
    BY <1>1, <1>4, <1>5, <1>6, AccessesTaken DEF ScheduleInv

(* The second hop reads once per query, frontier entry and owner.          *)
LEMMA ReadHop2Schedule ==
    ASSUME ScheduleInv, ReadHop2
    PROVE  ScheduleInv'
<1>1. /\ LoopsInRange /\ NumbersFollowLoops /\ Stacked /\ phase = "hop2"
      /\ circuit' = circuit /\ TakeAccesses(step.owner)
      /\ NextStep(GlobalFrontier, OwnerCount, "rank")
    BY DEF ScheduleInv, ReadHop2, settingVars
<1>2. /\ step.query \in 1 .. QueryCount /\ step.entry \in 1 .. GlobalFrontier
      /\ step.owner \in 1 .. OwnerCount
    BY <1>1 DEF LoopsInRange, LastEntry, LastOwner, Queries
<1>3. \/ /\ step.owner < OwnerCount /\ phase' = phase
         /\ step' = [query |-> step.query, entry |-> step.entry, owner |-> step.owner + 1]
      \/ /\ step.owner = OwnerCount /\ step.entry < GlobalFrontier /\ phase' = phase
         /\ step' = [query |-> step.query, entry |-> step.entry + 1, owner |-> 1]
      \/ /\ step.owner = OwnerCount /\ step.entry = GlobalFrontier
         /\ step.query < QueryCount /\ phase' = phase
         /\ step' = [query |-> step.query + 1, entry |-> 1, owner |-> 1]
      \/ /\ step.owner = OwnerCount /\ step.entry = GlobalFrontier
         /\ step.query = QueryCount /\ phase' = "rank"
         /\ step' = [query |-> 1, entry |-> 1, owner |-> 1]
    <2>1. step.entry <= GlobalFrontier /\ step.owner <= OwnerCount
        BY <1>2, Constants
    <2> QED
        BY <1>1, <2>1, Constants, NextStepEffect
<1>4. LoopsInRange'
    <2>1. /\ step' \in [query : Queries, entry : 1 .. GlobalFrontier, owner : 1 .. OwnerCount]
          /\ phase' = "rank" => step'.owner = 1 /\ step'.entry = 1
          /\ phase' \in {"hop2", "rank"}
        BY <1>1, <1>2, <1>3, Constants DEF Queries
    <2>2. /\ LastEntry' = IF phase' = "hop2" THEN GlobalFrontier ELSE TopK
          /\ LastOwner' = IF phase' = "hop2" THEN OwnerCount ELSE 1
        BY <2>1 DEF LastEntry, LastOwner
    <2>3. step' \in [query : Queries, entry : 1 .. LastEntry', owner : 1 .. LastOwner']
        <3>1. 1 \in 1 .. TopK
            BY Constants
        <3> QED
            BY <2>1, <2>2, <3>1
    <2>4. Stacked' /\ circuit' \in Circuits /\ phase' \notin Before /\ phase' \in Phases
        BY <1>1, <2>1 DEF LoopsInRange, Stacked, Before, Phases
    <2> QED
        BY <2>3, <2>4 DEF LoopsInRange
<1>5. ASSUME NEW p \in Owners
      PROVE  Taken(p)' = Taken(p) + (IF p = step.owner THEN 1 ELSE 0)
    <2> DEFINE before == (step.query - 1) * GlobalFrontier
               later == step.query * GlobalFrontier
    <2>1. Taken(p) = QueryCount + before + (step.entry - 1)
                     + (IF p < step.owner THEN 1 ELSE 0)
        BY <1>1 DEF Taken, Before
    <2>2. before \in Nat /\ later = before + GlobalFrontier
        <3>1. step.query - 1 \in Nat /\ (step.query - 1) + 1 = step.query
            BY <1>2
        <3>2. step.query - 1 <= step.query - 1
            BY <3>1
        <3> HIDE DEF before
        <3>3. before \in Nat /\ ((step.query - 1) + 1) * GlobalFrontier
                                  = before + GlobalFrontier
            BY <3>1, <3>2, Constants, Products DEF before
        <3> QED
            BY <3>1, <3>3
    <2>3. ASSUME phase' = "hop2"
          PROVE  Taken(p)' = QueryCount + (step'.query - 1) * GlobalFrontier
                             + (step'.entry - 1) + (IF p < step'.owner THEN 1 ELSE 0)
        BY <2>3 DEF Taken, Before
    <2>4. QueryCount \in Nat /\ GlobalFrontier \in Nat /\ p \in 1 .. OwnerCount
        BY Constants DEF Owners
    <2> HIDE DEF before, later
    <2>5. CASE /\ step.owner < OwnerCount /\ phase' = phase
               /\ step' = [query |-> step.query, entry |-> step.entry,
                           owner |-> step.owner + 1]
        <3>1. Taken(p)' = QueryCount + before + (step.entry - 1)
                          + (IF p < step.owner + 1 THEN 1 ELSE 0)
            BY <1>1, <2>3, <2>5 DEF before
        <3> QED
            BY <1>2, <2>1, <2>2, <2>4, <3>1
    <2>6. CASE /\ step.owner = OwnerCount /\ phase' = phase
               /\ step' = [query |-> step.query, entry |-> step.entry + 1, owner |-> 1]
        <3>1. Taken(p)' = QueryCount + before + ((step.entry + 1) - 1)
                          + (IF p < 1 THEN 1 ELSE 0)
            BY <1>1, <2>3, <2>6 DEF before
        <3> QED
            BY <1>2, <2>1, <2>2, <2>4, <2>6, <3>1
    <2>7. CASE /\ step.owner = OwnerCount /\ step.entry = GlobalFrontier
               /\ phase' = phase
               /\ step' = [query |-> step.query + 1, entry |-> 1, owner |-> 1]
        <3>1. (step.query + 1) - 1 = step.query
            BY <1>2
        <3>2. Taken(p)' = QueryCount + later + (1 - 1) + (IF p < 1 THEN 1 ELSE 0)
            BY <1>1, <2>3, <2>7, <3>1 DEF later
        <3> QED
            BY <1>2, <2>1, <2>2, <2>4, <2>7, <3>2
    <2>8. CASE /\ step.owner = OwnerCount /\ step.entry = GlobalFrontier
               /\ step.query = QueryCount /\ phase' = "rank"
        <3>1. Taken(p)' = DirectoryAccesses
            BY <2>8 DEF Taken, Before
        <3>2. DirectoryAccesses = QueryCount + later
            BY <2>8, Constants DEF DirectoryAccesses, later
        <3> QED
            BY <1>2, <2>1, <2>2, <2>4, <2>8, <3>1, <3>2
    <2> QED
        BY <1>3, <2>5, <2>6, <2>7, <2>8
<1>6. step.owner \in Owners
    BY <1>2 DEF Owners
<1> QED
    BY <1>1, <1>4, <1>5, <1>6, AccessesTaken DEF ScheduleInv

\* One step of a loop without reads of the stacks.
LoopStep(last, next) ==
    \/ /\ phase' = phase /\ step' = [step EXCEPT !.entry = @ + 1]
       /\ step.entry < last
    \/ /\ phase' = phase /\ step.query < QueryCount
       /\ step' = [query |-> step.query + 1, entry |-> 1, owner |-> 1]
    \/ phase' = next /\ step' = FirstStep

LEMMA LoopSteps ==
    ASSUME LoopsInRange, LastOwner = 1, NEW last \in Nat \ {0}, step.entry <= last,
           NEW next, NextStep(last, 1, next)
    PROVE  LoopStep(last, next)
<1>1. step \in [query : Queries, entry : 1 .. LastEntry, owner : 1 .. 1]
    BY DEF LoopsInRange
<1>2. step.owner = 1 /\ ~(step.owner < 1)
    BY <1>1
<1>3. \/ /\ step.entry < last
         /\ step' = [step EXCEPT !.entry = @ + 1, !.owner = 1] /\ phase' = phase
      \/ /\ step.query < QueryCount /\ phase' = phase
         /\ step' = [step EXCEPT !.query = @ + 1, !.entry = 1, !.owner = 1]
      \/ step' = FirstStep /\ phase' = next
    BY <1>2 DEF NextStep
<1> QED
    BY <1>1, <1>2, <1>3 DEF LoopStep

\* A loop without reads of the stacks stays in range.
LEMMA LoopKeepsRange ==
    ASSUME LoopsInRange, LastOwner = 1, NEW next, LoopStep(LastEntry, next),
           circuit' = circuit, next \in {"hop2", "done"},
           phase = IF next = "hop2" THEN "compact" ELSE "rank"
    PROVE  /\ LoopsInRange'
           /\ phase' \in {phase, next} /\ (phase' = next => step' = FirstStep)
<1>1. /\ step \in [query : 1 .. QueryCount, entry : 1 .. LastEntry, owner : 1 .. 1]
      /\ circuit \in Circuits /\ (~Stacked => step.owner = 1)
      /\ (~Stacked /\ phase # "rank" => step.entry = 1)
      /\ LastEntry \in Nat
    BY Constants DEF LoopsInRange, Queries, LastEntry
<1>2. \/ phase' = phase
      \/ phase' = next /\ step' = FirstStep
    BY DEF LoopStep
<1>3. /\ Stacked' = Stacked /\ circuit' \in Circuits
      /\ phase' \notin Before /\ phase' \in Phases
    BY <1>1, <1>2 DEF Stacked, Before, Phases
<1>4. LastEntry' \in Nat /\ LastOwner' \in Nat
    BY Constants DEF LastEntry, LastOwner
<1>5. CASE phase' = next /\ step' = FirstStep
    <2>1. 1 \in 1 .. LastEntry' /\ 1 \in 1 .. LastOwner'
        BY Constants DEF LastEntry, LastOwner
    <2> QED
        BY <1>3, <1>5, <2>1, Constants DEF LoopsInRange, FirstStep
<1>6. CASE phase' = phase
    <2>1. LastEntry' = LastEntry /\ LastOwner' = 1
        BY <1>6 DEF LastEntry, LastOwner
    <2>2. phase = "compact" => LastEntry = 1
        BY DEF LastEntry
    <2>3. phase # "compact" => phase = "rank" /\ next = "done"
        OBVIOUS
    <2>4. step' \in [query : 1 .. QueryCount, entry : 1 .. LastEntry, owner : 1 .. 1]
        BY <1>1, <1>2, <1>6, Constants DEF LoopStep, FirstStep
    <2>5. step'.owner = 1 /\ (phase' # "rank" => step'.entry = 1)
        BY <1>6, <2>2, <2>3, <2>4
    <2>6. phase' # next
        BY <1>6
    <2> QED
        BY <1>2, <1>3, <2>1, <2>4, <2>5, <2>6 DEF LoopsInRange, Queries
<1> QED
    BY <1>2, <1>5, <1>6

LEMMA CompactSchedule ==
    ASSUME ScheduleInv, Compact
    PROVE  ScheduleInv'
<1>1. /\ LoopsInRange /\ NumbersFollowLoops /\ Stacked /\ phase = "compact"
      /\ circuit' = circuit /\ UNCHANGED usedVars /\ NextStep(1, 1, "hop2")
    BY DEF ScheduleInv, Compact, settingVars
<1>2. LastEntry = 1 /\ LastOwner = 1 /\ step.entry <= 1
    BY <1>1 DEF LastEntry, LastOwner, LoopsInRange
<1>3. LoopStep(LastEntry, "hop2")
    <2>1. 1 \in Nat \ {0}
        OBVIOUS
    <2> QED
        BY <1>1, <1>2, <2>1, LoopSteps
<1>4. LoopsInRange' /\ phase' \in {"compact", "hop2"} /\ (phase' = "hop2" => step' = FirstStep)
    BY <1>1, <1>2, <1>3, LoopKeepsRange
<1>5. ASSUME NEW o \in Owners
      PROVE  Taken(o)' = Taken(o)
    <2>1. Taken(o) = QueryCount
        BY <1>1 DEF Taken, Before
    <2>2. CASE phase' = "compact"
        BY <2>1, <2>2 DEF Taken, Before
    <2>3. CASE phase' = "hop2"
        <3>1. Taken(o)' = QueryCount + (1 - 1) * GlobalFrontier + (1 - 1)
                          + (IF o < 1 THEN 1 ELSE 0)
            BY <1>4, <2>3 DEF Taken, Before, FirstStep
        <3>2. (1 - 1) * GlobalFrontier = 0 /\ QueryCount \in Nat /\ o \in 1 .. OwnerCount
            BY Constants DEF Owners
        <3> QED
            BY <2>1, <3>1, <3>2
    <2> QED
        BY <1>4, <2>2, <2>3
<1> QED
    BY <1>1, <1>4, <1>5, NothingTaken DEF ScheduleInv

LEMMA RankSchedule ==
    ASSUME ScheduleInv, Rank
    PROVE  ScheduleInv'
<1>1. /\ LoopsInRange /\ NumbersFollowLoops /\ phase = "rank"
      /\ circuit' = circuit /\ UNCHANGED usedVars /\ NextStep(TopK, 1, "done")
    BY DEF ScheduleInv, Rank, settingVars
<1>2. LastEntry = TopK /\ LastOwner = 1 /\ step.entry <= TopK
    BY <1>1, Constants DEF LastEntry, LastOwner, LoopsInRange
<1>3. LoopStep(LastEntry, "done")
    BY <1>1, <1>2, Constants, LoopSteps
<1>4. LoopsInRange' /\ phase' \in {"rank", "done"}
    BY <1>1, <1>2, <1>3, LoopKeepsRange
<1>5. ASSUME NEW o \in Owners
      PROVE  Taken(o)' = Taken(o)
    BY <1>1, <1>4 DEF Taken, Before
<1> QED
    BY <1>1, <1>4, <1>5, NothingTaken DEF ScheduleInv

(* The circuits without stacks only have their loops to keep in range.     *)
LEMMA BatchSchedule ==
    ASSUME ScheduleInv, ScanHop1 \/ CompactBatch \/ ScanHop2
    PROVE  ScheduleInv'
<1>1. /\ LoopsInRange /\ NumbersFollowLoops /\ ~Stacked
      /\ circuit' = circuit /\ UNCHANGED usedVars /\ step' = step
      /\ phase \in {"hop1", "compact", "hop2"} /\ phase' \in {"compact", "hop2", "rank"}
    BY DEF ScheduleInv, ScanHop1, CompactBatch, ScanHop2, settingVars, Stacked
<1>2. /\ step.query \in Queries /\ step.entry = 1 /\ step.owner = 1
      /\ step = [query |-> step.query, entry |-> 1, owner |-> 1]
    BY <1>1 DEF LoopsInRange
<1>3. 1 \in 1 .. LastEntry' /\ 1 \in 1 .. LastOwner'
    BY Constants DEF LastEntry, LastOwner
<1>4. LoopsInRange'
    BY <1>1, <1>2, <1>3 DEF LoopsInRange, Stacked, Before, Phases
<1> QED
    BY <1>1, <1>4, NothingTaken DEF ScheduleInv

LEMMA LanesSchedule ==
    ASSUME ScheduleInv, RankLanes
    PROVE  ScheduleInv'
<1>1. /\ LoopsInRange /\ NumbersFollowLoops /\ ~Stacked /\ phase = "rank"
      /\ circuit' = circuit /\ UNCHANGED usedVars
    BY DEF ScheduleInv, RankLanes, settingVars, Stacked
<1>2. LastEntry = TopK /\ LastOwner = 1
    BY <1>1 DEF LastEntry, LastOwner
<1>3. LoopStep(LastEntry, "done")
    BY <1>1, <1>2 DEF RankLanes, LoopStep
<1>4. LoopsInRange'
    BY <1>1, <1>2, <1>3, LoopKeepsRange
<1> QED
    BY <1>1, <1>4, NothingTaken DEF ScheduleInv

LEMMA BaselineSchedule ==
    ASSUME ScheduleInv, ReadQuery \/ RankQuery
    PROVE  ScheduleInv'
<1>1. /\ LoopsInRange /\ NumbersFollowLoops /\ ~Stacked
      /\ circuit' = circuit /\ UNCHANGED usedVars
    BY DEF ScheduleInv, ReadQuery, RankQuery, settingVars, Stacked
<1>2. CASE ReadQuery
    <2>1. phase = "hop1" /\ phase' = "rank" /\ step' = step
        BY <1>2 DEF ReadQuery
    <2>2. step = [query |-> step.query, entry |-> 1, owner |-> 1] /\ step.query \in Queries
        BY <1>1, <2>1 DEF LoopsInRange
    <2>3. 1 \in 1 .. LastEntry' /\ 1 \in 1 .. LastOwner'
        BY Constants DEF LastEntry, LastOwner
    <2>4. LoopsInRange'
        BY <1>1, <2>1, <2>2, <2>3 DEF LoopsInRange, Stacked, Before, Phases
    <2> QED
        BY <1>1, <2>4, NothingTaken DEF ScheduleInv
<1>3. CASE RankQuery
    <2>1. phase = "rank" /\ LastEntry = TopK /\ LastOwner = 1
        BY <1>3 DEF RankQuery, LastEntry, LastOwner
    <2>2. \/ LoopStep(LastEntry, "done")
          \/ /\ step.query < QueryCount /\ phase' = "hop1"
             /\ step' = [FirstStep EXCEPT !.query = step.query + 1]
        BY <1>3, <2>1 DEF RankQuery, LoopStep
    <2>3. CASE LoopStep(LastEntry, "done")
        <3>1. LoopsInRange'
            BY <1>1, <2>1, <2>3, LoopKeepsRange
        <3> QED
            BY <1>1, <3>1, NothingTaken DEF ScheduleInv
    <2>4. CASE /\ step.query < QueryCount /\ phase' = "hop1"
               /\ step' = [FirstStep EXCEPT !.query = step.query + 1]
        <3>1. step.query + 1 \in Queries
            BY <1>1, <2>4, Constants DEF LoopsInRange, Queries
        <3>2. step' = [query |-> step.query + 1, entry |-> 1, owner |-> 1]
            BY <2>4 DEF FirstStep
        <3>3. 1 \in 1 .. LastEntry' /\ 1 \in 1 .. LastOwner'
            BY Constants DEF LastEntry, LastOwner
        <3>4. /\ step' \in [query : Queries, entry : 1 .. LastEntry', owner : 1 .. LastOwner']
              /\ step'.owner = 1 /\ step'.entry = 1
            BY <3>1, <3>2, <3>3
        <3>5. circuit' \in Circuits /\ phase' \in Phases /\ phase' \notin Before
            BY <1>1, <2>4 DEF LoopsInRange, Phases, Before
        <3>6. LoopsInRange'
            BY <3>4, <3>5 DEF LoopsInRange
        <3> QED
            BY <1>1, <3>6, NothingTaken DEF ScheduleInv
    <2> QED
        BY <2>2, <2>3, <2>4
<1> QED
    BY <1>2, <1>3

LEMMA ScheduleNext == ScheduleInv /\ [Next]_vars => ScheduleInv'
<1> SUFFICES ASSUME ScheduleInv, [Next]_vars PROVE ScheduleInv'
    OBVIOUS
<1>1. CASE UNCHANGED vars
    <2>1. /\ circuit' = circuit /\ phase' = phase /\ step' = step
          /\ directoryUsed' = directoryUsed /\ pageUsed' = pageUsed
        BY <1>1 DEF vars, settingVars, usedVars
    <2>2. LoopsInRange'
        BY <2>1 DEF ScheduleInv, LoopsInRange, LastEntry, LastOwner, Stacked
    <2>3. NumbersFollowLoops'
        BY <2>1 DEF ScheduleInv, NumbersFollowLoops, Taken, PagesTaken, Stacked
    <2> QED
        BY <2>2, <2>3 DEF ScheduleInv
<1>2. CASE BuildPages \/ PackOwner \/ BoundFrontier
    BY <1>2, PreparationSchedule
<1>3. CASE ReadHop1
    BY <1>3, ReadHop1Schedule
<1>4. CASE Compact
    BY <1>4, CompactSchedule
<1>5. CASE ReadHop2
    BY <1>5, ReadHop2Schedule
<1>6. CASE Rank
    BY <1>6, RankSchedule
<1>7. CASE ScanHop1 \/ CompactBatch \/ ScanHop2
    BY <1>7, BatchSchedule
<1>8. CASE RankLanes
    BY <1>8, LanesSchedule
<1>9. CASE ReadQuery \/ RankQuery
    BY <1>9, BaselineSchedule
<1>10. CASE Finished
    BY <1>1, <1>10 DEF Finished
<1> QED
    BY <1>1, <1>2, <1>3, <1>4, <1>5, <1>6, <1>7, <1>8, <1>9, <1>10 DEF Next

LEMMA ScheduleFromInv == ScheduleInv => AccessesScheduled
<1> SUFFICES ASSUME ScheduleInv, Stacked, NEW o \in Owners
             PROVE  /\ NeverRepeats(directoryUsed[o], DirectoryAccesses)
                    /\ NeverRepeats(pageUsed[o], PageAccesses)
                    /\ phase = "done" =>
                          /\ Len(directoryUsed[o]) = DirectoryAccesses
                          /\ Len(pageUsed[o]) = IF circuit.reads = "records" THEN 0
                                                ELSE PageAccesses
    BY DEF AccessesScheduled
<1>1. /\ directoryUsed[o] = Counting(Taken(o)) /\ pageUsed[o] = Counting(PagesTaken(o))
      /\ Taken(o) \in Nat /\ Taken(o) <= DirectoryAccesses
    BY TakenInBudget, Constants DEF ScheduleInv, NumbersFollowLoops
<1>2. /\ Taken(o) * PagesPerKey \in Nat
      /\ PageAccesses = DirectoryAccesses * PagesPerKey /\ PageAccesses \in Nat
      /\ Taken(o) * PagesPerKey <= PageAccesses
    <2> DEFINE t == Taken(o)
    <2> HIDE DEF t
    <2>1. t \in Nat /\ t <= DirectoryAccesses
        BY <1>1 DEF t
    <2>2. /\ t * PagesPerKey \in Nat /\ DirectoryAccesses * PagesPerKey \in Nat
          /\ t * PagesPerKey <= DirectoryAccesses * PagesPerKey
        BY <2>1, Constants, Products
    <2> QED
        BY <2>2, Constants DEF t
<1>3. PagesTaken(o) \in Nat /\ PagesTaken(o) <= PageAccesses
    BY <1>2 DEF PagesTaken
<1>4. /\ NeverRepeats(directoryUsed[o], DirectoryAccesses)
      /\ NeverRepeats(pageUsed[o], PageAccesses)
    BY <1>1, <1>2, <1>3, Constants, CountingNeverRepeats
<1>5. ASSUME phase = "done"
      PROVE  /\ Len(directoryUsed[o]) = DirectoryAccesses
             /\ Len(pageUsed[o]) = IF circuit.reads = "records" THEN 0 ELSE PageAccesses
    <2>1. Taken(o) = DirectoryAccesses
        BY <1>5 DEF Taken, Before
    <2>2. PagesTaken(o) = IF circuit.reads = "records" THEN 0 ELSE PageAccesses
        BY <1>2, <2>1 DEF PagesTaken
    <2>3. Len(directoryUsed[o]) = Taken(o) /\ Len(pageUsed[o]) = PagesTaken(o)
        BY <1>1, <1>3, CountingIs
    <2> QED
        BY <2>1, <2>2, <2>3
<1> QED
    BY <1>4, <1>5

(* For any number of owners, queries, frontier entries and pages of a key, *)
(* the access numbers that the circuits over ORAM stacks use never repeat, *)
(* stay inside the budget the stashes were sized for and spend all of it   *)
(* (relation_paged_oram_program.py and kg_oram_program.py, the counters).  *)
THEOREM AccessesFollowSchedule == Spec => []AccessesScheduled
<1>1. Init => ScheduleInv
    BY ScheduleInit
<1>2. ScheduleInv /\ [Next]_vars => ScheduleInv'
    BY ScheduleNext
<1>3. ScheduleInv => AccessesScheduled
    BY ScheduleFromInv
<1> QED
    BY <1>1, <1>2, <1>3, PTL DEF Spec

-----------------------------------------------------------------------------
\* With deduplication, the candidates of one terminal entity go out together.
GoOutTogether ==
    \A q \in Queries : \A c, d \in Candidates :
        Terminal(q, c) = Terminal(q, d) /\ Terminal(q, c) # 0 =>
            selected[q][c] = selected[q][d]

OutInv ==
    /\ deduplicate \in BOOLEAN
    /\ circuit.reads = "baseline" => ~deduplicate
    /\ selected \in [Queries -> [Candidates -> {0, 1}]]
    /\ circuit.reads # "baseline" /\ phase \notin {"rank", "done"} =>
          \A q \in Queries : \A c \in Candidates : selected[q][c] = 0
    /\ deduplicate => GoOutTogether

(* What one rank takes out of a query was still in the scan, and with      *)
(* deduplication takes all of its terminal entity along.                   *)
LEMMA RankTakesOut ==
    ASSUME OutInv, NEW q \in Queries
    PROVE  /\ RankedSelected(q) \in [Candidates -> {0, 1}]
           /\ deduplicate =>
                \A c, d \in Candidates :
                    Terminal(q, c) = Terminal(q, d) /\ Terminal(q, c) # 0 =>
                        RankedSelected(q)[c] = RankedSelected(q)[d]
<1> DEFINE out == UNION {TakenOut(q, c) : c \in Winner(q)}
<1>1. ASSUME NEW c \in Winner(q)
      PROVE  c \in Candidates /\ selected[q][c] = 0 /\ Terminal(q, c) # 0
    BY DEF Winner, IsBest, Available, Terminal, Joined, IsMatch
<1>2. ASSUME NEW d \in Candidates, d \in out
      PROVE  selected[q][d] = 0
    <2>1. PICK c \in Winner(q) : d \in TakenOut(q, c)
        BY <1>2
    <2>2. CASE deduplicate
        BY <1>1, <2>1, <2>2 DEF OutInv, GoOutTogether, TakenOut
    <2>3. CASE ~deduplicate
        BY <1>1, <2>1, <2>3 DEF TakenOut
    <2> QED
        BY <2>2, <2>3
<1>3. ASSUME deduplicate, NEW c \in Candidates, NEW d \in Candidates,
             Terminal(q, c) = Terminal(q, d)
      PROVE  c \in out <=> d \in out
    BY <1>3 DEF TakenOut
<1>4. RankedSelected(q) = [d \in Candidates |-> selected[q][d] + IF d \in out THEN 1 ELSE 0]
    BY DEF RankedSelected
<1>5. \A d \in Candidates : selected[q][d] \in {0, 1}
    BY DEF OutInv
<1> HIDE DEF out
<1>6. RankedSelected(q) \in [Candidates -> {0, 1}]
    BY <1>2, <1>4, <1>5
<1>7. ASSUME deduplicate, NEW c \in Candidates, NEW d \in Candidates,
             Terminal(q, c) = Terminal(q, d), Terminal(q, c) # 0
      PROVE  RankedSelected(q)[c] = RankedSelected(q)[d]
    <2>1. selected[q][c] = selected[q][d]
        BY <1>7 DEF OutInv, GoOutTogether
    <2>2. c \in out <=> d \in out
        BY <1>3, <1>7
    <2> QED
        BY <1>4, <2>1, <2>2
<1> QED
    BY <1>6, <1>7

LEMMA RankedTogether ==
    ASSUME OutInv, UNCHANGED <<settingVars, readVars>>, phase = "rank",
           selected' \in [Queries -> [Candidates -> {0, 1}]],
           phase' \in {"rank", "done"} \/ circuit.reads = "baseline",
           \A q \in Queries : selected'[q] \in {selected[q], RankedSelected(q)}
    PROVE  OutInv'
<1>1. /\ deduplicate' = deduplicate /\ circuit' = circuit
      /\ frontier' = frontier /\ hop2' = hop2
    BY DEF settingVars, readVars
<1>2. Candidates' = Candidates
    BY <1>1 DEF Candidates, Frontier, FrontierSlots, SecondWidth, OwnerWidth
<1>3. \A q, c : Terminal(q, c)' = Terminal(q, c)
    BY <1>1 DEF Terminal, Joined, IsMatch
<1>4. ASSUME deduplicate
      PROVE  GoOutTogether'
    <2>1. ASSUME NEW q \in Queries, NEW c \in Candidates, NEW d \in Candidates,
                 Terminal(q, c) = Terminal(q, d), Terminal(q, c) # 0
          PROVE  selected'[q][c] = selected'[q][d]
        <3>1. CASE selected'[q] = selected[q]
            BY <1>4, <2>1, <3>1 DEF OutInv, GoOutTogether
        <3>2. CASE selected'[q] = RankedSelected(q)
            BY <1>4, <2>1, <3>2, RankTakesOut
        <3> QED
            BY <3>1, <3>2
    <2> QED
        BY <1>2, <1>3, <2>1 DEF GoOutTogether
<1> QED
    BY <1>1, <1>2, <1>4 DEF OutInv

\* Nothing is taken out before the ranks.
LEMMA NothingTakenOut ==
    ASSUME OutInv, UNCHANGED settingVars, selected' = selected,
           phase \notin {"rank", "done"}
    PROVE  OutInv'
<1>1. deduplicate' = deduplicate /\ circuit' = circuit
    BY DEF settingVars
<1>2. Candidates' = Candidates
    BY <1>1 DEF Candidates, Frontier, FrontierSlots, SecondWidth, OwnerWidth
<1>3. ASSUME deduplicate
      PROVE  GoOutTogether'
    <2>1. \A q \in Queries : \A c \in Candidates : selected'[q][c] = 0
        BY <1>3 DEF OutInv
    <2> QED
        BY <1>2, <2>1 DEF GoOutTogether
<1> QED
    BY <1>1, <1>2, <1>3 DEF OutInv

LEMMA OutInit == Init => OutInv
<1> SUFFICES ASSUME Init PROVE OutInv
    OBVIOUS
<1>1. /\ deduplicate \in BOOLEAN /\ (circuit.reads = "baseline" => ~deduplicate)
      /\ selected = [q \in Queries |-> [c \in Candidates |-> 0]]
    BY QueryAssumption DEF Init
<1> QED
    BY <1>1 DEF OutInv, GoOutTogether

LEMMA OutNext == OutInv /\ [Next]_vars => OutInv'
<1> SUFFICES ASSUME OutInv, [Next]_vars PROVE OutInv'
    OBVIOUS
<1>1. CASE UNCHANGED vars
    <2>1. /\ circuit' = circuit /\ deduplicate' = deduplicate /\ phase' = phase
          /\ selected' = selected /\ frontier' = frontier /\ hop2' = hop2
        BY <1>1 DEF vars, settingVars, rankVars, readVars
    <2>2. Candidates' = Candidates
        BY <2>1 DEF Candidates, Frontier, FrontierSlots, SecondWidth, OwnerWidth
    <2>3. \A q, c : Terminal(q, c)' = Terminal(q, c)
        BY <2>1 DEF Terminal, Joined, IsMatch
    <2>4. GoOutTogether => GoOutTogether'
        BY <2>1, <2>2, <2>3 DEF GoOutTogether
    <2> QED
        BY <2>1, <2>2, <2>4 DEF OutInv
<1>2. CASE BuildPages \/ PackOwner \/ BoundFrontier
    <2>1. /\ UNCHANGED settingVars /\ selected' = selected
          /\ phase \in {"build", "check"}
        BY <1>2 DEF BuildPages, PlaceKey, RefuseLayout, FinishOwner, PackOwner,
                    BoundFrontier, CheckFrontier, rankVars
    <2> QED
        BY <2>1, NothingTakenOut
<1>3. CASE \/ ReadHop1 \/ Compact \/ ReadHop2 \/ ScanHop1 \/ CompactBatch
           \/ ScanHop2 \/ ReadQuery
    <2>1. /\ UNCHANGED settingVars /\ selected' = selected
          /\ phase \in {"hop1", "compact", "hop2"}
        BY <1>3 DEF ReadHop1, Compact, ReadHop2, ScanHop1, CompactBatch, ScanHop2,
                    ReadQuery, rankVars
    <2> QED
        BY <2>1, NothingTakenOut
<1>4. CASE Rank \/ RankQuery
    <2>1. /\ UNCHANGED <<settingVars, readVars>> /\ phase = "rank"
          /\ selected' = [selected EXCEPT ![step.query] = RankedSelected(step.query)]
        BY <1>4 DEF Rank, RankQuery
    <2>2. phase' \in {"rank", "done"} \/ circuit.reads = "baseline"
        BY <1>4, <2>1 DEF Rank, RankQuery, NextStep
    <2>3. /\ selected' \in [Queries -> [Candidates -> {0, 1}]]
          /\ \A q \in Queries : selected'[q] \in {selected[q], RankedSelected(q)}
        <3>1. selected \in [Queries -> [Candidates -> {0, 1}]]
            BY DEF OutInv
        <3>2. \A q \in Queries : selected'[q] = IF q = step.query THEN RankedSelected(q)
                                                ELSE selected[q]
            BY <2>1, <3>1
        <3>3. selected' = [q \in Queries |-> selected'[q]]
            BY <2>1, <3>1
        <3> QED
            BY <3>1, <3>2, <3>3, RankTakesOut
    <2> QED
        BY <2>1, <2>2, <2>3, RankedTogether
<1>5. CASE RankLanes
    <2>1. /\ UNCHANGED <<settingVars, readVars>> /\ phase = "rank"
          /\ selected' = [q \in Queries |-> RankedSelected(q)]
          /\ phase' \in {"rank", "done"}
        BY <1>5 DEF RankLanes
    <2> QED
        BY <2>1, RankTakesOut, RankedTogether
<1>6. CASE Finished
    BY <1>1, <1>6 DEF Finished
<1> QED
    BY <1>1, <1>2, <1>3, <1>4, <1>5, <1>6 DEF Next

(* For any edge files, widths, queries and ranks, with deduplication and   *)
(* without, no circuit adds a second bit to what it has already taken out  *)
(* (relation_paged_oram_program.py, page_program.py, scan_program.py and   *)
(* program.py, the available products of their ranks).                     *)
THEOREM CandidatesGoOutOnce == Spec => []TakenOutOnce
<1>1. Init => OutInv
    BY OutInit
<1>2. OutInv /\ [Next]_vars => OutInv'
    BY OutNext
<1>3. OutInv => TakenOutOnce
    BY DEF OutInv, TakenOutOnce
<1> QED
    BY <1>1, <1>2, <1>3, PTL DEF Spec

(* The elements of a set of numbers in ascending order.                    *)
LEMMA NthElement ==
    ASSUME NEW S \in SUBSET Nat, IsFiniteSet(S)
    PROVE  /\ Cardinality(S) \in Nat
           /\ \A n \in 1 .. Cardinality(S) : Nth(S, n) \in S
           /\ \A m, n \in 1 .. Cardinality(S) : m < n => Nth(S, m) < Nth(S, n)
           /\ \A i \in S : \E n \in 1 .. Cardinality(S) : Nth(S, n) = i
<1> DEFINE R == {p \in S \X S : p[1] < p[2]}
           size == Cardinality(S)
<1>1. size \in Nat
    BY FS_CardinalityType
<1>2. \A i, j \in S : <<i, j>> \in R <=> i < j
    OBVIOUS
<1>3. IsStrictOrder(R, S)
    <2> HIDE DEF R
    <2> QED
        BY <1>2 DEF IsStrictOrder
<1>4. \A i \in S : Cardinality({j \in S : j < i}) = RankOf(R, S, i)
    <2> HIDE DEF R
    <2>1. ASSUME NEW i \in S
          PROVE  {j \in S : j < i} = Below(R, S, i)
        BY <1>2 DEF Below
    <2> QED
        BY <2>1 DEF RankOf
<1> HIDE DEF R
<1>0. IsRanked(R, S)
    BY <1>3, Ranking
<1>5. /\ \A i \in S : RankOf(R, S, i) \in 0 .. size - 1
      /\ \A i, j \in S : <<i, j>> \in R <=> RankOf(R, S, i) < RankOf(R, S, j)
      /\ \A i, j \in S : RankOf(R, S, i) = RankOf(R, S, j) => i = j
      /\ \A n \in 0 .. size - 1 : \E i \in S : RankOf(R, S, i) = n
    BY <1>0, Zenon DEF IsRanked
<1> HIDE DEF size
<1>6. ASSUME NEW n \in 1 .. size
      PROVE  Nth(S, n) \in S /\ RankOf(R, S, Nth(S, n)) = n - 1
    <2>1. n - 1 \in 0 .. size - 1
        BY <1>1
    <2>2. \E i \in S : Cardinality({j \in S : j < i}) = n - 1
        BY <1>4, <1>5, <2>1
    <2>3. Nth(S, n) \in S /\ Cardinality({j \in S : j < Nth(S, n)}) = n - 1
        BY <2>2 DEF Nth
    <2> QED
        BY <1>4, <2>3
<1>7. ASSUME NEW m \in 1 .. size, NEW n \in 1 .. size, m < n
      PROVE  Nth(S, m) < Nth(S, n)
    <2>1. RankOf(R, S, Nth(S, m)) < RankOf(R, S, Nth(S, n))
        BY <1>1, <1>6, <1>7
    <2> QED
        BY <1>2, <1>5, <1>6, <2>1
<1>8. ASSUME NEW i \in S
      PROVE  \E n \in 1 .. size : Nth(S, n) = i
    <2>1. RankOf(R, S, i) + 1 \in 1 .. size /\ (RankOf(R, S, i) + 1) - 1 = RankOf(R, S, i)
        BY <1>1, <1>5
    <2>2. RankOf(R, S, Nth(S, RankOf(R, S, i) + 1)) = RankOf(R, S, i) /\ Nth(S, RankOf(R, S, i) + 1) \in S
        BY <1>6, <2>1
    <2> QED
        BY <1>5, <2>1, <2>2
<1> QED
    BY <1>1, <1>6, <1>7, <1>8 DEF size

-----------------------------------------------------------------------------
(* The federation's edges of a key.                                        *)

\* The edges of key k in the files of the owners up to o.
KeyFacts(o, k) == UNION {{p} \X Rows(p, k) : p \in 1 .. o}

\* No key has more edges than the federation's frontier holds.
FrontierHolds ==
    \A k \in AllKeys : Cardinality(KeyFacts(OwnerCount, k)) <= GlobalFrontier

LEMMA KeyFactsGrow ==
    ASSUME edges \in [Owners -> EdgeFiles], NEW o \in Owners, NEW k,
           IsFiniteSet(KeyFacts(o - 1, k))
    PROVE  /\ IsFiniteSet(KeyFacts(o, k))
           /\ Cardinality(KeyFacts(o, k)) = Cardinality(KeyFacts(o - 1, k)) + Degree(o, k)
<1> DEFINE before == KeyFacts(o - 1, k)
           own == {o} \X Rows(o, k)
<1>1. o \in Nat /\ 1 .. o = (1 .. o - 1) \cup {o} /\ o \notin 1 .. o - 1
    BY DEF Owners
<1>2. KeyFacts(o, k) = before \cup own
    BY <1>1 DEF KeyFacts
<1>3. before \cap own = {}
    BY <1>1 DEF KeyFacts
<1>4. IsFiniteSet(Rows(o, k)) /\ Cardinality(Rows(o, k)) = Degree(o, k) /\ Degree(o, k) \in Nat
    BY RowsOrdered, RowsFinite DEF Degree
<1>5. IsFiniteSet({o}) /\ Cardinality({o}) = 1
    BY FS_Singleton
<1>6. IsFiniteSet(own) /\ Cardinality(own) = 1 * Degree(o, k)
    BY <1>4, <1>5, FS_Product
<1>7. Cardinality(before) \in Nat
    BY FS_CardinalityType
<1> HIDE DEF before, own
<1>8. IsFiniteSet(before)
    BY DEF before
<1>9. /\ IsFiniteSet(before \cup own)
      /\ Cardinality(before \cup own) = Cardinality(before) + Cardinality(own) - Cardinality(before \cap own)
    BY <1>6, <1>8, FS_Union
<1>10. Cardinality(before \cap own) = 0
    BY <1>3, FS_EmptySet
<1>11. Cardinality(before \cup own) = Cardinality(before) + Degree(o, k)
    BY <1>4, <1>6, <1>7, <1>9, <1>10
<1> QED
    BY <1>2, <1>9, <1>11 DEF before

(* They are finitely many.                                                 *)
LEMMA KeyFactsFinite ==
    ASSUME edges \in [Owners -> EdgeFiles], NEW k
    PROVE  \A o \in 0 .. OwnerCount : IsFiniteSet(KeyFacts(o, k))
<1> DEFINE T == {n \in Nat : n <= OwnerCount => IsFiniteSet(KeyFacts(n, k))}
<1>1. OwnerCount \in Nat
    BY Constants
<1>2. KeyFacts(0, k) = {}
    BY DEF KeyFacts
<1>3. 0 \in T
    BY <1>2, FS_EmptySet
<1>4. ASSUME NEW n \in T
      PROVE  n + 1 \in T
    <2> SUFFICES ASSUME n + 1 <= OwnerCount
                 PROVE  IsFiniteSet(KeyFacts(n + 1, k))
        OBVIOUS
    <2>1. n + 1 \in Owners /\ (n + 1) - 1 = n /\ n <= OwnerCount
        BY <1>1 DEF Owners
    <2>2. IsFiniteSet(KeyFacts((n + 1) - 1, k))
        BY <2>1
    <2> HIDE DEF T
    <2> QED
        BY <2>1, <2>2, KeyFactsGrow
<1>5. T \in SUBSET Nat
    OBVIOUS
<1> HIDE DEF T
<1>6. T = Nat
    BY <1>3, <1>4, <1>5, NatSetInduction
<1> QED
    BY <1>1, <1>6 DEF T

(* The degrees that the check at preparation adds up count them.           *)
LEMMA DegreesCount ==
    ASSUME edges \in [Owners -> EdgeFiles], NEW k
    PROVE  FederationDegree(k) = Cardinality(KeyFacts(OwnerCount, k))
<1> DEFINE D == 0 .. OwnerCount
           g == [o \in D |-> Cardinality(KeyFacts(o, k))]
           upTo == CHOOSE f : f = [o \in D |-> IF o = 0 THEN 0 ELSE f[o - 1] + Degree(o, k)]
<1>1. OwnerCount \in Nat
    BY Constants
<1>2. /\ Cardinality(KeyFacts(0, k)) = 0
      /\ \A o \in Owners : /\ Cardinality(KeyFacts(o, k)) =
                              Cardinality(KeyFacts(o - 1, k)) + Degree(o, k)
                           /\ o \in D /\ o - 1 \in D
    <2>1. KeyFacts(0, k) = {}
        BY DEF KeyFacts
    <2>2. \A o \in Owners : o \in D /\ o - 1 \in D
        BY <1>1 DEF Owners
    <2> HIDE DEF D
    <2>3. \A o \in D : IsFiniteSet(KeyFacts(o, k))
        BY KeyFactsFinite DEF D
    <2> QED
        BY <2>1, <2>2, <2>3, FS_EmptySet, KeyFactsGrow
<1>3. g = [o \in D |-> IF o = 0 THEN 0 ELSE g[o - 1] + Degree(o, k)]
    <2>1. ASSUME NEW o \in D
          PROVE  Cardinality(KeyFacts(o, k)) = IF o = 0 THEN 0 ELSE g[o - 1] + Degree(o, k)
        <3>1. CASE o = 0
            BY <1>2, <3>1
        <3>2. CASE o # 0
            <4>1. o \in Owners
                BY <1>1, <3>2 DEF Owners
            <4>2. g[o - 1] = Cardinality(KeyFacts(o - 1, k))
                BY <1>2, <4>1
            <4> QED
                BY <1>2, <3>2, <4>1, <4>2
        <3> QED
            BY <3>1, <3>2
    <2> QED
        BY <2>1
<1>4. upTo = [o \in D |-> IF o = 0 THEN 0 ELSE upTo[o - 1] + Degree(o, k)]
    <2> HIDE DEF g
    <2>1. \E f : f = [o \in D |-> IF o = 0 THEN 0 ELSE f[o - 1] + Degree(o, k)]
        BY <1>3
    <2> QED
        BY <2>1
<1>5. FederationDegree(k) = upTo[OwnerCount]
    BY DEF FederationDegree
<1> HIDE DEF upTo, g
<1>6. \A o \in D : upTo[o] = Cardinality(KeyFacts(o, k))
    <2> DEFINE T == {n \in Nat : n <= OwnerCount => upTo[n] = Cardinality(KeyFacts(n, k))}
    <2>1. \A o \in D : upTo[o] = IF o = 0 THEN 0 ELSE upTo[o - 1] + Degree(o, k)
        BY <1>4
    <2>2. 0 \in T
        BY <1>1, <1>2, <2>1
    <2>3. ASSUME NEW n \in T
          PROVE  n + 1 \in T
        <3> SUFFICES ASSUME n + 1 <= OwnerCount
                     PROVE  upTo[n + 1] = Cardinality(KeyFacts(n + 1, k))
            OBVIOUS
        <3>1. n + 1 \in Owners /\ (n + 1) - 1 = n /\ n <= OwnerCount /\ n + 1 # 0 /\ n + 1 \in D
            BY <1>1 DEF Owners
        <3>2. upTo[n + 1] = upTo[n] + Degree(n + 1, k)
            BY <2>1, <3>1
        <3>3. Cardinality(KeyFacts(n + 1, k)) = Cardinality(KeyFacts(n, k)) + Degree(n + 1, k)
            BY <1>2, <3>1
        <3> QED
            BY <3>1, <3>2, <3>3
    <2>4. T \in SUBSET Nat
        OBVIOUS
    <2> HIDE DEF T
    <2>5. T = Nat
        BY <2>2, <2>3, <2>4, NatSetInduction
    <2> QED
        BY <1>1, <2>5 DEF T
<1>7. OwnerCount \in D
    BY <1>1
<1> QED
    BY <1>5, <1>6, <1>7

-----------------------------------------------------------------------------
\* The circuit runs: every file was admitted and laid out.
Ready == phase \notin Before
Paged == circuit.reads \in {"stacks", "pages"}

\* What an owner packs is its file, valid and within its bounds.
PackedFile(o) ==
    /\ \A n \in DOMAIN edges[o] : ValidEdge(edges[o][n])
    /\ IF ReadsBlocks(circuit) THEN FitsBlocks(o) ELSE FitsRecords(o)
    /\ blocks[o] = PackedOwner(o)

\* The federation's bound was checked by whoever checks one.
BoundChecked ==
    circuit.frontier = "global" /\ (circuit.reads = "records" => RecordsChecked)

FilesPacked ==
    /\ edges \in [Owners -> EdgeFiles]
    /\ owner \in Owners
    /\ blocks = [o \in Owners |-> blocks[o]]
    /\ \A o \in Owners :
          /\ blocks[o] # <<>> => ~Paged /\ PackedFile(o)
          /\ ~Paged /\ (o < owner \/ phase \notin {"build", "refused"}) => blocks[o] # <<>>

PrepInv ==
    /\ circuit \in Circuits
    /\ phase \in Phases
    /\ FilesPacked
    /\ Paged => LayoutInv /\ AdmittedInv
    /\ Ready /\ BoundChecked => FrontierHolds

LEMMA PackedKeep ==
    ASSUME edges' = edges, circuit' = circuit
    PROVE  /\ \A o : PackedOwner(o)' = PackedOwner(o)
           /\ \A o : FitsBlocks(o)' <=> FitsBlocks(o)
           /\ \A o : FitsRecords(o)' <=> FitsRecords(o)
           /\ \A o : blocks'[o] = blocks[o] => (PackedFile(o)' <=> PackedFile(o))
<1>1. /\ \A o, k : Degree(o, k)' = Degree(o, k) /\ Orders(o, k)' = Orders(o, k)
      /\ \A o : Keys(o)' = Keys(o)
    BY FilesKeep
<1>2. \A o, e : RowsOf(o, e)' = RowsOf(o, e)
    BY DEF RowsOf
<1>3. \A o, e : BlockOf(o, e)' = BlockOf(o, e)
    BY <1>2 DEF BlockOf
<1>4. \A o, k : RecordOf(o, k)' = RecordOf(o, k)
    <2>1. \A o, order : PaddedGroup(o, order)' = PaddedGroup(o, order)
        BY DEF PaddedGroup
    <2>2. \A S, T : S = T => (CHOOSE order \in S : TRUE) = (CHOOSE order \in T : TRUE)
        OBVIOUS
    <2> QED
        BY <1>1, <2>1, <2>2 DEF RecordOf
<1>5. \A o : PackedOwner(o)' = PackedOwner(o)
    BY <1>3, <1>4 DEF PackedOwner
<1>6. \A o : FitsBlocks(o)' <=> FitsBlocks(o)
    BY <1>1, <1>2 DEF FitsBlocks
<1>7. \A o : FitsRecords(o)' <=> FitsRecords(o)
    BY <1>1 DEF FitsRecords
<1>9. \A o : blocks'[o] = blocks[o] => (PackedFile(o)' <=> PackedFile(o))
    BY <1>5, <1>6, <1>7 DEF PackedFile, ValidEdge
<1> QED
    BY <1>5, <1>6, <1>7, <1>9

LEMMA WidthsNatural ==
    ASSUME circuit \in Circuits
    PROVE  /\ EntityCount \in Nat \ {0} /\ DirectoryRows \in Nat \ {0}
           /\ FanoutPerOwner \in Nat \ {0} /\ SlotsPerKey \in Nat \ {0}
           /\ OwnerWidth \in Nat \ {0} /\ SecondWidth \in Nat \ {0}
           /\ ShareOf(circuit) \in Nat \ {0} /\ FrontierSlots \in Nat \ {0}
           /\ SecondWidth = OwnerCount * OwnerWidth
<1>1. /\ {PageSize, PagesPerKey, EntityCount, RelationCount, OwnerCount,
          FrontierPerOwner, GlobalFrontier} \subseteq Nat \ {0}
      /\ FanoutPerOwner \in Nat \ {0} /\ RelationFanout \in Nat \ {0}
    BY PageAssumption, CircuitAssumption
<1>2. \A m, n \in Nat \ {0} : m * n \in Nat \ {0}
    OBVIOUS
<1>3. SlotsPerKey \in Nat \ {0} /\ DirectoryRows \in Nat \ {0}
    BY <1>1, <1>2 DEF SlotsPerKey, DirectoryRows
<1>4. OwnerWidth \in Nat \ {0} /\ OwnerWidth = WidthOf(circuit)
    BY <1>1, <1>3 DEF OwnerWidth, WidthOf
<1>5. ShareOf(circuit) \in Nat \ {0}
    BY <1>1, <1>4 DEF ShareOf
<1>6. OwnerCount * ShareOf(circuit) \in Nat \ {0} /\ OwnerCount * OwnerWidth \in Nat \ {0}
    BY <1>1, <1>2, <1>4, <1>5
<1>7. FrontierSlots \in Nat \ {0}
    BY <1>1, <1>6 DEF FrontierSlots, FrontierOf
<1> QED
    BY <1>1, <1>3, <1>4, <1>5, <1>6, <1>7 DEF SecondWidth

(* A packed file is never empty.                                           *)
LEMMA PackedNotEmpty ==
    ASSUME circuit \in Circuits, NEW o
    PROVE  PackedOwner(o) # <<>>
<1>1. 1 \in DOMAIN PackedOwner(o)
    BY WidthsNatural DEF PackedOwner
<1>2. 1 \notin DOMAIN <<>>
    OBVIOUS
<1> QED
    BY <1>1, <1>2

LEMMA FrontierHoldsKeeps ==
    ASSUME edges' = edges
    PROVE  FrontierHolds' <=> FrontierHolds
<1>1. \A o, k : Rows(o, k)' = Rows(o, k)
    BY DEF Rows
<1>2. \A o, k : KeyFacts(o, k)' = KeyFacts(o, k)
    BY <1>1 DEF KeyFacts
<1> QED
    BY <1>2 DEF FrontierHolds

LEMMA PrepInit == Init => PrepInv
<1> SUFFICES ASSUME Init PROVE PrepInv
    OBVIOUS
<1>1. /\ LayoutInit /\ circuit \in Circuits /\ blocks = [o \in Owners |-> <<>>]
      /\ edges \in [Owners -> EdgeFiles] /\ owner = 1 /\ phase = "build"
    BY DEF Init, LayoutInit
<1>2. FilesPacked
    BY <1>1, Constants DEF FilesPacked, Owners
<1> QED
    BY <1>1, <1>2, LayoutInitInv, AdmittedInit DEF PrepInv, Phases, Ready, Before

(* The layout of an owner grows, is finished or refused.                   *)
LEMMA PrepBuildPages ==
    ASSUME PrepInv, BuildPages
    PROVE  PrepInv'
<1>1. /\ Paged /\ circuit' = circuit /\ blocks' = blocks /\ LayoutInv /\ AdmittedInv
      /\ circuit \in Circuits /\ FilesPacked
    BY DEF BuildPages, settingVars, PrepInv, Paged
<1>2. /\ LayoutInv' /\ AdmittedInv' /\ edges' = edges
      /\ phase' \in {"build", "check", "refused"}
    <2>1. ASSUME NEW k \in Keys(owner), PlaceKey(k)
          PROVE  /\ LayoutInv' /\ AdmittedInv' /\ edges' = edges /\ phase' = "build"
        BY <1>1, <2>1, PlaceKeyKeeps, AdmittedPlaceKey DEF PlaceKey
    <2>2. CASE RefuseLayout
        <3>1. UNCHANGED layoutVars /\ phase' = "refused" /\ "refused" \in Phases
            BY <2>2 DEF RefuseLayout, Phases
        <3> QED
            BY <1>1, <3>1, PhaseMoves, AdmittedMoves DEF layoutVars
    <2>3. CASE FinishOwner
        BY <1>1, <2>3, FinishOwnerKeeps, AdmittedFinishOwner DEF FinishOwner, LayoutInv
    <2> QED
        BY <2>1, <2>2, <2>3 DEF BuildPages
<1>3. \A o \in Owners : blocks[o] = <<>>
    BY <1>1 DEF FilesPacked
<1>4. FilesPacked'
    BY <1>1, <1>2, <1>3 DEF FilesPacked, LayoutInv, LayoutShape, Paged
<1> QED
    BY <1>1, <1>2, <1>4 DEF PrepInv, Ready, Before, Phases, Paged

(* An owner packs its file or refuses it.                                  *)
LEMMA PrepPackOwner ==
    ASSUME PrepInv, PackOwner
    PROVE  PrepInv'
<1>1. /\ ~Paged /\ circuit' = circuit /\ edges' = edges /\ phase = "build"
      /\ circuit \in Circuits /\ FilesPacked /\ owner \in Owners
    BY DEF PackOwner, settingVars, PrepInv, Paged, FilesPacked
<1>2. ASSUME NEW o \in Owners
      PROVE  blocks'[o] = blocks[o] => (PackedFile(o)' <=> PackedFile(o))
    BY <1>1, PackedKeep
<1>3. CASE phase' = "refused" /\ UNCHANGED <<owner, blocks>>
    <2>1. \A o \in Owners : blocks'[o] # <<>> => PackedFile(o)'
        BY <1>1, <1>2, <1>3 DEF FilesPacked
    <2>2. FilesPacked'
        BY <1>1, <1>3, <2>1 DEF FilesPacked, Paged
    <2> QED
        BY <1>1, <1>3, <2>2 DEF PrepInv, Ready, Before, Phases, Paged
<1>4. CASE ~(phase' = "refused" /\ UNCHANGED <<owner, blocks>>)
    <2>1. /\ \A n \in DOMAIN edges[owner] : ValidEdge(edges[owner][n])
          /\ IF ReadsBlocks(circuit) THEN FitsBlocks(owner) ELSE FitsRecords(owner)
          /\ blocks' = [blocks EXCEPT ![owner] = PackedOwner(owner)]
          /\ \/ owner < OwnerCount /\ owner' = owner + 1 /\ phase' = phase
             \/ /\ ~(owner < OwnerCount) /\ owner' = owner
                /\ phase' = IF circuit.reads = "records" /\ RecordsChecked
                            THEN "check" ELSE "hop1"
        BY <1>4 DEF PackOwner
    <2>2. blocks' = [o \in Owners |-> IF o = owner THEN PackedOwner(owner) ELSE blocks[o]]
        BY <1>1, <2>1 DEF FilesPacked
    <2>3. owner' \in Owners /\ OwnerCount \in Nat /\ owner \in Nat
        BY <1>1, <2>1, Constants DEF Owners
    <2>4. \A o \in Owners : blocks'[o] # <<>> => PackedFile(o)'
        <3>1. ASSUME NEW o \in Owners, o # owner, blocks'[o] # <<>>
              PROVE  PackedFile(o)'
            BY <1>1, <1>2, <2>2, <3>1 DEF FilesPacked
        <3>2. ASSUME NEW o \in Owners, o = owner
              PROVE  PackedFile(o)'
            <4>1. blocks'[o] = PackedOwner(o)
                BY <1>1, <2>2, <3>2
            <4>2. /\ PackedOwner(o)' = PackedOwner(o)
                  /\ FitsBlocks(o)' <=> FitsBlocks(o)
                  /\ FitsRecords(o)' <=> FitsRecords(o)
                BY <1>1, PackedKeep
            <4> QED
                BY <1>1, <2>1, <3>2, <4>1, <4>2 DEF PackedFile, ValidEdge
        <3> QED
            BY <3>1, <3>2
    <2>5. ASSUME NEW o \in Owners, o < owner' \/ phase' \notin {"build", "refused"}
          PROVE  blocks'[o] # <<>>
        <3>1. CASE o = owner
            BY <1>1, <2>2, <3>1, PackedNotEmpty
        <3>2. CASE o # owner
            <4>1. o < owner
                BY <1>1, <2>1, <2>3, <2>5, <3>2 DEF Owners
            <4> QED
                BY <1>1, <2>2, <3>2, <4>1 DEF FilesPacked
        <3> QED
            BY <3>1, <3>2
    <2>6. FilesPacked'
        BY <1>1, <2>2, <2>3, <2>4, <2>5 DEF FilesPacked, Paged
    <2>7. ~(Ready' /\ BoundChecked')
        <3>1. circuit.reads \in {"scan", "baseline", "records"}
            BY DEF PackOwner
        <3>2. /\ circuit.reads = "scan" => circuit.frontier # "global"
              /\ circuit.reads = "baseline" => circuit.frontier = "full"
            BY <1>1, CircuitAssumption
        <3> QED
            BY <1>1, <2>1, <3>1, <3>2 DEF Ready, Before, BoundChecked
    <2> QED
        BY <1>1, <2>1, <2>6, <2>7 DEF PrepInv, Phases, Paged
<1> QED
    BY <1>3, <1>4

(* The files stay as they are while the phase moves on.                    *)
LEMMA PrepStays ==
    ASSUME PrepInv, UNCHANGED <<layoutVars, settingVars, blocks>>,
           \/ phase' \in {phase, "refused"}
           \/ {phase, phase'} \cap {"build", "refused"} = {},
           phase' \in Phases,
           Ready' /\ BoundChecked => Ready \/ FrontierHolds
    PROVE  PrepInv'
<1>1. /\ edges' = edges /\ owner' = owner /\ blocks' = blocks /\ circuit' = circuit
      /\ circuit \in Circuits /\ FilesPacked /\ UNCHANGED layoutVars
    BY DEF layoutVars, settingVars, PrepInv
<1>2. \A o : PackedFile(o)' <=> PackedFile(o)
    BY <1>1, PackedKeep
<1>3. FilesPacked'
    <2>1. phase' \notin {"build", "refused"} => phase \notin {"build", "refused"}
        OBVIOUS
    <2>2. Paged' <=> Paged
        BY <1>1 DEF Paged
    <2>3. \A o \in Owners : blocks'[o] # <<>> => ~Paged /\ PackedFile(o)'
        BY <1>1, <1>2 DEF FilesPacked
    <2>4. \A o \in Owners :
            ~Paged /\ (o < owner \/ phase' \notin {"build", "refused"}) => blocks'[o] # <<>>
        BY <1>1, <2>1 DEF FilesPacked
    <2> HIDE DEF Paged
    <2> QED
        BY <1>1, <2>2, <2>3, <2>4 DEF FilesPacked
<1>4. Paged => LayoutInv' /\ AdmittedInv'
    BY <1>1, PhaseMoves, AdmittedMoves DEF PrepInv
<1>5. FrontierHolds' <=> FrontierHolds
    BY <1>1, FrontierHoldsKeeps
<1> QED
    BY <1>1, <1>3, <1>4, <1>5 DEF PrepInv, Paged, BoundChecked

LEMMA PrepBoundFrontier ==
    ASSUME PrepInv, BoundFrontier
    PROVE  PrepInv'
<1>1. /\ phase = "check" /\ phase' \in {"hop1", "refused"}
      /\ UNCHANGED <<layoutVars, settingVars, blocks>>
      /\ circuit.frontier = "global" /\ phase' = "hop1" => WithinGlobalFrontier
    BY DEF BoundFrontier, CheckFrontier
<1>2. WithinGlobalFrontier => FrontierHolds
    BY DegreesCount DEF PrepInv, FilesPacked, WithinGlobalFrontier, FrontierHolds, AllKeys
<1>3. phase' \in Phases
    BY <1>1 DEF Phases
<1> QED
    BY <1>1, <1>2, <1>3, PrepStays DEF BoundChecked, Ready, Before

\* The steps of the circuits.
CircuitStep ==
    \/ ReadHop1 \/ Compact \/ ReadHop2 \/ Rank
    \/ ScanHop1 \/ CompactBatch \/ ScanHop2 \/ RankLanes
    \/ ReadQuery \/ RankQuery

LEMMA CircuitStepKeeps ==
    ASSUME CircuitStep, phase \in Phases
    PROVE  /\ UNCHANGED <<layoutVars, settingVars, blocks>>
           /\ Ready /\ Ready' /\ phase' \in Phases
           /\ {phase, phase'} \cap {"build", "refused"} = {}
<1>1. /\ UNCHANGED <<layoutVars, settingVars, blocks>>
      /\ phase \in {"hop1", "compact", "hop2", "rank"}
      /\ phase' \in {"hop1", "compact", "hop2", "rank", "done"}
    <2>1. CASE ReadHop1 \/ Compact \/ ReadHop2 \/ Rank
        BY <2>1 DEF ReadHop1, Compact, ReadHop2, Rank, NextStep
    <2>2. CASE ScanHop1 \/ CompactBatch \/ ScanHop2 \/ RankLanes
        BY <2>2 DEF ScanHop1, CompactBatch, ScanHop2, RankLanes
    <2>3. CASE ReadQuery \/ RankQuery
        BY <2>3 DEF ReadQuery, RankQuery
    <2> QED
        BY <2>1, <2>2, <2>3 DEF CircuitStep
<1> QED
    BY <1>1 DEF Ready, Before, Phases

LEMMA PrepNext == PrepInv /\ [Next]_vars => PrepInv'
<1> SUFFICES ASSUME PrepInv, [Next]_vars PROVE PrepInv'
    OBVIOUS
<1>1. phase \in Phases
    BY DEF PrepInv
<1>2. CASE UNCHANGED vars
    <2>1. UNCHANGED <<layoutVars, settingVars, blocks>> /\ phase' = phase
        BY <1>2 DEF vars
    <2> QED
        BY <1>1, <2>1, PrepStays DEF Ready
<1>3. CASE BuildPages
    BY <1>3, PrepBuildPages
<1>4. CASE PackOwner
    BY <1>4, PrepPackOwner
<1>5. CASE BoundFrontier
    BY <1>5, PrepBoundFrontier
<1>6. CASE CircuitStep
    BY <1>1, <1>6, CircuitStepKeeps, PrepStays
<1>7. CASE Finished
    BY <1>2, <1>7 DEF Finished
<1> QED
    BY <1>2, <1>3, <1>4, <1>5, <1>6, <1>7 DEF Next, CircuitStep

-----------------------------------------------------------------------------
(* What an owner answers.                                                  *)

\* The rows of an owner's file with this source and this relation.
KeyRows(o, entity, relation) ==
    {n \in DOMAIN edges[o] : edges[o][n].source = entity /\ edges[o][n].relation = relation}

\* The order in which a circuit reads the rows of one owner.
RowBefore(o, m, n) ==
    IF ReadsBlocks(circuit) THEN m < n ELSE LexBefore(SortKey(o, m), SortKey(o, n))

\* A row of slots that are empty or hold an edge.
CleanRows(W) ==
    {row \in [1 .. W -> Slots] : \A s \in 1 .. W : row[s] = NoEdge \/ IsMatch(row[s])}

\* Slot s of the row holds row at[s] of the owner's file, for every row of S once.
OwnerListing(o, at, row, S) ==
    /\ at \in [Matches(row) -> S]
    /\ \A s \in Matches(row) : row[s] = Packed(edges[o][at[s]])
    /\ \A s, t \in Matches(row) : s < t => RowBefore(o, at[s], at[t])
    /\ \A n \in S : \E s \in Matches(row) : at[s] = n

OwnerLists(o, row, S) == \E at : OwnerListing(o, at, row, S)

LEMMA NoEdgeIsSlot == NoEdge \in Slots /\ ~IsMatch(NoEdge) /\ Match(NoEdge) = NoEdge
    BY PageAssumption DEF NoEdge, Slots, IsMatch, Match

(* A valid edge fills a slot.                                              *)
LEMMA EdgeFillsSlot ==
    ASSUME edges \in [Owners -> EdgeFiles], NEW o \in Owners, NEW n \in DOMAIN edges[o],
           ValidEdge(edges[o][n])
    PROVE  /\ Packed(edges[o][n]) \in Slots /\ IsMatch(Packed(edges[o][n]))
           /\ Packed(edges[o][n]).relation = edges[o][n].relation
<1> DEFINE Row == [source : Int, relation : Int, target : Int, handle : Int, score : Int]
           e == edges[o][n]
<1>1. e \in Row
    <2>1. edges[o] \in Seq(Row)
        BY FileAssumption
    <2>2. ASSUME NEW S, NEW list \in Seq(S), NEW i \in DOMAIN list
          PROVE  list[i] \in S
        BY <2>2
    <2> QED
        BY <2>1, <2>2
<1> HIDE DEF e
<1>2. /\ e.target \in 1 .. EntityCount - 1 /\ e.relation \in 1 .. RelationCount
      /\ e.handle \in Nat /\ e.score \in Nat
    BY <1>1 DEF ValidEdge, e
<1>3. Packed(e) \in Slots /\ IsMatch(Packed(e)) /\ Packed(e).relation = e.relation
    <2>1. e.target \in 0 .. EntityCount - 1 /\ e.target # 0 /\ e.relation \in 0 .. RelationCount
        BY <1>2, Sizes
    <2> QED
        BY <1>2, <2>1 DEF Packed, Slots, IsMatch
<1> QED
    BY <1>3 DEF e

LEMMA EmptyRowLists ==
    ASSUME NEW o, NEW W
    PROVE  /\ [s \in 1 .. W |-> NoEdge] \in CleanRows(W)
           /\ OwnerLists(o, [s \in 1 .. W |-> NoEdge], {})
<1> DEFINE row == [s \in 1 .. W |-> NoEdge]
<1>1. row \in CleanRows(W)
    BY NoEdgeIsSlot DEF CleanRows
<1>2. Matches(row) = {}
    BY NoEdgeIsSlot DEF Matches
<1>3. OwnerListing(o, [s \in {} |-> s], row, {})
    BY <1>2 DEF OwnerListing
<1> QED
    BY <1>1, <1>3 DEF OwnerLists

(* The padded group of a key lists its rows.                               *)
LEMMA GroupLists ==
    ASSUME edges \in [Owners -> EdgeFiles], NEW o \in Owners, NEW k,
           \A n \in DOMAIN edges[o] : ValidEdge(edges[o][n]),
           Degree(o, k) <= SlotsPerKey, ~ReadsBlocks(circuit),
           NEW order \in Orders(o, k)
    PROVE  /\ PaddedGroup(o, order) \in CleanRows(SlotsPerKey)
           /\ OwnerLists(o, PaddedGroup(o, order), Rows(o, k))
<1> DEFINE size == Degree(o, k)
           row == PaddedGroup(o, order)
<1>1. /\ size \in Nat /\ size <= SlotsPerKey /\ SlotsPerKey \in Nat
      /\ Rows(o, k) \subseteq DOMAIN edges[o]
    BY RowsFinite, Sizes
<1>2. /\ order \in [1 .. size -> Rows(o, k)]
      /\ \A i, j \in 1 .. size :
            i < j => LexBefore(SortKey(o, order[i]), SortKey(o, order[j]))
    BY DEF Orders
<1>3. row = [s \in 1 .. SlotsPerKey |->
               IF s \in 1 .. size THEN Packed(edges[o][order[s]]) ELSE NoEdge]
    BY <1>2 DEF PaddedGroup
<1>4. \A n \in Rows(o, k) : Packed(edges[o][n]) \in Slots /\ IsMatch(Packed(edges[o][n]))
    BY <1>1, EdgeFillsSlot
<1> HIDE DEF row, size
<1>5. \A s \in 1 .. SlotsPerKey :
        IF s \in 1 .. size THEN row[s] = Packed(edges[o][order[s]]) /\ order[s] \in Rows(o, k)
        ELSE row[s] = NoEdge
    BY <1>2, <1>3
<1>6. row \in CleanRows(SlotsPerKey)
    BY <1>3, <1>4, <1>5, NoEdgeIsSlot DEF CleanRows
<1>7. Matches(row) = 1 .. size
    <2>1. DOMAIN row = 1 .. SlotsPerKey /\ 1 .. size \subseteq 1 .. SlotsPerKey
        BY <1>1, <1>3
    <2> QED
        BY <1>4, <1>5, <2>1, NoEdgeIsSlot DEF Matches
<1>8. \A n \in Rows(o, k) : \E s \in 1 .. size : order[s] = n
    BY OrdersExist DEF size
<1>9. OwnerListing(o, order, row, Rows(o, k))
    <2>1. \A s \in Matches(row) : row[s] = Packed(edges[o][order[s]])
        BY <1>1, <1>5, <1>7
    <2>2. \A s, t \in Matches(row) : s < t => RowBefore(o, order[s], order[t])
        BY <1>2, <1>7 DEF RowBefore
    <2> QED
        BY <1>2, <1>7, <1>8, <2>1, <2>2 DEF OwnerListing
<1> QED
    BY <1>6, <1>9 DEF OwnerLists, row

LEMMA FileRowsFinite ==
    ASSUME edges \in [Owners -> EdgeFiles], NEW o \in Owners, NEW S \in SUBSET DOMAIN edges[o]
    PROVE  IsFiniteSet(S) /\ S \in SUBSET Nat /\ Cardinality(S) \in Nat
<1>1. DOMAIN edges[o] = 1 .. Len(edges[o]) /\ Len(edges[o]) \in Nat
    BY FileAssumption
<1>2. IsFiniteSet(1 .. Len(edges[o]))
    BY <1>1, FS_Interval
<1>3. IsFiniteSet(S)
    BY <1>1, <1>2, FS_Subset
<1> QED
    BY <1>1, <1>3, FS_CardinalityType

(* The block of an entity, filtered, lists its rows of one relation.       *)
LEMMA BlockLists ==
    ASSUME circuit \in Circuits, edges \in [Owners -> EdgeFiles], NEW o \in Owners,
           ReadsBlocks(circuit), PackedFile(o), NEW entity \in Nat, NEW relation \in Nat
    PROVE  /\ Scanned(o, entity, relation) \in CleanRows(FanoutPerOwner)
           /\ OwnerLists(o, Scanned(o, entity, relation), KeyRows(o, entity, relation))
<1> DEFINE index == IF entity \in 1 .. EntityCount - 1 THEN entity ELSE 0
           rows == RowsOf(o, index)
           size == Cardinality(rows)
           block == BlockOf(o, index)
           row == Scanned(o, entity, relation)
           S == KeyRows(o, entity, relation)
<1>1. /\ \A n \in DOMAIN edges[o] : ValidEdge(edges[o][n])
      /\ FitsBlocks(o) /\ blocks[o] = PackedOwner(o)
    BY DEF PackedFile
<1>2. /\ rows \in SUBSET Nat /\ IsFiniteSet(rows) /\ rows \subseteq DOMAIN edges[o]
      /\ size \in Nat /\ FanoutPerOwner \in Nat
    BY FileRowsFinite, WidthsNatural DEF RowsOf
<1>3. S = {n \in rows : edges[o][n].relation = relation}
    <2>1. \A n \in DOMAIN edges[o] : edges[o][n].source \in 1 .. EntityCount - 1
        BY <1>1 DEF ValidEdge
    <2>2. \A n \in DOMAIN edges[o] : edges[o][n].source = entity <=> edges[o][n].source = index
        BY <2>1
    <2> QED
        BY <2>2 DEF KeyRows, RowsOf
<1>4. size <= FanoutPerOwner
    <2>1. CASE entity \in 1 .. EntityCount - 1
        BY <1>1, <2>1 DEF FitsBlocks
    <2>2. CASE entity \notin 1 .. EntityCount - 1
        <3>1. rows = {}
            BY <1>1, <2>2 DEF RowsOf, ValidEdge
        <3> QED
            BY <1>2, <3>1, FS_EmptySet
    <2> QED
        BY <2>1, <2>2
<1>5. row = [s \in DOMAIN block |-> IF block[s].relation = relation THEN block[s] ELSE NoEdge]
    <2>1. index + 1 \in 1 .. EntityCount /\ (index + 1) - 1 = index
        BY WidthsNatural
    <2>2. PackedOwner(o)[index + 1] = block
        BY <2>1 DEF PackedOwner
    <2> QED
        BY <1>1, <2>2 DEF Scanned
<1>6. block = [n \in 1 .. FanoutPerOwner |->
                 IF n <= size THEN Packed(edges[o][Nth(rows, n)]) ELSE NoEdge]
    BY DEF BlockOf
<1> HIDE DEF rows, size, block, row, S, index
<1>7. /\ \A n \in 1 .. size : Nth(rows, n) \in rows
      /\ \A m, n \in 1 .. size : m < n => Nth(rows, m) < Nth(rows, n)
      /\ \A i \in rows : \E n \in 1 .. size : Nth(rows, n) = i
    BY <1>2, NthElement DEF size
<1> DEFINE E(s) == edges[o][Nth(rows, s)]
<1>8. \A s \in 1 .. size : /\ Packed(E(s)) \in Slots /\ IsMatch(Packed(E(s)))
                           /\ Packed(E(s)).relation = E(s).relation
    BY <1>1, <1>2, <1>7, EdgeFillsSlot
<1> HIDE DEF E
<1>9. row = [s \in 1 .. FanoutPerOwner |->
               IF s \in 1 .. size /\ E(s).relation = relation THEN Packed(E(s)) ELSE NoEdge]
    <2>1. ASSUME NEW s \in 1 .. FanoutPerOwner
          PROVE  (IF block[s].relation = relation THEN block[s] ELSE NoEdge)
                 = IF s \in 1 .. size /\ E(s).relation = relation THEN Packed(E(s)) ELSE NoEdge
        <3>1. CASE s \in 1 .. size
            <4>1. block[s] = Packed(E(s))
                BY <1>2, <1>6, <3>1 DEF E
            <4> QED
                BY <1>8, <3>1, <4>1
        <3>2. CASE s \notin 1 .. size
            <4>1. block[s] = NoEdge
                BY <1>2, <1>6, <3>2
            <4> QED
                BY <3>2, <4>1
        <3> QED
            BY <3>1, <3>2
    <2>2. DOMAIN block = 1 .. FanoutPerOwner
        BY <1>6
    <2> QED
        BY <1>5, <2>1, <2>2
<1>10. /\ DOMAIN row = 1 .. FanoutPerOwner
       /\ \A s \in 1 .. FanoutPerOwner :
            IF s \in 1 .. size /\ E(s).relation = relation THEN row[s] = Packed(E(s))
            ELSE row[s] = NoEdge
    BY <1>9
<1>11. row \in CleanRows(FanoutPerOwner)
    BY <1>8, <1>9, <1>10, NoEdgeIsSlot DEF CleanRows
<1>12. Matches(row) = {s \in 1 .. size : E(s).relation = relation}
    <2>1. 1 .. size \subseteq 1 .. FanoutPerOwner
        BY <1>2, <1>4
    <2> QED
        BY <1>8, <1>10, <2>1, NoEdgeIsSlot DEF Matches
<1> DEFINE at == [s \in Matches(row) |-> Nth(rows, s)]
<1>13. OwnerListing(o, at, row, S)
    <2>1. at \in [Matches(row) -> S]
        BY <1>3, <1>7, <1>12 DEF E
    <2>2. \A s \in Matches(row) : row[s] = Packed(edges[o][at[s]])
        <3>1. 1 .. size \subseteq 1 .. FanoutPerOwner
            BY <1>2, <1>4
        <3> QED
            BY <1>10, <1>12, <3>1 DEF E
    <2>3. \A s, t \in Matches(row) : s < t => RowBefore(o, at[s], at[t])
        BY <1>7, <1>12 DEF RowBefore
    <2>4. \A n \in S : \E s \in Matches(row) : at[s] = n
        BY <1>3, <1>7, <1>12 DEF E
    <2> HIDE DEF at
    <2> QED
        BY <2>1, <2>2, <2>3, <2>4 DEF OwnerListing
<1> QED
    BY <1>11, <1>13 DEF OwnerLists, row, S

(* Different keys have different directory rows.                           *)
LEMMA KeysDiffer ==
    ASSUME NEW e \in Nat, NEW f \in Nat, NEW r \in 1 .. RelationCount, NEW s \in 1 .. RelationCount,
           DirectoryIndex(e, r) = DirectoryIndex(f, s)
    PROVE  e = f /\ r = s
<1> DEFINE w == RelationCount
<1>1. /\ w \in Nat \ {0} /\ r - 1 \in Nat /\ s - 1 \in Nat /\ r - 1 < w /\ s - 1 < w
      /\ r \in Nat /\ s \in Nat
    BY Sizes
<1>2. /\ ((r - 1) + e * w) % w = r - 1 /\ ((r - 1) + e * w) \div w = e
      /\ ((s - 1) + f * w) % w = s - 1 /\ ((s - 1) + f * w) \div w = f
    <2> HIDE DEF w
    <2> QED
        BY <1>1, Unpacking
<1>3. /\ DirectoryIndex(e, r) = (r - 1) + e * w
      /\ DirectoryIndex(f, s) = (s - 1) + f * w
    <2>1. e * w \in Nat /\ f * w \in Nat
        BY <1>1
    <2>2. DirectoryIndex(e, r) = e * w + r - 1 /\ DirectoryIndex(f, s) = f * w + s - 1
        BY DEF DirectoryIndex
    <2> DEFINE ew == e * w
               fw == f * w
    <2> HIDE DEF ew, fw
    <2>3. /\ ew \in Nat /\ fw \in Nat
          /\ DirectoryIndex(e, r) = ew + r - 1 /\ DirectoryIndex(f, s) = fw + s - 1
        BY <2>1, <2>2 DEF ew, fw
    <2>4. ew + r - 1 = (r - 1) + ew /\ fw + s - 1 = (s - 1) + fw
        <3>1. \A m, n \in Nat : m + n - 1 = (n - 1) + m
            OBVIOUS
        <3> QED
            BY <1>1, <2>3, <3>1
    <2> QED
        BY <2>3, <2>4 DEF ew, fw
<1>4. r - 1 = s - 1 /\ e = f
    BY <1>2, <1>3
<1> QED
    BY <1>4

(* In a valid file the rows of a key are those of its source and relation. *)
LEMMA RowsOfKey ==
    ASSUME NEW o, \A n \in DOMAIN edges[o] : ValidEdge(edges[o][n]),
           NEW e \in Nat, NEW r \in Nat
    PROVE  KeyRows(o, e, r) =
             IF KeyOk(e, r) THEN Rows(o, DirectoryIndex(e, r)) ELSE {}
<1>1. \A n \in DOMAIN edges[o] :
        edges[o][n].source \in 1 .. EntityCount - 1 /\ edges[o][n].relation \in 1 .. RelationCount
    BY DEF ValidEdge
<1>2. EntityCount \in Nat /\ RelationCount \in Nat
    BY Sizes
<1>3. CASE KeyOk(e, r)
    <2>1. r \in 1 .. RelationCount
        BY <1>2, <1>3 DEF KeyOk
    <2>2. ASSUME NEW n \in DOMAIN edges[o]
          PROVE  KeyOf(edges[o][n]) = DirectoryIndex(e, r) <=>
                    edges[o][n].source = e /\ edges[o][n].relation = r
        <3>1. edges[o][n].source \in Nat
            BY <1>1, <1>2
        <3> QED
            BY <1>1, <2>1, <3>1, KeysDiffer DEF KeyOf
    <2> QED
        BY <1>3, <2>2 DEF KeyRows, Rows
<1>4. CASE ~KeyOk(e, r)
    BY <1>1, <1>2, <1>4 DEF KeyRows, KeyOk
<1> QED
    BY <1>3, <1>4

(* What the circuit was let through to read.                               *)
LEMMA FilesAdmitted ==
    ASSUME PrepInv, Ready, NEW o \in Owners
    PROVE  /\ \A n \in DOMAIN edges[o] : ValidEdge(edges[o][n])
           /\ Paged => LayoutInv /\ Admitted(o)
           /\ ~Paged => PackedFile(o)
<1>1. phase \notin {"build", "refused"} /\ phase # "build"
    BY DEF Ready, Before
<1>2. CASE Paged
    BY <1>1, <1>2 DEF PrepInv, AdmittedInv, Admitted
<1>3. CASE ~Paged
    BY <1>1, <1>3 DEF PrepInv, FilesPacked, PackedFile
<1> QED
    BY <1>2, <1>3

\* What a circuit reads for a key of one owner.
LEMMA AnswerLists ==
    ASSUME PrepInv, Ready, NEW o \in Owners, NEW e \in Nat, NEW r \in Nat
    PROVE  /\ Answered(o, e, r) \in CleanRows(OwnerWidth)
           /\ OwnerLists(o, Answered(o, e, r), KeyRows(o, e, r))
<1> DEFINE k == DirectoryIndex(e, r)
<1>1. /\ circuit \in Circuits /\ edges \in [Owners -> EdgeFiles]
      /\ \A n \in DOMAIN edges[o] : ValidEdge(edges[o][n])
    BY FilesAdmitted DEF PrepInv, FilesPacked
<1>2. circuit.reads \in {"stacks", "records", "pages", "scan", "baseline"}
    BY <1>1, CircuitAssumption
<1>3. CASE ReadsBlocks(circuit)
    <2>1. PackedFile(o)
        BY <1>3, FilesAdmitted DEF ReadsBlocks, Paged
    <2>2. OwnerWidth = FanoutPerOwner
        BY <1>3 DEF OwnerWidth, WidthOf
    <2>3. circuit.reads # "records"
        BY <1>3 DEF ReadsBlocks
    <2>4. Answered(o, e, r) = Scanned(o, e, r)
        BY <1>3, <2>3, Zenon DEF Answered
    <2> QED
        BY <1>1, <1>3, <2>1, <2>2, <2>4, BlockLists
<1>4. CASE ~ReadsBlocks(circuit)
    <2>1. OwnerWidth = SlotsPerKey
        BY <1>4 DEF OwnerWidth, WidthOf
    <2>2. KeyRows(o, e, r) = IF KeyOk(e, r) THEN Rows(o, k) ELSE {}
        BY <1>1, RowsOfKey
    <2>3. CASE ~KeyOk(e, r)
        <3>1. Answered(o, e, r) = [s \in 1 .. SlotsPerKey |-> NoEdge]
            BY <1>2, <1>4, <2>3, Zenon DEF Answered, Record, Window, ReadsBlocks
        <3> QED
            BY <2>1, <2>2, <2>3, <3>1, EmptyRowLists
    <2>4. CASE KeyOk(e, r)
        <3>1. e \in 1 .. EntityCount - 1 /\ r \in 1 .. RelationCount
            BY <2>4, Sizes DEF KeyOk
        <3>2. k \in AllKeys
            BY <3>1, IndexInDirectory
        <3>3. Degree(o, k) <= SlotsPerKey /\ \E order \in Orders(o, k) :
                                                Answered(o, e, r) = PaddedGroup(o, order)
            <4>1. CASE circuit.reads = "records"
                <5>1. /\ FitsRecords(o) /\ blocks[o] = PackedOwner(o)
                    BY <1>4, <4>1, FilesAdmitted DEF PackedFile, Paged
                <5>2. Degree(o, k) <= SlotsPerKey
                    <6>1. k \notin Keys(o) => Degree(o, k) = 0
                        BY <1>1, RowsFinite
                    <6> QED
                        BY <5>1, <6>1, Sizes DEF FitsRecords
                <5>3. k + 1 \in 1 .. DirectoryRows /\ (k + 1) - 1 = k
                    BY <3>2, Sizes DEF AllKeys
                <5>4. blocks[o][k + 1] = RecordOf(o, k)
                    BY <1>4, <5>1, <5>3 DEF PackedOwner
                <5>5. Answered(o, e, r) = RecordOf(o, k)
                    BY <1>4, <2>4, <4>1, <5>4 DEF Answered, Record
                <5>6. \E order \in Orders(o, k) : RecordOf(o, k) = PaddedGroup(o, order)
                    BY <1>1, OrdersExist DEF RecordOf
                <5> QED
                    BY <5>2, <5>5, <5>6
            <4>2. CASE circuit.reads # "records"
                <5>1. Paged
                    BY <1>2, <1>4, <4>2 DEF Paged, ReadsBlocks
                <5>2. LayoutInv /\ Admitted(o)
                    BY <5>1, FilesAdmitted
                <5>3. Degree(o, k) <= SlotsPerKey
                    <6>1. k \notin Keys(o) => Degree(o, k) = 0
                        BY <1>1, RowsFinite
                    <6>2. /\ FrontierPerOwner <= SlotsPerKey
                          /\ FrontierPerOwner \in Nat /\ SlotsPerKey \in Nat
                        BY PageAssumption, Sizes DEF SlotsPerKey
                    <6>3. Degree(o, k) \in Nat
                        BY <1>1, RowsFinite
                    <6> QED
                        BY <5>2, <6>1, <6>2, <6>3 DEF Admitted
                <5>4. Answered(o, e, r) = Window(o, e, r)
                    BY <1>4, <4>2 DEF Answered
                <5>5. phase # "refused" /\ Complete(o, k)
                    BY DEF Ready, Before, Complete
                <5> QED
                    BY <3>1, <5>2, <5>3, <5>4, <5>5, LosslessFromInv DEF Lossless
            <4> QED
                BY <4>1, <4>2
        <3> QED
            BY <1>1, <1>4, <2>1, <2>2, <2>4, <3>3, GroupLists
    <2> QED
        BY <2>3, <2>4
<1> QED
    BY <1>3, <1>4

-----------------------------------------------------------------------------
(* Rows made of parts of one width.                                        *)

BlockAt(W, s) == (s - 1) \div W + 1
PlaceAt(W, s) == ((s - 1) % W) + 1

\* The N * W slots of N parts, by part and place in the part.
IsGrid(N, W) ==
    /\ \A s \in 1 .. N * W :
          /\ BlockAt(W, s) \in 1 .. N /\ PlaceAt(W, s) \in 1 .. W
          /\ (BlockAt(W, s) - 1) * W + PlaceAt(W, s) = s
    /\ \A b \in 1 .. N, i \in 1 .. W :
          /\ (b - 1) * W + i \in 1 .. N * W
          /\ BlockAt(W, (b - 1) * W + i) = b /\ PlaceAt(W, (b - 1) * W + i) = i
    /\ \A s, t \in 1 .. N * W :
          s < t => \/ BlockAt(W, s) < BlockAt(W, t)
                   \/ BlockAt(W, s) = BlockAt(W, t) /\ PlaceAt(W, s) < PlaceAt(W, t)

LEMMA Grids ==
    ASSUME NEW N \in Nat \ {0}, NEW W \in Nat \ {0}
    PROVE  IsGrid(N, W) /\ N * W \in Nat \ {0}
<1>1. ASSUME NEW s \in 1 .. N * W
      PROVE  /\ BlockAt(W, s) \in 1 .. N /\ PlaceAt(W, s) \in 1 .. W
             /\ (BlockAt(W, s) - 1) * W + PlaceAt(W, s) = s
    <2> DEFINE b == (s - 1) \div W
               i == (s - 1) % W
    <2>1. s \in Nat /\ s - 1 \in Nat /\ N * W \in Nat /\ s <= N * W
        OBVIOUS
    <2>2. b * W + i = s - 1 /\ i \in 0 .. W - 1 /\ b \in Nat
        BY <2>1, DivMod
    <2>3. BlockAt(W, s) = b + 1 /\ PlaceAt(W, s) = i + 1
        BY DEF BlockAt, PlaceAt
    <2> HIDE DEF b, i
    <2>4. b < N
        <3>1. SUFFICES ASSUME N <= b PROVE FALSE
            BY <2>2
        <3>2. N * W <= b * W /\ b * W \in Nat
            BY <2>2, <3>1, Products
        <3> QED
            BY <2>1, <2>2, <3>2
    <2>5. b * W \in Nat /\ (b + 1) - 1 = b
        BY <2>2, Products
    <2>6. b * W + (i + 1) = s
        BY <2>1, <2>2, <2>5
    <2> QED
        BY <2>2, <2>3, <2>4, <2>5, <2>6
<1>2. ASSUME NEW b \in 1 .. N, NEW i \in 1 .. W
      PROVE  /\ (b - 1) * W + i \in 1 .. N * W
             /\ BlockAt(W, (b - 1) * W + i) = b /\ PlaceAt(W, (b - 1) * W + i) = i
    <2> DEFINE start == (b - 1) * W
    <2>1. b - 1 \in Nat /\ N - 1 \in Nat /\ i - 1 \in Nat /\ i - 1 < W /\ b - 1 <= N - 1
          /\ i \in Nat /\ i <= W /\ (N - 1) + 1 = N
        OBVIOUS
    <2>2. start \in Nat /\ start <= (N - 1) * W /\ (N - 1) * W \in Nat /\ N * W = (N - 1) * W + W
        BY <2>1, Products
    <2>3. /\ ((i - 1) + (b - 1) * W) % W = i - 1
          /\ ((i - 1) + (b - 1) * W) \div W = b - 1
        BY <2>1, Unpacking
    <2> HIDE DEF start
    <2>4. start + i \in 1 .. N * W
        BY <2>1, <2>2
    <2>5. (start + i) - 1 = (i - 1) + start
        BY <2>1, <2>2
    <2>6. BlockAt(W, start + i) = (b - 1) + 1 /\ PlaceAt(W, start + i) = (i - 1) + 1
        BY <2>3, <2>5 DEF BlockAt, PlaceAt, start
    <2>7. (b - 1) + 1 = b /\ (i - 1) + 1 = i
        OBVIOUS
    <2> QED
        BY <2>4, <2>6, <2>7 DEF start
<1>3. ASSUME NEW s \in 1 .. N * W, NEW t \in 1 .. N * W, s < t
      PROVE  \/ BlockAt(W, s) < BlockAt(W, t)
             \/ BlockAt(W, s) = BlockAt(W, t) /\ PlaceAt(W, s) < PlaceAt(W, t)
    <2> DEFINE a == BlockAt(W, s) - 1
               b == BlockAt(W, t) - 1
               i == PlaceAt(W, s)
               j == PlaceAt(W, t)
    <2>1. /\ a \in Nat /\ b \in Nat /\ i \in 1 .. W /\ j \in 1 .. W
          /\ a * W + i = s /\ b * W + j = t
          /\ BlockAt(W, s) = a + 1 /\ BlockAt(W, t) = b + 1
        BY <1>1
    <2> HIDE DEF a, b
    <2>2. CASE b < a
        <3>1. b + 1 <= a /\ b + 1 \in Nat
            BY <2>1, <2>2
        <3>2. (b + 1) * W <= a * W /\ (b + 1) * W = b * W + W /\ a * W \in Nat /\ b * W \in Nat
            BY <2>1, <3>1, Products
        <3> HIDE DEF i, j
        <3> QED
            BY <1>3, <2>1, <3>2
    <2>3. CASE a = b
        <3>1. a * W \in Nat
            BY <2>1, Products
        <3> HIDE DEF i, j
        <3>2. i < j
            BY <1>3, <2>1, <2>3, <3>1
        <3> QED
            BY <2>1, <2>3, <3>2 DEF i, j
    <2>4. CASE a < b
        BY <2>1, <2>4
    <2> QED
        BY <2>1, <2>2, <2>3, <2>4
<1>4. N * W \in Nat \ {0}
    OBVIOUS
<1> QED
    BY <1>1, <1>2, <1>3, <1>4 DEF IsGrid

-----------------------------------------------------------------------------
(* Rows that list edges.                                                   *)

AllFacts == UNION {{o} \X DOMAIN edges[o] : o \in Owners}

\* The row holds the edges of these facts once each, in their public order.
IsListing(at, row, facts) ==
    /\ at \in [Matches(row) -> facts]
    /\ \A s \in Matches(row) : row[s] = Packed(EdgeOf(at[s]))
    /\ \A s, t \in Matches(row) : s < t => FactBefore(at[s], at[t])
    /\ \A f \in facts : \E s \in Matches(row) : at[s] = f

Lists(row, facts) == \E at : IsListing(at, row, facts)

LEMMA FactParts ==
    ASSUME NEW f \in AllFacts
    PROVE  f[1] \in Owners /\ f[2] \in DOMAIN edges[f[1]] /\ f = <<f[1], f[2]>>
BY DEF AllFacts

(* The public order of facts is strict.                                    *)
LEMMA FactsApart ==
    ASSUME edges \in [Owners -> EdgeFiles],
           NEW f \in AllFacts, NEW g \in AllFacts, FactBefore(f, g)
    PROVE  ~FactBefore(g, f) /\ f # g
<1>1. /\ f[1] \in Owners /\ f[2] \in DOMAIN edges[f[1]]
      /\ g[1] \in Owners /\ g[2] \in DOMAIN edges[g[1]]
    BY FactParts
<1>2. /\ f[1] \in Nat /\ g[1] \in Nat /\ f[2] \in Nat /\ g[2] \in Nat
    <2>1. \A o \in Owners : DOMAIN edges[o] \in SUBSET Nat
        <3>1. \A o \in Owners : DOMAIN edges[o] \in SUBSET DOMAIN edges[o]
            OBVIOUS
        <3> QED
            BY <3>1, FileRowsFinite
    <2> QED
        BY <1>1, <2>1 DEF Owners
<1>3. CASE f[1] < g[1]
    BY <1>2, <1>3 DEF FactBefore
<1>4. CASE ~(f[1] < g[1])
    <2>1. f[1] = g[1]
        BY <1>4 DEF FactBefore
    <2>2. CASE ReadsBlocks(circuit)
        BY <1>2, <2>1, <2>2 DEF FactBefore
    <2>3. CASE ~ReadsBlocks(circuit)
        <3>1. LexBefore(SortKey(f[1], f[2]), SortKey(g[1], g[2]))
            BY <1>4, <2>3 DEF FactBefore
        <3>2. ~LexBefore(SortKey(g[1], g[2]), SortKey(f[1], f[2])) /\ f[2] # g[2]
            BY <1>1, <2>1, <3>1, RowsOrdered
        <3> QED
            BY <1>2, <2>1, <2>3, <3>2 DEF FactBefore
    <2> QED
        BY <2>2, <2>3
<1> QED
    BY <1>3, <1>4

LEMMA MatchesNatural ==
    ASSUME NEW W \in Nat, NEW row \in CleanRows(W)
    PROVE  /\ Matches(row) \in SUBSET Nat /\ IsFiniteSet(Matches(row))
           /\ Cardinality(Matches(row)) \in Nat /\ Matches(row) \subseteq 1 .. W
<1>1. Matches(row) \subseteq 1 .. W
    BY DEF CleanRows, Matches
<1>2. IsFiniteSet(1 .. W)
    BY FS_Interval
<1>3. IsFiniteSet(Matches(row))
    BY <1>1, <1>2, FS_Subset
<1> QED
    BY <1>1, <1>3, FS_CardinalityType

(* A listing keeps the order both ways and counts its facts.               *)
LEMMA ListingOrder ==
    ASSUME edges \in [Owners -> EdgeFiles], NEW W \in Nat, NEW row \in CleanRows(W),
           NEW facts \in SUBSET AllFacts, NEW at, IsListing(at, row, facts)
    PROVE  /\ \A s, t \in Matches(row) : FactBefore(at[s], at[t]) <=> s < t
           /\ \A s, t \in Matches(row) : at[s] = at[t] => s = t
           /\ Cardinality(Matches(row)) = Cardinality(facts) /\ IsFiniteSet(facts)
<1> DEFINE M == Matches(row)
<1>1. M \in SUBSET Nat /\ IsFiniteSet(M)
    BY MatchesNatural
<1>2. /\ at \in [M -> facts]
      /\ \A s, t \in M : s < t => FactBefore(at[s], at[t])
      /\ \A f \in facts : \E s \in M : at[s] = f
    BY DEF IsListing
<1> HIDE DEF M
<1>3. \A s, t \in M : s < t => ~FactBefore(at[t], at[s]) /\ at[s] # at[t]
    BY <1>2, FactsApart
<1>4. \A s \in M : ~FactBefore(at[s], at[s])
    BY <1>2, FactsApart
<1>5. \A s, t \in M : s < t \/ s = t \/ t < s
    BY <1>1
<1>6. \A s, t \in M : at[s] = at[t] => s = t
    BY <1>3, <1>5
<1>7. at \in Bijection(M, facts)
    <2>1. at \in Injection(M, facts)
        BY <1>2, <1>6 DEF Injection, IsInjective
    <2>2. at \in Surjection(M, facts)
        BY <1>2 DEF Surjection
    <2> QED
        BY <2>1, <2>2 DEF Bijection
<1>8. IsFiniteSet(facts) /\ Cardinality(facts) = Cardinality(M)
    <2>1. ExistsBijection(M, facts)
        BY <1>7 DEF ExistsBijection
    <2> QED
        BY <1>1, <2>1, FS_Bijection
<1> QED
    BY <1>2, <1>3, <1>4, <1>5, <1>6, <1>8 DEF M

(* A listing of an owner's rows lists their facts.                         *)
LEMMA OwnerFacts ==
    ASSUME NEW o \in Owners, NEW row, NEW S, OwnerLists(o, row, S)
    PROVE  Lists(row, {o} \X S)
<1>1. PICK at : OwnerListing(o, at, row, S)
    BY DEF OwnerLists
<1> DEFINE M == Matches(row)
           fact == [s \in M |-> <<o, at[s]>>]
<1>2. /\ at \in [M -> S]
      /\ \A s \in M : row[s] = Packed(edges[o][at[s]])
      /\ \A s, t \in M : s < t => RowBefore(o, at[s], at[t])
      /\ \A n \in S : \E s \in M : at[s] = n
    BY <1>1 DEF OwnerListing
<1> HIDE DEF M
<1>3. \A s \in M : fact[s][1] = o /\ fact[s][2] = at[s] /\ fact[s] = <<o, at[s]>>
    OBVIOUS
<1>4. fact \in [M -> {o} \X S]
    BY <1>2
<1> HIDE DEF fact
<1>5. \A s \in M : row[s] = Packed(EdgeOf(fact[s]))
    BY <1>2, <1>3 DEF EdgeOf
<1>6. \A s, t \in M : s < t => FactBefore(fact[s], fact[t])
    BY <1>2, <1>3 DEF FactBefore, RowBefore
<1>7. \A f \in {o} \X S : \E s \in M : fact[s] = f
    BY <1>2, <1>3
<1> QED
    BY <1>4, <1>5, <1>6, <1>7 DEF IsListing, Lists, M

(* The facts of a key are the rows of its owners.                          *)
LEMMA FactsByOwner ==
    ASSUME NEW e, NEW r
    PROVE  /\ Facts(e, r) = UNION {{o} \X KeyRows(o, e, r) : o \in Owners}
           /\ Facts(e, r) \in SUBSET AllFacts
BY DEF Facts, KeyRows, AllFacts

\* The parts list the rows of a key, owner by owner.
PartsList(W, part, e, r) ==
    \A o \in Owners : part[o] \in CleanRows(W) /\ Lists(part[o], {o} \X KeyRows(o, e, r))

JoinedParts(W, part) ==
    [s \in 1 .. OwnerCount * W |-> part[BlockAt(W, s)][PlaceAt(W, s)]]

(* Lists of the owners' rows, one after the other, list the federation's.  *)
LEMMA JoinedLists ==
    ASSUME edges \in [Owners -> EdgeFiles], NEW W \in Nat \ {0}, NEW e, NEW r, NEW part,
           PartsList(W, part, e, r)
    PROVE  /\ JoinedParts(W, part) \in CleanRows(OwnerCount * W)
           /\ Lists(JoinedParts(W, part), Facts(e, r))
<1> DEFINE size == OwnerCount * W
           row == JoinedParts(W, part)
           M == Matches(row)
           ats == [o \in Owners |-> CHOOSE at : IsListing(at, part[o], {o} \X KeyRows(o, e, r))]
           B(s) == BlockAt(W, s)
           I(s) == PlaceAt(W, s)
           slot(o, i) == (o - 1) * W + i
           fact == [s \in M |-> ats[B(s)][I(s)]]
<1>1. IsGrid(OwnerCount, W) /\ size \in Nat \ {0} /\ Owners = 1 .. OwnerCount
    BY Grids, Constants DEF Owners
<1>2. /\ \A s \in 1 .. size : B(s) \in Owners /\ I(s) \in 1 .. W
      /\ \A o \in Owners, i \in 1 .. W :
            slot(o, i) \in 1 .. size /\ B(slot(o, i)) = o /\ I(slot(o, i)) = i
      /\ \A s, t \in 1 .. size : s < t => B(s) < B(t) \/ (B(s) = B(t) /\ I(s) < I(t))
    BY <1>1 DEF IsGrid
<1>3. \A o \in Owners : IsListing(ats[o], part[o], {o} \X KeyRows(o, e, r))
    BY DEF PartsList, Lists
<1>4. row = [s \in 1 .. size |-> part[B(s)][I(s)]]
    BY DEF JoinedParts
<1> HIDE DEF ats, B, I, slot, size, row
<1>5. \A o \in Owners : /\ part[o] \in [1 .. W -> Slots]
                        /\ \A i \in 1 .. W : part[o][i] = NoEdge \/ IsMatch(part[o][i])
    BY DEF PartsList, CleanRows
<1>6. row \in CleanRows(size)
    <2>1. \A s \in 1 .. size : /\ part[B(s)][I(s)] \in Slots
                               /\ part[B(s)][I(s)] = NoEdge \/ IsMatch(part[B(s)][I(s)])
        BY <1>2, <1>5
    <2> QED
        BY <1>4, <2>1 DEF CleanRows
<1>7. /\ M \subseteq 1 .. size
      /\ \A s \in 1 .. size : s \in M <=> I(s) \in Matches(part[B(s)])
    <2>1. \A o \in Owners : DOMAIN part[o] = 1 .. W
        BY <1>5
    <2>2. DOMAIN row = 1 .. size /\ \A s \in 1 .. size : row[s] = part[B(s)][I(s)]
        BY <1>4
    <2> QED
        BY <1>2, <2>1, <2>2 DEF Matches
<1> HIDE DEF M
<1>8. ASSUME NEW s \in M
      PROVE  /\ fact[s] \in {B(s)} \X KeyRows(B(s), e, r) /\ fact[s] = ats[B(s)][I(s)]
             /\ fact[s] \in Facts(e, r) /\ fact[s][1] = B(s)
             /\ B(s) \in Owners /\ I(s) \in Matches(part[B(s)])
             /\ row[s] = Packed(EdgeOf(fact[s]))
    <2>1. B(s) \in Owners /\ I(s) \in Matches(part[B(s)]) /\ row[s] = part[B(s)][I(s)]
        BY <1>2, <1>4, <1>7
    <2>2. fact[s] = ats[B(s)][I(s)]
        OBVIOUS
    <2> HIDE DEF fact
    <2>3. /\ fact[s] \in {B(s)} \X KeyRows(B(s), e, r)
          /\ part[B(s)][I(s)] = Packed(EdgeOf(fact[s]))
        BY <1>3, <2>1, <2>2 DEF IsListing
    <2>4. fact[s] \in Facts(e, r) /\ fact[s][1] = B(s)
        BY <2>1, <2>3, FactsByOwner
    <2> QED
        BY <2>1, <2>2, <2>3, <2>4
<1>9. fact \in [M -> Facts(e, r)]
    BY <1>8
<1> HIDE DEF fact
<1>10. ASSUME NEW s \in M, NEW t \in M, s < t
       PROVE  FactBefore(fact[s], fact[t])
    <2>1. CASE B(s) < B(t)
        BY <1>8, <2>1 DEF FactBefore
    <2>2. CASE B(s) = B(t) /\ I(s) < I(t)
        <3>1. PICK o \in Owners : B(s) = o /\ B(t) = o
            BY <1>8, <2>2
        <3>2. /\ fact[s] = ats[o][I(s)] /\ fact[t] = ats[o][I(t)]
              /\ I(s) \in Matches(part[o]) /\ I(t) \in Matches(part[o])
            BY <1>8, <3>1
        <3>3. \A i, j \in Matches(part[o]) : i < j => FactBefore(ats[o][i], ats[o][j])
            BY <1>3 DEF IsListing
        <3> QED
            BY <2>2, <3>2, <3>3
    <2> QED
        BY <1>2, <1>7, <1>10, <2>1, <2>2
<1>11. ASSUME NEW f \in Facts(e, r)
       PROVE  \E s \in M : fact[s] = f
    <2>1. PICK o \in Owners : f \in {o} \X KeyRows(o, e, r)
        BY FactsByOwner
    <2>2. PICK i \in Matches(part[o]) : ats[o][i] = f
        BY <1>3, <2>1 DEF IsListing
    <2>3. i \in 1 .. W
        BY <1>5 DEF Matches
    <2>4. slot(o, i) \in M /\ B(slot(o, i)) = o /\ I(slot(o, i)) = i
        BY <1>2, <1>7, <2>2, <2>3
    <2>5. fact[slot(o, i)] = f
        BY <1>8, <2>2, <2>4
    <2> QED
        BY <2>4, <2>5
<1>12. IsListing(fact, row, Facts(e, r))
    BY <1>8, <1>9, <1>10, <1>11 DEF IsListing, M
<1> QED
    BY <1>6, <1>12 DEF Lists, size, row

(* Compaction to a width that holds all matches keeps the list.            *)
LEMMA CompactedLists ==
    ASSUME edges \in [Owners -> EdgeFiles], NEW W \in Nat, NEW row \in CleanRows(W),
           NEW facts \in SUBSET AllFacts, Lists(row, facts),
           NEW width \in Nat, Cardinality(facts) <= width
    PROVE  Compacted(row, width) \in CleanRows(width) /\ Lists(Compacted(row, width), facts)
<1>1. PICK at : IsListing(at, row, facts)
    BY DEF Lists
<1> DEFINE M == Matches(row)
           size == Cardinality(M)
           c == Compacted(row, width)
           new == [f \in 1 .. size |-> at[Nth(M, f)]]
<1>2. /\ M \in SUBSET Nat /\ IsFiniteSet(M) /\ size \in Nat /\ size <= width
    BY <1>1, MatchesNatural, ListingOrder
<1>3. /\ at \in [M -> facts]
      /\ \A s \in M : row[s] = Packed(EdgeOf(at[s]))
      /\ \A s, t \in M : s < t => FactBefore(at[s], at[t])
      /\ \A f \in facts : \E s \in M : at[s] = f
    BY <1>1 DEF IsListing
<1>4. \A s \in M : row[s] \in Slots /\ IsMatch(row[s])
    BY DEF CleanRows, Matches
<1>5. c = [f \in 1 .. width |-> IF f <= size THEN row[Nth(M, f)] ELSE NoEdge]
    BY DEF Compacted
<1> HIDE DEF M, size, c
<1>6. /\ \A n \in 1 .. size : Nth(M, n) \in M
      /\ \A m, n \in 1 .. size : m < n => Nth(M, m) < Nth(M, n)
      /\ \A i \in M : \E n \in 1 .. size : Nth(M, n) = i
    BY <1>2, NthElement DEF size
<1>7. \A f \in 1 .. width :
        IF f \in 1 .. size THEN c[f] = row[Nth(M, f)] /\ Nth(M, f) \in M ELSE c[f] = NoEdge
    BY <1>2, <1>5, <1>6
<1>8. c \in CleanRows(width)
    <2>1. \A f \in 1 .. width : c[f] \in Slots /\ (c[f] = NoEdge \/ IsMatch(c[f]))
        BY <1>4, <1>7, NoEdgeIsSlot
    <2>2. c = [f \in 1 .. width |-> c[f]]
        BY <1>5
    <2> QED
        BY <2>1, <2>2 DEF CleanRows
<1>9. Matches(c) = 1 .. size
    <2>1. DOMAIN c = 1 .. width /\ 1 .. size \subseteq 1 .. width
        BY <1>2, <1>5
    <2> QED
        BY <1>4, <1>7, <2>1, NoEdgeIsSlot DEF Matches
<1>10. IsListing(new, c, facts)
    <2>1. new \in [1 .. size -> facts]
        BY <1>3, <1>6
    <2>2. \A f \in 1 .. size : new[f] = at[Nth(M, f)]
        OBVIOUS
    <2> HIDE DEF new
    <2>3. \A f \in 1 .. size : c[f] = Packed(EdgeOf(new[f]))
        <3>1. 1 .. size \subseteq 1 .. width
            BY <1>2
        <3> QED
            BY <1>3, <1>7, <2>2, <3>1
    <2>4. \A f, g \in 1 .. size : f < g => FactBefore(new[f], new[g])
        BY <1>3, <1>6, <2>2
    <2>5. \A x \in facts : \E f \in 1 .. size : new[f] = x
        BY <1>3, <1>6, <2>2
    <2> QED
        BY <1>9, <2>1, <2>3, <2>4, <2>5 DEF IsListing
<1> QED
    BY <1>8, <1>10 DEF Lists, c

LEMMA CleanSlotMatches ==
    ASSUME NEW slot \in Slots, slot = NoEdge \/ IsMatch(slot)
    PROVE  Match(slot) = slot
<1>1. CASE slot = NoEdge
    BY <1>1, NoEdgeIsSlot
<1>2. CASE IsMatch(slot)
    <2>1. slot.target \in 0 .. EntityCount - 1 /\ slot.target # 0
        BY <1>2 DEF Slots, IsMatch
    <2>2. slot.target \in 1 .. EntityCount - 1
        BY <2>1
    <2> QED
        BY <2>2 DEF Match
<1> QED
    BY <1>1, <1>2

(* A read of all owners lists the federation's edges of the key.           *)
LEMMA FullReadLists ==
    ASSUME PrepInv, Ready, NEW e \in Nat, NEW r \in Nat
    PROVE  /\ FullRead(e, r) \in CleanRows(SecondWidth) /\ Lists(FullRead(e, r), Facts(e, r))
           /\ \A o \in Owners : /\ OwnerPart(FullRead(e, r), o) \in CleanRows(OwnerWidth)
                                /\ Lists(OwnerPart(FullRead(e, r), o), {o} \X KeyRows(o, e, r))
           /\ \A s \in 1 .. SecondWidth :
                 Answered(OwnerAt(s), e, r)[SlotAt(s)] = FullRead(e, r)[s]
<1> DEFINE W == OwnerWidth
           part == [o \in Owners |-> Answered(o, e, r)]
           row == FullRead(e, r)
<1>1. /\ W \in Nat \ {0} /\ SecondWidth = OwnerCount * W /\ edges \in [Owners -> EdgeFiles]
      /\ Owners = 1 .. OwnerCount
    BY WidthsNatural DEF PrepInv, FilesPacked, Owners
<1>2. \A o \in Owners : part[o] \in CleanRows(W) /\ Lists(part[o], {o} \X KeyRows(o, e, r))
    BY AnswerLists, OwnerFacts
<1>3. IsGrid(OwnerCount, W)
    BY <1>1, Grids, Constants
<1>4. \A s : OwnerAt(s) = BlockAt(W, s) /\ SlotAt(s) = PlaceAt(W, s)
    BY DEF OwnerAt, SlotAt, BlockAt, PlaceAt
<1>5. ASSUME NEW s \in 1 .. SecondWidth
      PROVE  /\ OwnerAt(s) \in Owners /\ SlotAt(s) \in 1 .. W
             /\ Match(Answered(OwnerAt(s), e, r)[SlotAt(s)]) = part[BlockAt(W, s)][PlaceAt(W, s)]
             /\ Answered(OwnerAt(s), e, r)[SlotAt(s)] = part[BlockAt(W, s)][PlaceAt(W, s)]
    <2>1. OwnerAt(s) \in Owners /\ SlotAt(s) \in 1 .. W
        BY <1>1, <1>3, <1>4 DEF IsGrid
    <2>2. \A o \in Owners : part[o] = Answered(o, e, r)
        OBVIOUS
    <2> HIDE DEF part, W
    <2>3. part[OwnerAt(s)] \in CleanRows(W)
        BY <1>2, <2>1
    <2>4. /\ part[OwnerAt(s)][SlotAt(s)] \in Slots
          /\ part[OwnerAt(s)][SlotAt(s)] = NoEdge \/ IsMatch(part[OwnerAt(s)][SlotAt(s)])
        BY <2>1, <2>3 DEF CleanRows
    <2> QED
        BY <1>4, <2>1, <2>2, <2>4, CleanSlotMatches
<1> HIDE DEF part, W
<1>6. row = [s \in 1 .. OwnerCount * W |-> part[BlockAt(W, s)][PlaceAt(W, s)]]
    BY <1>1, <1>5 DEF FullRead
<1> HIDE DEF row
<1>7. row \in CleanRows(OwnerCount * W) /\ Lists(row, Facts(e, r))
    <2>1. PartsList(W, part, e, r) /\ row = JoinedParts(W, part)
        BY <1>2, <1>6 DEF PartsList, JoinedParts
    <2> QED
        BY <1>1, <2>1, JoinedLists
<1>8. ASSUME NEW o \in Owners
      PROVE  OwnerPart(row, o) = part[o]
    <2>1. \A s \in 1 .. W :
            /\ (o - 1) * W + s \in 1 .. OwnerCount * W
            /\ BlockAt(W, (o - 1) * W + s) = o /\ PlaceAt(W, (o - 1) * W + s) = s
        BY <1>1, <1>3 DEF IsGrid
    <2>2. \A s \in 1 .. W : row[(o - 1) * W + s] = part[o][s]
        BY <1>6, <2>1
    <2>3. part[o] = [s \in 1 .. W |-> part[o][s]]
        BY <1>2 DEF CleanRows
    <2> QED
        BY <2>2, <2>3 DEF OwnerPart, W
<1>9. \A s \in 1 .. SecondWidth : Answered(OwnerAt(s), e, r)[SlotAt(s)] = row[s]
    BY <1>1, <1>5, <1>6
<1> QED
    BY <1>1, <1>2, <1>7, <1>8, <1>9 DEF row, W

(* The bounds checked at preparation bound what a key reads.               *)
LEMMA FactsBounded ==
    ASSUME PrepInv, Ready, NEW e \in Nat, NEW r \in Nat
    PROVE  /\ FrontierHolds => Cardinality(Facts(e, r)) <= GlobalFrontier
           /\ circuit.frontier = "owner" => \A o \in Owners :
                 Cardinality({o} \X KeyRows(o, e, r)) <= ShareOf(circuit)
<1> DEFINE k == DirectoryIndex(e, r)
<1>1. /\ edges \in [Owners -> EdgeFiles] /\ circuit \in Circuits
      /\ \A o \in Owners : \A n \in DOMAIN edges[o] : ValidEdge(edges[o][n])
    BY FilesAdmitted DEF PrepInv, FilesPacked
<1>2. KeyOk(e, r) => e \in 1 .. EntityCount - 1 /\ r \in 1 .. RelationCount /\ k \in AllKeys
    <2>1. KeyOk(e, r) => e \in 1 .. EntityCount - 1 /\ r \in 1 .. RelationCount
        BY Sizes DEF KeyOk
    <2> QED
        BY <2>1, IndexInDirectory
<1>3. \A o \in Owners : KeyRows(o, e, r) = IF KeyOk(e, r) THEN Rows(o, k) ELSE {}
    BY <1>1, RowsOfKey
<1> HIDE DEF k
<1>4. ASSUME FrontierHolds
      PROVE  Cardinality(Facts(e, r)) <= GlobalFrontier
    <2>1. CASE KeyOk(e, r)
        <3>1. Facts(e, r) = KeyFacts(OwnerCount, k)
            BY <1>3, <2>1, FactsByOwner DEF KeyFacts, Owners
        <3> QED
            BY <1>2, <1>4, <2>1, <3>1 DEF FrontierHolds
    <2>2. CASE ~KeyOk(e, r)
        <3>1. Facts(e, r) = {}
            BY <1>3, <2>2, FactsByOwner
        <3> QED
            BY <3>1, FS_EmptySet, Constants
    <2> QED
        BY <2>1, <2>2
<1>5. ASSUME circuit.frontier = "owner", NEW o \in Owners
      PROVE  Cardinality({o} \X KeyRows(o, e, r)) <= ShareOf(circuit)
    <2>1. /\ circuit.reads \in {"pages", "scan"} /\ ShareOf(circuit) \in Nat
          /\ circuit.reads = "pages" => ShareOf(circuit) = FrontierPerOwner
        <3>1. circuit.reads \in {"stacks", "records", "pages", "scan", "baseline"}
            BY <1>1, CircuitAssumption
        <3>2. circuit.reads \notin {"stacks", "records", "baseline"}
            BY <1>1, <1>5, CircuitAssumption
        <3>3. circuit.reads = "pages" => ShareOf(circuit) = FrontierPerOwner
            BY <1>5 DEF ShareOf
        <3> QED
            BY <1>1, <3>1, <3>2, <3>3, WidthsNatural
    <2>2. KeyRows(o, e, r) \in SUBSET DOMAIN edges[o]
        BY DEF KeyRows
    <2>3. IsFiniteSet(KeyRows(o, e, r)) /\ Cardinality(KeyRows(o, e, r)) \in Nat
        BY <1>1, <2>2, FileRowsFinite
    <2>4. IsFiniteSet({o}) /\ Cardinality({o}) = 1
        BY FS_Singleton
    <2>5. Cardinality({o} \X KeyRows(o, e, r)) = Cardinality({o}) * Cardinality(KeyRows(o, e, r))
        BY <2>3, <2>4, FS_Product
    <2>6. Cardinality({o} \X KeyRows(o, e, r)) = Cardinality(KeyRows(o, e, r))
        BY <2>3, <2>4, <2>5
    <2>7. Cardinality(KeyRows(o, e, r)) <= ShareOf(circuit)
        <3>1. CASE ~KeyOk(e, r)
            BY <1>3, <2>1, <3>1, FS_EmptySet
        <3>2. CASE KeyOk(e, r)
            <4>1. Cardinality(KeyRows(o, e, r)) = Degree(o, k) /\ Degree(o, k) \in Nat
                BY <1>1, <1>3, <3>2, RowsFinite DEF Degree
            <4>2. CASE circuit.reads = "pages"
                <5>1. Admitted(o)
                    BY <4>2, FilesAdmitted DEF Paged
                <5>2. k \notin Keys(o) => Degree(o, k) = 0
                    BY <1>1, RowsFinite
                <5> QED
                    BY <2>1, <4>1, <4>2, <5>1, <5>2 DEF Admitted
            <4>3. CASE circuit.reads = "scan"
                <5>1. PackedFile(o)
                    BY <4>3, FilesAdmitted DEF Paged
                <5>2. FitsBlocks(o)
                    BY <4>3, <5>1 DEF PackedFile, ReadsBlocks
                <5> QED
                    BY <1>2, <3>2, <4>1, <5>2 DEF FitsBlocks, k
            <4> QED
                BY <2>1, <4>2, <4>3
        <3> QED
            BY <3>1, <3>2
    <2> QED
        BY <2>6, <2>7
<1> QED
    BY <1>4, <1>5

LEMMA CompactedTyped ==
    ASSUME NEW W \in Nat, NEW row \in [1 .. W -> Slots], NEW width \in Nat
    PROVE  Compacted(row, width) \in [1 .. width -> Slots]
<1> DEFINE M == Matches(row)
<1>1. M \subseteq 1 .. W
    BY DEF Matches
<1> HIDE DEF M
<1>2. M \in SUBSET Nat /\ IsFiniteSet(M)
    <2>1. IsFiniteSet(1 .. W)
        BY FS_Interval
    <2>2. IsFiniteSet(M)
        BY <1>1, <2>1, FS_Subset
    <2> QED
        BY <1>1, <2>2
<1>3. Cardinality(M) \in Nat /\ \A n \in 1 .. Cardinality(M) : Nth(M, n) \in M
    BY <1>2, NthElement
<1>4. \A f \in 1 .. width : (IF f <= Cardinality(M) THEN row[Nth(M, f)] ELSE NoEdge) \in Slots
    <2>1. ASSUME NEW f \in 1 .. width, f <= Cardinality(M)
          PROVE  row[Nth(M, f)] \in Slots
        <3>1. f \in 1 .. Cardinality(M)
            BY <1>3, <2>1
        <3>2. Nth(M, f) \in 1 .. W
            BY <1>1, <1>3, <3>1
        <3> QED
            BY <3>2
    <2> QED
        BY <2>1, NoEdgeIsSlot
<1> QED
    BY <1>4 DEF Compacted, M

\* Of the circuits' frontiers only one that holds the federation's bound is complete.
FrontierFits == circuit.frontier = "global" => FrontierHolds

LEMMA FrontierTyped ==
    ASSUME circuit \in Circuits, NEW row \in [1 .. SecondWidth -> Slots]
    PROVE  FrontierFrom(row) \in [Frontier -> Slots]
<1>1. /\ OwnerWidth \in Nat \ {0} /\ SecondWidth \in Nat \ {0} /\ SecondWidth = OwnerCount * OwnerWidth
      /\ ShareOf(circuit) \in Nat \ {0} /\ Owners = 1 .. OwnerCount
    BY WidthsNatural DEF Owners
<1>2. circuit.frontier \in {"global", "owner", "full"}
    BY CircuitAssumption
<1>3. CASE circuit.frontier = "global"
    <2>1. Frontier = 1 .. GlobalFrontier /\ FrontierFrom(row) = Compacted(row, GlobalFrontier)
        BY <1>3 DEF Frontier, FrontierSlots, FrontierOf, FrontierFrom
    <2> QED
        BY <1>1, <2>1, CompactedTyped, Constants
<1>4. CASE circuit.frontier = "full"
    <2>1. FrontierFrom(row) = row
        BY <1>4 DEF FrontierFrom
    <2>2. ShareOf(circuit) = OwnerWidth
        BY <1>4 DEF ShareOf, OwnerWidth
    <2>3. Frontier = 1 .. SecondWidth
        BY <1>1, <1>4, <2>2 DEF Frontier, FrontierSlots, FrontierOf
    <2> QED
        BY <2>1, <2>3
<1>5. CASE circuit.frontier = "owner"
    <2> DEFINE W == ShareOf(circuit)
               part(o) == Compacted(OwnerPart(row, o), W)
    <2>1. /\ Frontier = 1 .. OwnerCount * W
          /\ FrontierFrom(row) = [f \in Frontier |-> part(BlockAt(W, f))[PlaceAt(W, f)]]
        BY <1>5 DEF Frontier, FrontierSlots, FrontierOf, FrontierFrom, BlockAt, PlaceAt
    <2>2. IsGrid(OwnerCount, W) /\ IsGrid(OwnerCount, OwnerWidth)
        BY <1>1, Grids, Constants
    <2>3. ASSUME NEW o \in Owners
          PROVE  part(o) \in [1 .. W -> Slots]
        <3>1. OwnerPart(row, o) \in [1 .. OwnerWidth -> Slots]
            <4>1. \A s \in 1 .. OwnerWidth : (o - 1) * OwnerWidth + s \in 1 .. SecondWidth
                BY <1>1, <2>2 DEF IsGrid
            <4> QED
                BY <4>1 DEF OwnerPart
        <3> QED
            BY <1>1, <3>1, CompactedTyped
    <2> HIDE DEF part, W
    <2>4. \A f \in Frontier : BlockAt(W, f) \in Owners /\ PlaceAt(W, f) \in 1 .. W
        BY <1>1, <2>1, <2>2 DEF IsGrid
    <2>5. \A f \in Frontier : part(BlockAt(W, f))[PlaceAt(W, f)] \in Slots
        BY <2>3, <2>4
    <2> QED
        BY <2>1, <2>5
<1> QED
    BY <1>2, <1>3, <1>4, <1>5

(* Within the bound the frontier lists every edge of the first hop.        *)
LEMMA FrontierLists ==
    ASSUME PrepInv, Ready, FrontierFits, NEW e \in Nat, NEW r \in Nat
    PROVE  /\ FrontierFrom(FullRead(e, r)) \in CleanRows(FrontierSlots)
           /\ Lists(FrontierFrom(FullRead(e, r)), Facts(e, r))
<1> DEFINE row == FullRead(e, r)
           facts == Facts(e, r)
<1>1. /\ edges \in [Owners -> EdgeFiles] /\ circuit \in Circuits
      /\ OwnerWidth \in Nat \ {0} /\ SecondWidth \in Nat \ {0} /\ SecondWidth = OwnerCount * OwnerWidth
      /\ ShareOf(circuit) \in Nat \ {0} /\ Owners = 1 .. OwnerCount
    BY WidthsNatural DEF PrepInv, FilesPacked, Owners
<1>2. /\ row \in CleanRows(SecondWidth) /\ Lists(row, facts) /\ facts \in SUBSET AllFacts
      /\ \A o \in Owners : /\ OwnerPart(row, o) \in CleanRows(OwnerWidth)
                           /\ Lists(OwnerPart(row, o), {o} \X KeyRows(o, e, r))
    BY FullReadLists, FactsByOwner
<1> HIDE DEF row
<1>3. circuit.frontier \in {"global", "owner", "full"}
    BY <1>1, CircuitAssumption
<1>4. CASE circuit.frontier = "global"
    <2>1. FrontierSlots = GlobalFrontier /\ FrontierFrom(row) = Compacted(row, GlobalFrontier)
        BY <1>4 DEF FrontierSlots, FrontierOf, FrontierFrom
    <2>2. Cardinality(facts) <= GlobalFrontier /\ GlobalFrontier \in Nat
        BY <1>4, FactsBounded, Constants DEF FrontierFits
    <2> HIDE DEF facts
    <2>3. /\ Compacted(row, GlobalFrontier) \in CleanRows(GlobalFrontier)
          /\ Lists(Compacted(row, GlobalFrontier), facts)
        BY <1>1, <1>2, <2>2, CompactedLists
    <2> QED
        BY <2>1, <2>3 DEF row, facts
<1>5. CASE circuit.frontier = "full"
    <2>1. FrontierFrom(row) = row /\ ShareOf(circuit) = OwnerWidth
        BY <1>5 DEF FrontierFrom, ShareOf, OwnerWidth
    <2>2. FrontierSlots = SecondWidth
        BY <1>1, <1>5, <2>1 DEF FrontierSlots, FrontierOf
    <2> QED
        BY <1>2, <2>1, <2>2 DEF row
<1>6. CASE circuit.frontier = "owner"
    <2> DEFINE W == ShareOf(circuit)
               part == [o \in Owners |-> Compacted(OwnerPart(row, o), W)]
    <2>1. FrontierSlots = OwnerCount * W /\ Frontier = 1 .. OwnerCount * W
        BY <1>6 DEF FrontierSlots, FrontierOf, Frontier
    <2>2. FrontierFrom(row) = [f \in 1 .. OwnerCount * W |->
                                  Compacted(OwnerPart(row, BlockAt(W, f)), W)[PlaceAt(W, f)]]
        BY <1>6, <2>1 DEF FrontierFrom, BlockAt, PlaceAt
    <2>3. IsGrid(OwnerCount, W)
        BY <1>1, Grids, Constants
    <2>4. \A f \in 1 .. OwnerCount * W : BlockAt(W, f) \in Owners
        BY <1>1, <2>3 DEF IsGrid
    <2>5. FrontierFrom(row) = JoinedParts(W, part)
        BY <2>2, <2>4 DEF JoinedParts
    <2>6. ASSUME NEW o \in Owners
          PROVE  part[o] \in CleanRows(W) /\ Lists(part[o], {o} \X KeyRows(o, e, r))
        <3> DEFINE own == {o} \X KeyRows(o, e, r)
        <3>1. Cardinality(own) <= W
            BY <1>6, FactsBounded
        <3>2. own \in SUBSET AllFacts
            BY DEF KeyRows, AllFacts
        <3>3. Lists(OwnerPart(row, o), own) /\ OwnerPart(row, o) \in CleanRows(OwnerWidth)
            BY <1>2
        <3>4. part[o] = Compacted(OwnerPart(row, o), W) /\ W \in Nat /\ OwnerWidth \in Nat
            BY <1>1
        <3> HIDE DEF own, W, part
        <3>5. /\ Compacted(OwnerPart(row, o), W) \in CleanRows(W)
              /\ Lists(Compacted(OwnerPart(row, o), W), own)
            BY <1>1, <3>1, <3>2, <3>3, <3>4, CompactedLists
        <3> QED
            BY <3>4, <3>5 DEF own
    <2>7. W \in Nat \ {0}
        BY <1>1
    <2> HIDE DEF W, part
    <2>8. PartsList(W, part, e, r)
        BY <2>6 DEF PartsList
    <2>9. /\ JoinedParts(W, part) \in CleanRows(OwnerCount * W)
          /\ Lists(JoinedParts(W, part), Facts(e, r))
        BY <1>1, <2>7, <2>8, JoinedLists
    <2> QED
        BY <2>1, <2>5, <2>9 DEF row
<1> QED
    BY <1>3, <1>4, <1>5, <1>6

-----------------------------------------------------------------------------
(* What the circuit holds of its reads while it runs.                      *)

Hop1Of(q) == FullRead(queries[q].source, queries[q].relation1)
Hop2Of(q, f) == FullRead(frontier[q][f].target, queries[q].relation2)

\* All of the query is read.
IsRead(q) ==
    \/ phase = "hop1" /\ circuit.reads = "baseline" /\ q < step.query
    \/ phase = "rank" /\ (circuit.reads = "baseline" => q <= step.query)
    \/ phase = "done"

\* Slot s of the first hop is read, the frontier is compacted, and slot s of
\* the second hop of frontier entry f is read.
HasHop1(q, s) ==
    \/ IsRead(q)
    \/ phase \in {"compact", "hop2"}
    \/ /\ phase = "hop1" /\ Stacked
       /\ q < step.query \/ (q = step.query /\ OwnerAt(s) < step.owner)

IsCompacted(q) ==
    \/ IsRead(q)
    \/ phase = "hop2"
    \/ phase = "compact" /\ Stacked /\ q < step.query

HasHop2(q, f, s) ==
    \/ IsRead(q)
    \/ /\ phase = "hop2" /\ Stacked
       /\ \/ q < step.query
          \/ q = step.query /\ f < step.entry
          \/ q = step.query /\ f = step.entry /\ OwnerAt(s) < step.owner

SettingsInv ==
    /\ circuit \in Circuits
    /\ deduplicate \in Deduplications
    /\ queries \in [Queries -> QuerySpace]

ReadShape ==
    /\ hop1 \in [Queries -> [1 .. SecondWidth -> Slots]]
    /\ frontier \in [Queries -> [Frontier -> Slots]]
    /\ hop2 \in [Queries -> [Frontier -> [1 .. SecondWidth -> Slots]]]

Hop1Right(q) == \A s \in 1 .. SecondWidth : HasHop1(q, s) => hop1[q][s] = Hop1Of(q)[s]
FrontierRight(q) == IsCompacted(q) => frontier[q] = FrontierFrom(hop1[q])
Hop2Right(q) ==
    \A f \in Frontier, s \in 1 .. SecondWidth :
        HasHop2(q, f, s) => hop2[q][f][s] = Hop2Of(q, f)[s]

NothingSelected == [c \in Candidates |-> 0]
Unranked(q) == ~IsRead(q) => output[q] = <<>> /\ selected[q] = NothingSelected

\* Every part that is read is what a full read of its key answers.
DataInv ==
    /\ ReadShape
    /\ \A q \in Queries : Hop1Right(q)
    /\ \A q \in Queries : FrontierRight(q)
    /\ \A q \in Queries : Hop2Right(q)
    /\ \A q \in Queries : Unranked(q)

\* What the steps of the circuits start from.
Running == PrepInv /\ LoopsInRange /\ SettingsInv

LEMMA CircuitShapes ==
    ASSUME circuit \in Circuits
    PROVE  /\ circuit.reads \in {"stacks", "records", "pages", "scan", "baseline"}
           /\ Stacked => circuit.frontier = "global" /\ FrontierSlots = GlobalFrontier
           /\ circuit.reads = "baseline" => circuit.frontier = "full"
           /\ Owners = 1 .. OwnerCount
           /\ \A s \in 1 .. SecondWidth : OwnerAt(s) \in Owners /\ SlotAt(s) \in 1 .. OwnerWidth
<1>1. circuit.reads \in {"stacks", "records", "pages", "scan", "baseline"}
    BY CircuitAssumption
<1>2. Stacked => circuit.frontier = "global"
    BY CircuitAssumption DEF Stacked
<1>3. Stacked => FrontierSlots = GlobalFrontier
    BY <1>2 DEF FrontierSlots, FrontierOf
<1>4. circuit.reads = "baseline" => circuit.frontier = "full"
    BY CircuitAssumption
<1>5. ASSUME NEW s \in 1 .. SecondWidth
      PROVE  OwnerAt(s) \in Owners /\ SlotAt(s) \in 1 .. OwnerWidth
    <2>1. OwnerWidth \in Nat \ {0} /\ SecondWidth = OwnerCount * OwnerWidth
        BY WidthsNatural
    <2>2. IsGrid(OwnerCount, OwnerWidth)
        BY <2>1, Grids, Constants
    <2>3. BlockAt(OwnerWidth, s) \in 1 .. OwnerCount /\ PlaceAt(OwnerWidth, s) \in 1 .. OwnerWidth
        BY <2>1, <2>2 DEF IsGrid
    <2> QED
        BY <2>3 DEF OwnerAt, SlotAt, BlockAt, PlaceAt, Owners
<1> QED
    BY <1>1, <1>2, <1>3, <1>4, <1>5 DEF Owners

(* While the files stay, so does what a read answers.                      *)
LEMMA ReadsKeep ==
    ASSUME UNCHANGED <<layoutVars, settingVars, blocks>>
    PROVE  /\ \A e, r : FullRead(e, r)' = FullRead(e, r)
           /\ \A row : FrontierFrom(row)' = FrontierFrom(row)
           /\ \A s : OwnerAt(s)' = OwnerAt(s)
           /\ \A q : Hop1Of(q)' = Hop1Of(q)
           /\ SecondWidth' = SecondWidth /\ Frontier' = Frontier
           /\ NothingSelected' = NothingSelected /\ (Stacked' <=> Stacked)
           /\ circuit' = circuit /\ queries' = queries /\ deduplicate' = deduplicate
<1>1. /\ circuit' = circuit /\ queries' = queries /\ blocks' = blocks /\ deduplicate' = deduplicate
      /\ directory' = directory /\ pool' = pool
    BY DEF layoutVars, settingVars
<1>2. OwnerWidth' = OwnerWidth /\ SecondWidth' = SecondWidth
    BY <1>1 DEF OwnerWidth, SecondWidth
<1>3. Frontier' = Frontier
    BY <1>1 DEF Frontier, FrontierSlots
<1>4. \A s : OwnerAt(s)' = OwnerAt(s) /\ SlotAt(s)' = SlotAt(s)
    BY <1>2 DEF OwnerAt, SlotAt
<1>5. \A o, e, r : Answered(o, e, r)' = Answered(o, e, r)
    <2>1. \A o, e, r : Scanned(o, e, r)' = Scanned(o, e, r)
        BY <1>1 DEF Scanned
    <2>2. \A o, e, r : Record(o, e, r)' = Record(o, e, r)
        BY <1>1 DEF Record
    <2>3. \A o, e, r : Window(o, e, r)' = Window(o, e, r)
        BY <1>1 DEF Window
    <2> QED
        BY <1>1, <2>1, <2>2, <2>3 DEF Answered
<1>6. \A e, r : FullRead(e, r)' = FullRead(e, r)
    BY <1>2, <1>4, <1>5 DEF FullRead
<1>7. \A row : FrontierFrom(row)' = FrontierFrom(row)
    <2>1. \A row, o : OwnerPart(row, o)' = OwnerPart(row, o)
        BY <1>2 DEF OwnerPart
    <2>2. \A row, w : Compacted(row, w)' = Compacted(row, w)
        BY DEF Compacted
    <2> QED
        BY <1>1, <1>3, <2>1, <2>2 DEF FrontierFrom
<1>8. NothingSelected' = NothingSelected
    BY <1>2, <1>3 DEF NothingSelected, Candidates
<1> QED
    BY <1>1, <1>2, <1>3, <1>4, <1>6, <1>7, <1>8 DEF Hop1Of, Stacked

(* The rows that a circuit reads are rows of slots.                        *)
LEMMA ReadsTyped ==
    ASSUME Running, Ready, NEW q \in Queries
    PROVE  /\ Hop1Of(q) \in [1 .. SecondWidth -> Slots]
           /\ queries[q].relation2 \in Nat
           /\ \A e \in Nat : FullRead(e, queries[q].relation2) \in [1 .. SecondWidth -> Slots]
           /\ queries[q].source \in Nat /\ queries[q].relation1 \in Nat
<1>1. queries[q] \in QuerySpace
    BY DEF Running, SettingsInv
<1>2. queries[q].source \in Nat /\ queries[q].relation1 \in Nat /\ queries[q].relation2 \in Nat
    BY <1>1, QueryAssumption
<1>3. \A e, r \in Nat : FullRead(e, r) \in [1 .. SecondWidth -> Slots]
    BY FullReadLists DEF Running, CleanRows
<1> QED
    BY <1>2, <1>3 DEF Hop1Of

LEMMA DataInit == Init => DataInv /\ SettingsInv
<1> SUFFICES ASSUME Init PROVE DataInv /\ SettingsInv
    OBVIOUS
<1>1. phase = "build" /\ circuit \in Circuits
    BY DEF Init, LayoutInit
<1>2. NoEdges \in [1 .. SecondWidth -> Slots]
    BY NoEdgeIsSlot DEF NoEdges
<1>3. ReadShape
    BY <1>2, NoEdgeIsSlot DEF Init, ReadShape
<1>4. \A q \in Queries : /\ ~IsRead(q) /\ ~IsCompacted(q)
                         /\ \A f, s : ~HasHop1(q, s) /\ ~HasHop2(q, f, s)
    BY <1>1 DEF IsRead, IsCompacted, HasHop1, HasHop2
<1>5. \A q \in Queries : output[q] = <<>> /\ selected[q] = NothingSelected
    BY DEF Init, NothingSelected
<1>6. \A q \in Queries : Hop1Right(q) /\ FrontierRight(q) /\ Hop2Right(q) /\ Unranked(q)
    BY <1>4, <1>5 DEF Hop1Right, FrontierRight, Hop2Right, Unranked
<1> QED
    BY <1>1, <1>3, <1>6 DEF DataInv, SettingsInv, Init

(* Nothing is read during preparation.                                     *)
LEMMA DataWaits ==
    ASSUME DataInv, circuit \in Circuits, phase \in Before, phase' \in Before \cup {"hop1"},
           step = FirstStep, UNCHANGED <<settingVars, step, readVars, rankVars>>
    PROVE  DataInv'
<1>1. /\ circuit' = circuit /\ step' = FirstStep /\ hop1' = hop1 /\ frontier' = frontier
      /\ hop2' = hop2 /\ output' = output /\ selected' = selected
    BY DEF settingVars, readVars, rankVars
<1>2. /\ SecondWidth' = SecondWidth /\ Frontier' = Frontier /\ NothingSelected' = NothingSelected
      /\ \A s : OwnerAt(s)' = OwnerAt(s)
    BY <1>1 DEF SecondWidth, OwnerWidth, Frontier, FrontierSlots, NothingSelected, Candidates, OwnerAt
<1>3. /\ ReadShape /\ \A q \in Queries : ~IsRead(q) /\ output[q] = <<>> /\ selected[q] = NothingSelected
    BY DEF DataInv, IsRead, Before, Unranked
<1>4. /\ \A s \in 1 .. SecondWidth : ~(OwnerAt(s) < 1)
      /\ \A q \in Queries : ~(q < 1)
    <2>1. \A s \in 1 .. SecondWidth : OwnerAt(s) \in 1 .. OwnerCount
        BY CircuitShapes
    <2> QED
        BY <2>1, Constants DEF Queries
<1>5. \A q \in Queries : /\ ~IsRead(q)' /\ ~IsCompacted(q)'
                         /\ \A s \in 1 .. SecondWidth : ~HasHop1(q, s)'
                         /\ \A f, s : ~HasHop2(q, f, s)'
    <2>1. phase' \notin {"rank", "done", "compact", "hop2"}
        BY DEF Before
    <2>2. \A q \in Queries : ~IsRead(q)'
        BY <1>1, <1>4, <2>1 DEF IsRead, FirstStep
    <2>3. \A q \in Queries : \A s \in 1 .. SecondWidth : ~HasHop1(q, s)'
        BY <1>1, <1>2, <1>4, <2>1, <2>2 DEF HasHop1, FirstStep
    <2> QED
        BY <2>1, <2>2, <2>3 DEF IsCompacted, HasHop2
<1>6. ReadShape'
    BY <1>1, <1>2, <1>3 DEF ReadShape
<1>7. \A q \in Queries : Hop1Right(q)' /\ FrontierRight(q)' /\ Hop2Right(q)' /\ Unranked(q)'
    BY <1>1, <1>2, <1>3, <1>5 DEF Hop1Right, FrontierRight, Hop2Right, Unranked
<1> QED
    BY <1>6, <1>7 DEF DataInv

(* What a stack answers for one owner is a part of the full read.          *)
LEMMA WithReadPart ==
    ASSUME Running, Ready, NEW e \in Nat, NEW r \in Nat, NEW o,
           NEW row \in [1 .. SecondWidth -> Slots]
    PROVE  /\ WithRead(row, o, e, r) \in [1 .. SecondWidth -> Slots]
           /\ \A s \in 1 .. SecondWidth :
                 WithRead(row, o, e, r)[s] = IF OwnerAt(s) = o THEN FullRead(e, r)[s] ELSE row[s]
<1>1. FullRead(e, r) \in [1 .. SecondWidth -> Slots]
    BY FullReadLists DEF Running, CleanRows
<1>2. \A s \in 1 .. SecondWidth :
        FullRead(e, r)[s] = Match(Answered(OwnerAt(s), e, r)[SlotAt(s)])
    BY DEF FullRead
<1>3. \A s \in 1 .. SecondWidth :
        OwnerAt(s) = o => Match(Answered(o, e, r)[SlotAt(s)]) = FullRead(e, r)[s]
    BY <1>2
<1>4. WithRead(row, o, e, r) = [s \in 1 .. SecondWidth |->
                                  IF OwnerAt(s) = o THEN FullRead(e, r)[s] ELSE row[s]]
    BY <1>3 DEF WithRead
<1> QED
    BY <1>1, <1>4

(* A stack circuit reads the first hop of one query from one owner.        *)
LEMMA DataReadHop1 ==
    ASSUME Running, DataInv, ReadHop1
    PROVE  DataInv'
<1> DEFINE q == step.query
           o == step.owner
           new == WithRead(hop1[q], o, queries[q].source, queries[q].relation1)
<1>1. /\ Stacked /\ phase = "hop1" /\ NextStep(1, OwnerCount, "compact")
      /\ UNCHANGED <<layoutVars, settingVars, blocks>>
      /\ frontier' = frontier /\ hop2' = hop2 /\ output' = output /\ selected' = selected
      /\ hop1' = [hop1 EXCEPT ![q] = new]
    BY DEF ReadHop1, rankVars
<1>2. /\ step \in [query : Queries, entry : 1 .. 1, owner : 1 .. OwnerCount] /\ Ready
      /\ circuit \in Circuits /\ circuit.reads # "baseline" /\ q \in Queries /\ q \in Nat
    BY <1>1 DEF Running, LoopsInRange, LastEntry, LastOwner, Ready, Before, PrepInv, Stacked, Queries
<1>3. \/ phase' = "hop1" /\ step' = [query |-> q, entry |-> 1, owner |-> o + 1]
      \/ phase' = "hop1" /\ step' = [query |-> q + 1, entry |-> 1, owner |-> 1] /\ o = OwnerCount
      \/ phase' = "compact" /\ step' = [query |-> 1, entry |-> 1, owner |-> 1]
         /\ o = OwnerCount /\ q = QueryCount
    BY <1>1, <1>2, NextStepEffect, Constants DEF Running
<1>4. /\ \A e, r : FullRead(e, r)' = FullRead(e, r)
      /\ \A s : OwnerAt(s)' = OwnerAt(s)
      /\ \A p : Hop1Of(p)' = Hop1Of(p)
      /\ SecondWidth' = SecondWidth /\ Frontier' = Frontier
      /\ NothingSelected' = NothingSelected /\ (Stacked' <=> Stacked)
      /\ circuit' = circuit
    BY <1>1, ReadsKeep
<1>5. /\ hop1 \in [Queries -> [1 .. SecondWidth -> Slots]]
      /\ new \in [1 .. SecondWidth -> Slots]
      /\ \A s \in 1 .. SecondWidth : new[s] = IF OwnerAt(s) = o THEN Hop1Of(q)[s] ELSE hop1[q][s]
    <2>1. hop1 \in [Queries -> [1 .. SecondWidth -> Slots]]
        BY DEF DataInv, ReadShape
    <2>2. queries[q].source \in Nat /\ queries[q].relation1 \in Nat
        BY <1>2, ReadsTyped
    <2>3. hop1[q] \in [1 .. SecondWidth -> Slots]
        BY <1>2, <2>1
    <2> DEFINE e == queries[q].source
               r == queries[q].relation1
    <2>4. e \in Nat /\ r \in Nat /\ new = WithRead(hop1[q], o, e, r) /\ Hop1Of(q) = FullRead(e, r)
        BY <2>2 DEF Hop1Of
    <2> HIDE DEF q, o, e, r, new
    <2>5. /\ WithRead(hop1[q], o, e, r) \in [1 .. SecondWidth -> Slots]
          /\ \A s \in 1 .. SecondWidth : WithRead(hop1[q], o, e, r)[s]
                = IF OwnerAt(s) = o THEN FullRead(e, r)[s] ELSE hop1[q][s]
        BY <1>2, <2>3, <2>4, WithReadPart
    <2> QED
        BY <2>1, <2>4, <2>5
<1>6. \A s \in 1 .. SecondWidth : OwnerAt(s) \in 1 .. OwnerCount
    BY <1>2, CircuitShapes
<1> HIDE DEF q, o, new
<1>7. ReadShape'
    BY <1>1, <1>2, <1>4, <1>5 DEF DataInv, ReadShape
<1>8. ASSUME NEW p \in Queries, NEW s \in 1 .. SecondWidth, HasHop1(p, s)'
      PROVE  HasHop1(p, s) \/ (p = q /\ OwnerAt(s) = o)
    <2>1. p \in Nat /\ p <= QueryCount /\ OwnerAt(s) \in Nat /\ OwnerAt(s) <= OwnerCount
          /\ OwnerCount \in Nat /\ QueryCount \in Nat /\ o \in Nat /\ p \in 1 .. QueryCount
        BY <1>2, <1>6, Constants DEF Queries, o
    <2>2. HasHop1(p, s) <=> p < q \/ (p = q /\ OwnerAt(s) < o)
        BY <1>1, <1>2 DEF HasHop1, IsRead, q, o
    <2>3. CASE phase' = "hop1" /\ step' = [query |-> q, entry |-> 1, owner |-> o + 1]
        <3>1. p < q \/ (p = q /\ OwnerAt(s) < o + 1)
            BY <1>1, <1>2, <1>4, <1>8, <2>3 DEF HasHop1, IsRead
        <3> QED
            BY <1>2, <2>1, <2>2, <3>1
    <2>4. CASE phase' = "hop1" /\ step' = [query |-> q + 1, entry |-> 1, owner |-> 1] /\ o = OwnerCount
        <3>1. p < q + 1 \/ (p = q + 1 /\ OwnerAt(s) < 1)
            BY <1>1, <1>2, <1>4, <1>8, <2>4 DEF HasHop1, IsRead
        <3> QED
            BY <1>2, <1>6, <2>1, <2>2, <2>4, <3>1
    <2>5. CASE phase' = "compact" /\ o = OwnerCount /\ q = QueryCount
        BY <1>2, <2>1, <2>2, <2>5
    <2> QED
        BY <1>3, <2>3, <2>4, <2>5
<1>9. \A p \in Queries : Hop1Right(p)'
    <2>1. ASSUME NEW p \in Queries, NEW s \in 1 .. SecondWidth, HasHop1(p, s)'
          PROVE  hop1'[p][s] = Hop1Of(p)[s]
        <3>1. CASE p = q /\ OwnerAt(s) = o
            BY <1>1, <1>2, <1>5, <3>1
        <3>2. CASE ~(p = q /\ OwnerAt(s) = o)
            <4>1. hop1[p][s] = Hop1Of(p)[s]
                BY <1>8, <2>1, <3>2 DEF DataInv, Hop1Right
            <4>2. hop1'[p][s] = hop1[p][s]
                BY <1>1, <1>5, <3>2
            <4> QED
                BY <4>1, <4>2
        <3> QED
            BY <3>1, <3>2
    <2> QED
        BY <1>4, <2>1 DEF Hop1Right
<1>10. \A p \in Queries : /\ ~IsRead(p) /\ ~IsRead(p)' /\ ~IsCompacted(p)'
                          /\ \A f, s : ~HasHop2(p, f, s)'
    <2>1. \A p \in Queries : ~IsRead(p) /\ ~IsRead(p)'
        BY <1>1, <1>2, <1>3, <1>4 DEF IsRead
    <2>2. \A p \in Queries : ~(p < 1)
        BY DEF Queries
    <2> QED
        BY <1>3, <2>1, <2>2 DEF IsCompacted, HasHop2
<1>11. \A p \in Queries : FrontierRight(p)' /\ Hop2Right(p)' /\ Unranked(p)'
    BY <1>1, <1>4, <1>10 DEF FrontierRight, Hop2Right, Unranked, DataInv
<1> QED
    BY <1>7, <1>9, <1>11 DEF DataInv

(* A stack circuit compacts the matches of one query.                      *)
LEMMA DataCompact ==
    ASSUME Running, DataInv, Compact
    PROVE  DataInv'
<1> DEFINE q == step.query
<1>1. /\ Stacked /\ phase = "compact" /\ NextStep(1, 1, "hop2")
      /\ UNCHANGED <<layoutVars, settingVars, blocks>>
      /\ hop1' = hop1 /\ hop2' = hop2 /\ output' = output /\ selected' = selected
      /\ frontier' = [frontier EXCEPT ![q] = FrontierFrom(hop1[q])]
    BY DEF Compact, rankVars
<1>2. /\ step \in [query : Queries, entry : 1 .. 1, owner : 1 .. 1]
      /\ circuit \in Circuits /\ circuit.reads # "baseline" /\ q \in Queries /\ q \in Nat
    BY <1>1 DEF Running, LoopsInRange, LastEntry, LastOwner, PrepInv, Stacked, Queries
<1>3. \/ phase' = "compact" /\ step' = [query |-> q + 1, entry |-> 1, owner |-> 1]
      \/ phase' = "hop2" /\ step' = [query |-> 1, entry |-> 1, owner |-> 1] /\ q = QueryCount
    BY <1>1, <1>2, NextStepEffect, Constants DEF Running
<1>4. /\ \A row : FrontierFrom(row)' = FrontierFrom(row)
      /\ \A s : OwnerAt(s)' = OwnerAt(s)
      /\ \A p : Hop1Of(p)' = Hop1Of(p)
      /\ SecondWidth' = SecondWidth /\ Frontier' = Frontier
      /\ NothingSelected' = NothingSelected /\ (Stacked' <=> Stacked)
      /\ circuit' = circuit
    BY <1>1, ReadsKeep
<1>5. /\ hop1 \in [Queries -> [1 .. SecondWidth -> Slots]]
      /\ frontier \in [Queries -> [Frontier -> Slots]]
    BY DEF DataInv, ReadShape
<1>6. \A s \in 1 .. SecondWidth : OwnerAt(s) \in 1 .. OwnerCount
    BY <1>2, CircuitShapes
<1> HIDE DEF q
<1>7. FrontierFrom(hop1[q]) \in [Frontier -> Slots]
    <2>1. hop1[q] \in [1 .. SecondWidth -> Slots]
        BY <1>2, <1>5
    <2> QED
        BY <1>2, <2>1, FrontierTyped
<1>8. ReadShape'
    <2>1. frontier' \in [Queries -> [Frontier -> Slots]]
        BY <1>1, <1>5, <1>7
    <2> QED
        BY <1>1, <1>4, <1>5, <2>1 DEF DataInv, ReadShape
<1>9. \A p \in Queries : Hop1Right(p)'
    <2>1. \A p \in Queries : \A s \in 1 .. SecondWidth : hop1[p][s] = Hop1Of(p)[s]
        BY <1>1 DEF DataInv, Hop1Right, HasHop1
    <2> QED
        BY <1>1, <1>4, <2>1 DEF Hop1Right
<1>10. \A p \in Queries : FrontierRight(p)'
    <2>1. ASSUME NEW p \in Queries, IsCompacted(p)'
          PROVE  frontier'[p] = FrontierFrom(hop1[p])
        <3>1. CASE p = q
            BY <1>1, <1>2, <1>5, <3>1
        <3>2. CASE p # q
            <4>1. p \in Nat /\ p <= QueryCount /\ QueryCount \in Nat
                BY Constants DEF Queries
            <4>2. p < q
                BY <1>1, <1>2, <1>3, <1>4, <2>1, <3>2, <4>1 DEF IsCompacted, IsRead
            <4>3. IsCompacted(p)
                BY <1>1, <4>2 DEF IsCompacted, q
            <4>4. frontier'[p] = frontier[p]
                BY <1>1, <1>5, <3>2
            <4> QED
                BY <4>3, <4>4 DEF DataInv, FrontierRight
        <3> QED
            BY <3>1, <3>2
    <2> QED
        BY <1>1, <1>4, <2>1 DEF FrontierRight
<1>11. \A p \in Queries : /\ ~IsRead(p) /\ ~IsRead(p)'
                          /\ \A f \in Frontier, s \in 1 .. SecondWidth : ~HasHop2(p, f, s)'
    <2>1. \A p \in Queries : ~IsRead(p) /\ ~IsRead(p)'
        BY <1>1, <1>2, <1>3, <1>4 DEF IsRead
    <2>2. /\ \A p \in Queries : ~(p < 1)
          /\ \A f \in Frontier : ~(f < 1)
          /\ \A s \in 1 .. SecondWidth : ~(OwnerAt(s) < 1)
        <3>1. \A f \in Frontier : ~(f < 1)
            BY <1>2, WidthsNatural DEF Frontier
        <3>2. \A s \in 1 .. SecondWidth : ~(OwnerAt(s) < 1)
            BY <1>6, Constants
        <3> QED
            BY <3>1, <3>2 DEF Queries
    <2> QED
        BY <1>3, <1>4, <2>1, <2>2 DEF HasHop2
<1>12. \A p \in Queries : Hop2Right(p)' /\ Unranked(p)'
    BY <1>1, <1>4, <1>11 DEF Hop2Right, Unranked, DataInv
<1> QED
    BY <1>8, <1>9, <1>10, <1>12 DEF DataInv

(* A stack circuit reads the second hop of one frontier entry from one     *)
(* owner.                                                                  *)
LEMMA DataReadHop2 ==
    ASSUME Running, DataInv, ReadHop2
    PROVE  DataInv'
<1> DEFINE q == step.query
           f == step.entry
           o == step.owner
           new == WithRead(hop2[q][f], o, frontier[q][f].target, queries[q].relation2)
<1>1. /\ Stacked /\ phase = "hop2" /\ NextStep(GlobalFrontier, OwnerCount, "rank")
      /\ UNCHANGED <<layoutVars, settingVars, blocks>>
      /\ hop1' = hop1 /\ frontier' = frontier /\ output' = output /\ selected' = selected
      /\ hop2' = [hop2 EXCEPT ![q][f] = new]
    BY DEF ReadHop2, rankVars
<1>2. /\ step \in [query : Queries, entry : 1 .. GlobalFrontier, owner : 1 .. OwnerCount] /\ Ready
      /\ circuit \in Circuits /\ circuit.reads # "baseline"
      /\ q \in Queries /\ f \in Frontier /\ Frontier = 1 .. GlobalFrontier
    <2>1. circuit \in Circuits
        BY DEF Running, PrepInv
    <2>2. Frontier = 1 .. GlobalFrontier
        BY <1>1, <2>1, CircuitShapes DEF Frontier
    <2> QED
        BY <1>1, <2>1, <2>2 DEF Running, LoopsInRange, LastEntry, LastOwner, Ready, Before, Stacked
<1>3. \/ phase' = "hop2" /\ step' = [query |-> q, entry |-> f, owner |-> o + 1]
      \/ phase' = "hop2" /\ step' = [query |-> q, entry |-> f + 1, owner |-> 1] /\ o = OwnerCount
      \/ /\ phase' = "hop2" /\ step' = [query |-> q + 1, entry |-> 1, owner |-> 1]
         /\ o = OwnerCount /\ f = GlobalFrontier
      \/ /\ phase' = "rank" /\ step' = [query |-> 1, entry |-> 1, owner |-> 1]
         /\ o = OwnerCount /\ f = GlobalFrontier /\ q = QueryCount
    BY <1>1, <1>2, NextStepEffect, Constants DEF Running
<1>4. /\ \A e, r : FullRead(e, r)' = FullRead(e, r)
      /\ \A row : FrontierFrom(row)' = FrontierFrom(row)
      /\ \A s : OwnerAt(s)' = OwnerAt(s)
      /\ \A p : Hop1Of(p)' = Hop1Of(p)
      /\ SecondWidth' = SecondWidth /\ Frontier' = Frontier
      /\ NothingSelected' = NothingSelected /\ (Stacked' <=> Stacked)
      /\ circuit' = circuit /\ queries' = queries
    BY <1>1, ReadsKeep
<1>5. ReadShape /\ hop2 \in [Queries -> [Frontier -> [1 .. SecondWidth -> Slots]]]
    BY DEF DataInv, ReadShape
<1>6. /\ new \in [1 .. SecondWidth -> Slots]
      /\ \A s \in 1 .. SecondWidth :
            new[s] = IF OwnerAt(s) = o THEN Hop2Of(q, f)[s] ELSE hop2[q][f][s]
    <2> DEFINE e == frontier[q][f].target
               r == queries[q].relation2
    <2>1. r \in Nat
        BY <1>2, ReadsTyped
    <2>2. frontier[q][f] \in Slots
        <3>1. frontier \in [Queries -> [Frontier -> Slots]] /\ q \in Queries /\ f \in Frontier
            BY <1>2, <1>5 DEF ReadShape
        <3> HIDE DEF q, f, e, r, new, o
        <3>2. frontier[q] \in [Frontier -> Slots]
            BY <3>1
        <3> QED
            BY <3>1, <3>2
    <2>3. e \in Nat
        BY <2>2, Sizes DEF Slots
    <2>4. hop2[q][f] \in [1 .. SecondWidth -> Slots]
        BY <1>2, <1>5
    <2>5. new = WithRead(hop2[q][f], o, e, r) /\ Hop2Of(q, f) = FullRead(e, r)
        BY DEF Hop2Of
    <2> HIDE DEF q, f, o, e, r, new
    <2>6. /\ WithRead(hop2[q][f], o, e, r) \in [1 .. SecondWidth -> Slots]
          /\ \A s \in 1 .. SecondWidth : WithRead(hop2[q][f], o, e, r)[s]
                = IF OwnerAt(s) = o THEN FullRead(e, r)[s] ELSE hop2[q][f][s]
        BY <1>2, <2>1, <2>3, <2>4, WithReadPart
    <2> QED
        BY <2>5, <2>6
<1>7. \A s \in 1 .. SecondWidth : OwnerAt(s) \in 1 .. OwnerCount
    BY <1>2, CircuitShapes
<1>8. q \in 1 .. QueryCount /\ f \in 1 .. GlobalFrontier /\ o \in 1 .. OwnerCount
      /\ QueryCount \in Nat /\ GlobalFrontier \in Nat /\ OwnerCount \in Nat
    BY <1>2, Constants DEF Queries
<1> HIDE DEF q, f, o, new
<1>9. /\ \A p \in Queries, g \in Frontier :
            hop2'[p][g] = IF p = q /\ g = f THEN new ELSE hop2[p][g]
      /\ hop2' \in [Queries -> [Frontier -> [1 .. SecondWidth -> Slots]]]
    BY <1>1, <1>2, <1>5, <1>6
<1>10. ReadShape'
    BY <1>1, <1>4, <1>5, <1>9 DEF ReadShape
<1>11. ASSUME NEW p \in Queries, NEW g \in Frontier, NEW s \in 1 .. SecondWidth, HasHop2(p, g, s)'
       PROVE  HasHop2(p, g, s) \/ (p = q /\ g = f /\ OwnerAt(s) = o)
    <2> DEFINE t == OwnerAt(s)
    <2>1. p \in 1 .. QueryCount /\ g \in 1 .. GlobalFrontier /\ t \in 1 .. OwnerCount
        BY <1>2, <1>7 DEF Queries
    <2>2. HasHop2(p, g, s) <=> p < q \/ (p = q /\ g < f) \/ (p = q /\ g = f /\ t < o)
        BY <1>1 DEF HasHop2, IsRead, q, f, o
    <2> HIDE DEF t
    <2>3. CASE phase' = "hop2" /\ step' = [query |-> q, entry |-> f, owner |-> o + 1]
        <3>1. p < q \/ (p = q /\ g < f) \/ (p = q /\ g = f /\ t < o + 1)
            BY <1>1, <1>4, <1>11, <2>3 DEF HasHop2, IsRead, t
        <3> QED
            BY <1>8, <2>1, <2>2, <3>1 DEF t
    <2>4. CASE phase' = "hop2" /\ step' = [query |-> q, entry |-> f + 1, owner |-> 1] /\ o = OwnerCount
        <3>1. p < q \/ (p = q /\ g < f + 1) \/ (p = q /\ g = f + 1 /\ t < 1)
            BY <1>1, <1>4, <1>11, <2>4 DEF HasHop2, IsRead, t
        <3> QED
            BY <1>8, <2>1, <2>2, <2>4, <3>1 DEF t
    <2>5. CASE /\ phase' = "hop2" /\ step' = [query |-> q + 1, entry |-> 1, owner |-> 1]
               /\ o = OwnerCount /\ f = GlobalFrontier
        <3>1. p < q + 1 \/ (p = q + 1 /\ g < 1) \/ (p = q + 1 /\ g = 1 /\ t < 1)
            BY <1>1, <1>4, <1>11, <2>5 DEF HasHop2, IsRead, t
        <3> QED
            BY <1>8, <2>1, <2>2, <2>5, <3>1 DEF t
    <2>6. CASE o = OwnerCount /\ f = GlobalFrontier /\ q = QueryCount
        BY <1>8, <2>1, <2>2, <2>6 DEF t
    <2> QED
        BY <1>3, <2>3, <2>4, <2>5, <2>6
<1>12. \A p \in Queries : Hop2Right(p)'
    <2>1. \A p, g : Hop2Of(p, g)' = Hop2Of(p, g)
        BY <1>1, <1>4 DEF Hop2Of
    <2>2. ASSUME NEW p \in Queries, NEW g \in Frontier, NEW s \in 1 .. SecondWidth, HasHop2(p, g, s)'
          PROVE  hop2'[p][g][s] = Hop2Of(p, g)[s]
        <3>1. CASE p = q /\ g = f /\ OwnerAt(s) = o
            BY <1>6, <1>9, <3>1
        <3>2. CASE ~(p = q /\ g = f /\ OwnerAt(s) = o)
            <4>1. hop2[p][g][s] = Hop2Of(p, g)[s]
                BY <1>11, <2>2, <3>2 DEF DataInv, Hop2Right
            <4>2. hop2'[p][g][s] = hop2[p][g][s]
                BY <1>6, <1>9, <3>2
            <4> QED
                BY <4>1, <4>2
        <3> QED
            BY <3>1, <3>2
    <2> QED
        BY <1>4, <2>1, <2>2 DEF Hop2Right
<1>13. \A p \in Queries : /\ IsCompacted(p) /\ ~IsRead(p)
                          /\ \A s \in 1 .. SecondWidth : HasHop1(p, s)
    BY <1>1, <1>2 DEF IsCompacted, IsRead, HasHop1
<1>14. \A p \in Queries : Hop1Right(p)' /\ FrontierRight(p)' /\ Unranked(p)'
    BY <1>1, <1>4, <1>13 DEF Hop1Right, FrontierRight, Unranked, DataInv
<1> QED
    BY <1>10, <1>12, <1>14 DEF DataInv

(* A scan circuit reads or compacts the whole batch at once.               *)
LEMMA DataBatch ==
    ASSUME Running, DataInv, ScanHop1 \/ CompactBatch \/ ScanHop2
    PROVE  DataInv'
<1>1. /\ circuit.reads \in {"pages", "scan"} /\ phase \in {"hop1", "compact", "hop2"}
      /\ UNCHANGED <<layoutVars, settingVars, blocks>>
      /\ output' = output /\ selected' = selected /\ phase' \in {"compact", "hop2", "rank"}
    BY DEF ScanHop1, CompactBatch, ScanHop2, rankVars
<1>2. /\ ~Stacked /\ circuit.reads # "baseline" /\ Ready /\ circuit \in Circuits
    BY <1>1 DEF Stacked, Ready, Before, Running, PrepInv
<1>3. /\ \A e, r : FullRead(e, r)' = FullRead(e, r)
      /\ \A row : FrontierFrom(row)' = FrontierFrom(row)
      /\ \A p : Hop1Of(p)' = Hop1Of(p)
      /\ SecondWidth' = SecondWidth /\ Frontier' = Frontier
      /\ NothingSelected' = NothingSelected /\ (Stacked' <=> Stacked)
      /\ circuit' = circuit /\ queries' = queries
    BY <1>1, ReadsKeep
<1>4. /\ ReadShape
      /\ hop1 \in [Queries -> [1 .. SecondWidth -> Slots]]
      /\ frontier \in [Queries -> [Frontier -> Slots]]
    BY DEF DataInv, ReadShape
<1>5. \A p \in Queries : ~IsRead(p) /\ output[p] = <<>> /\ selected[p] = NothingSelected
    <2>1. \A p \in Queries : ~IsRead(p)
        BY <1>1, <1>2 DEF IsRead
    <2> QED
        BY <2>1 DEF DataInv, Unranked
<1>6. \A p \in Queries : Unranked(p)'
    BY <1>1, <1>3, <1>5 DEF Unranked
<1>7. CASE ScanHop1
    <2>1. /\ phase' = "compact" /\ frontier' = frontier /\ hop2' = hop2
          /\ hop1' = [q \in Queries |-> Hop1Of(q)]
        BY <1>7 DEF ScanHop1, Hop1Of
    <2>2. hop1' \in [Queries -> [1 .. SecondWidth -> Slots]]
        BY <1>2, <2>1, ReadsTyped
    <2>3. ReadShape'
        BY <1>3, <1>4, <2>1, <2>2 DEF ReadShape
    <2>4. \A p \in Queries : ~IsRead(p)' /\ ~IsCompacted(p)' /\ \A f, s : ~HasHop2(p, f, s)'
        BY <1>2, <1>3, <2>1 DEF IsRead, IsCompacted, HasHop2
    <2>5. \A p \in Queries : Hop1Right(p)' /\ FrontierRight(p)' /\ Hop2Right(p)'
        BY <1>3, <2>1, <2>4 DEF Hop1Right, FrontierRight, Hop2Right
    <2> QED
        BY <1>6, <2>3, <2>5 DEF DataInv
<1>8. CASE CompactBatch
    <2>1. /\ phase = "compact" /\ phase' = "hop2" /\ hop1' = hop1 /\ hop2' = hop2
          /\ frontier' = [q \in Queries |-> FrontierFrom(hop1[q])]
        BY <1>8 DEF CompactBatch
    <2>2. frontier' \in [Queries -> [Frontier -> Slots]]
        <3>1. \A q \in Queries : FrontierFrom(hop1[q]) \in [Frontier -> Slots]
            BY <1>2, <1>4, FrontierTyped
        <3> QED
            BY <2>1, <3>1
    <2>3. ReadShape'
        BY <1>3, <1>4, <2>1, <2>2 DEF ReadShape
    <2>4. \A p \in Queries : ~IsRead(p)' /\ \A f, s : ~HasHop2(p, f, s)'
        BY <1>2, <1>3, <2>1 DEF IsRead, HasHop2
    <2>5. \A p \in Queries : \A s \in 1 .. SecondWidth : hop1[p][s] = Hop1Of(p)[s]
        BY <2>1 DEF DataInv, Hop1Right, HasHop1
    <2>6. \A p \in Queries : Hop1Right(p)' /\ FrontierRight(p)' /\ Hop2Right(p)'
        BY <1>3, <2>1, <2>4, <2>5 DEF Hop1Right, FrontierRight, Hop2Right
    <2> QED
        BY <1>6, <2>3, <2>6 DEF DataInv
<1>9. CASE ScanHop2
    <2>1. /\ phase = "hop2" /\ phase' = "rank" /\ hop1' = hop1 /\ frontier' = frontier
          /\ hop2' = [q \in Queries |-> [f \in Frontier |-> Hop2Of(q, f)]]
        BY <1>9 DEF ScanHop2, Hop2Of
    <2>2. hop2' \in [Queries -> [Frontier -> [1 .. SecondWidth -> Slots]]]
        <3>1. ASSUME NEW q \in Queries, NEW f \in Frontier
              PROVE  Hop2Of(q, f) \in [1 .. SecondWidth -> Slots]
            <4>1. frontier[q][f] \in Slots
                BY <1>4
            <4>2. frontier[q][f].target \in Nat
                BY <4>1, Sizes DEF Slots
            <4> QED
                BY <1>2, <4>2, ReadsTyped DEF Hop2Of
        <3> QED
            BY <2>1, <3>1
    <2>3. ReadShape'
        BY <1>3, <1>4, <2>1, <2>2 DEF ReadShape
    <2>4. /\ \A p, g : Hop2Of(p, g)' = Hop2Of(p, g)
          /\ \A p \in Queries : \A s \in 1 .. SecondWidth : hop1[p][s] = Hop1Of(p)[s]
          /\ \A p \in Queries : frontier[p] = FrontierFrom(hop1[p])
        BY <1>3, <2>1 DEF Hop2Of, DataInv, Hop1Right, HasHop1, FrontierRight, IsCompacted
    <2>5. \A p \in Queries : Hop1Right(p)' /\ FrontierRight(p)' /\ Hop2Right(p)'
        BY <1>3, <2>1, <2>4 DEF Hop1Right, FrontierRight, Hop2Right
    <2> QED
        BY <1>6, <2>3, <2>5 DEF DataInv
<1> QED
    BY <1>7, <1>8, <1>9

(* A baseline reads all of one query.                                      *)
LEMMA DataReadQuery ==
    ASSUME Running, DataInv, ReadQuery
    PROVE  DataInv'
<1> DEFINE q == step.query
           row == Hop1Of(q)
           second == [f \in Frontier |-> [s \in 1 .. SecondWidth |->
                        Scanned(OwnerAt(s), row[f].target, queries[q].relation2)[SlotAt(s)]]]
<1>1. /\ circuit.reads = "baseline" /\ phase = "hop1" /\ phase' = "rank" /\ step' = step
      /\ UNCHANGED <<layoutVars, settingVars, blocks>>
      /\ output' = output /\ selected' = selected
      /\ hop1' = [hop1 EXCEPT ![q] = row]
      /\ frontier' = [frontier EXCEPT ![q] = row]
      /\ hop2' = [hop2 EXCEPT ![q] = second]
    BY DEF ReadQuery, rankVars, Hop1Of
<1>2. /\ q \in Queries /\ Ready /\ circuit \in Circuits /\ q \in Nat /\ ~Stacked
    BY <1>1 DEF Running, LoopsInRange, Ready, Before, PrepInv, Queries, Stacked
<1>3. /\ \A e, r : FullRead(e, r)' = FullRead(e, r)
      /\ \A x : FrontierFrom(x)' = FrontierFrom(x)
      /\ \A p : Hop1Of(p)' = Hop1Of(p)
      /\ SecondWidth' = SecondWidth /\ Frontier' = Frontier
      /\ NothingSelected' = NothingSelected /\ circuit' = circuit /\ queries' = queries
      /\ (Stacked' <=> Stacked)
    BY <1>1, ReadsKeep
<1>4. /\ hop1 \in [Queries -> [1 .. SecondWidth -> Slots]]
      /\ frontier \in [Queries -> [Frontier -> Slots]]
      /\ hop2 \in [Queries -> [Frontier -> [1 .. SecondWidth -> Slots]]]
    BY DEF DataInv, ReadShape
<1>5. row \in [1 .. SecondWidth -> Slots] /\ Frontier = 1 .. SecondWidth
    <2>1. row \in [1 .. SecondWidth -> Slots]
        BY <1>2, ReadsTyped
    <2>2. circuit.frontier = "full" /\ circuit.frontier # "global"
        BY <1>1, <1>2, CircuitShapes
    <2>3. FrontierSlots = OwnerCount * ShareOf(circuit) /\ ShareOf(circuit) = OwnerWidth
        BY <2>2 DEF FrontierSlots, FrontierOf, ShareOf, OwnerWidth
    <2> QED
        BY <2>1, <2>3 DEF Frontier, SecondWidth
<1>6. FrontierFrom(row) = row
    <2>1. circuit.frontier = "full" /\ circuit.frontier # "global"
        BY <1>1, <1>2, CircuitShapes
    <2> QED
        BY <2>1 DEF FrontierFrom
<1>7. second = [f \in Frontier |-> FullRead(row[f].target, queries[q].relation2)]
    <2>1. ASSUME NEW f \in Frontier
          PROVE  [s \in 1 .. SecondWidth |->
                    Scanned(OwnerAt(s), row[f].target, queries[q].relation2)[SlotAt(s)]]
                 = FullRead(row[f].target, queries[q].relation2)
        <3> DEFINE e == row[f].target
                   r == queries[q].relation2
        <3>1. row[f] \in Slots
            BY <1>5
        <3>2. e \in Nat /\ r \in Nat
            BY <1>2, <3>1, ReadsTyped, Sizes DEF Slots
        <3> HIDE DEF e, r
        <3>3. FullRead(e, r) \in [1 .. SecondWidth -> Slots]
            BY <1>2, <3>2, FullReadLists DEF CleanRows, Running
        <3>4. \A s \in 1 .. SecondWidth :
                Answered(OwnerAt(s), e, r)[SlotAt(s)] = FullRead(e, r)[s]
            BY <1>2, <3>2, FullReadLists DEF Running
        <3>5. \A o : Answered(o, e, r) = Scanned(o, e, r)
            BY <1>1, Zenon DEF Answered, ReadsBlocks
        <3>6. [s \in 1 .. SecondWidth |-> Scanned(OwnerAt(s), e, r)[SlotAt(s)]] = FullRead(e, r)
            BY <3>3, <3>4, <3>5
        <3> QED
            BY <3>6 DEF e, r
    <2> QED
        BY <2>1
<1>8. second \in [Frontier -> [1 .. SecondWidth -> Slots]]
    <2>1. ASSUME NEW f \in Frontier
          PROVE  FullRead(row[f].target, queries[q].relation2) \in [1 .. SecondWidth -> Slots]
        <3>1. row[f] \in Slots
            BY <1>5
        <3>2. row[f].target \in Nat
            BY <3>1, Sizes DEF Slots
        <3> QED
            BY <1>2, <3>2, ReadsTyped
    <2> HIDE DEF q, row, second
    <2> QED
        BY <1>7, <2>1
<1> HIDE DEF q, row, second
<1>9. /\ \A p \in Queries : /\ hop1'[p] = IF p = q THEN row ELSE hop1[p]
                            /\ frontier'[p] = IF p = q THEN row ELSE frontier[p]
                            /\ hop2'[p] = IF p = q THEN second ELSE hop2[p]
      /\ ReadShape'
    <2>1. /\ hop1' \in [Queries -> [1 .. SecondWidth -> Slots]]
          /\ frontier' \in [Queries -> [Frontier -> Slots]]
          /\ hop2' \in [Queries -> [Frontier -> [1 .. SecondWidth -> Slots]]]
        BY <1>1, <1>2, <1>4, <1>5, <1>8
    <2> QED
        BY <1>1, <1>2, <1>3, <1>4, <2>1 DEF ReadShape
<1>10. \A p \in Queries : IsRead(p)' => IsRead(p) \/ p = q
    <2>1. \A p \in Queries : IsRead(p)' => p <= q
        BY <1>1, <1>3 DEF IsRead, q
    <2>2. \A p \in Queries : p < q => IsRead(p)
        BY <1>1 DEF IsRead, q
    <2>3. \A p \in Queries : p <= q => p < q \/ p = q
        BY <1>2 DEF Queries
    <2> QED
        BY <2>1, <2>2, <2>3
<1>11. \A p \in Queries : /\ IsCompacted(p)' => IsRead(p)'
                          /\ \A f, s : HasHop2(p, f, s)' => IsRead(p)'
                          /\ \A s : HasHop1(p, s)' => IsRead(p)'
    BY <1>1 DEF IsCompacted, HasHop2, HasHop1
<1>12. ASSUME NEW p \in Queries, IsRead(p)'
       PROVE  /\ \A s \in 1 .. SecondWidth : hop1'[p][s] = Hop1Of(p)[s]
              /\ frontier'[p] = FrontierFrom(hop1'[p])
              /\ \A f \in Frontier, s \in 1 .. SecondWidth :
                    hop2'[p][f][s] = FullRead(frontier'[p][f].target, queries[p].relation2)[s]
    <2>1. CASE p = q
        BY <1>6, <1>7, <1>9, <2>1 DEF row
    <2>2. CASE p # q
        <3>1. IsRead(p)
            BY <1>10, <1>12, <2>2
        <3>2. Hop1Right(p) /\ FrontierRight(p) /\ Hop2Right(p)
            BY DEF DataInv
        <3>3. /\ \A s \in 1 .. SecondWidth : hop1[p][s] = Hop1Of(p)[s]
              /\ frontier[p] = FrontierFrom(hop1[p])
              /\ \A f \in Frontier, s \in 1 .. SecondWidth : hop2[p][f][s] = Hop2Of(p, f)[s]
            BY <3>1, <3>2 DEF Hop1Right, FrontierRight, Hop2Right, HasHop1, IsCompacted, HasHop2
        <3> QED
            BY <1>9, <2>2, <3>3 DEF Hop2Of
    <2> QED
        BY <2>1, <2>2
<1>13. \A p \in Queries : Hop1Right(p)' /\ FrontierRight(p)'
    BY <1>3, <1>11, <1>12 DEF Hop1Right, FrontierRight
<1>14. \A p \in Queries : Hop2Right(p)'
    <2>1. \A p, f : Hop2Of(p, f)' = FullRead(frontier'[p][f].target, queries[p].relation2)
        BY <1>3 DEF Hop2Of
    <2> QED
        BY <1>3, <1>11, <1>12, <2>1 DEF Hop2Right
<1>15. \A p \in Queries : Unranked(p)'
    <2>1. \A p \in Queries : IsRead(p) => IsRead(p)'
        <3>1. \A p \in Queries : p < q => p <= q
            BY <1>2 DEF Queries
        <3> QED
            BY <1>1, <1>3, <3>1 DEF IsRead, q
    <2> QED
        BY <1>1, <1>3, <2>1 DEF Unranked, DataInv
<1> QED
    BY <1>9, <1>13, <1>14, <1>15 DEF DataInv

-----------------------------------------------------------------------------
(* The ranks.                                                              *)

\* The queries that one step ranks.
RankedNow == IF circuit.reads = "pages" THEN Queries ELSE {step.query}

\* The answers that the loops say are out.
Emitted(q) ==
    CASE phase = "done" -> TopK
      [] phase = "rank" /\ circuit.reads = "pages" -> step.entry - 1
      [] phase = "rank" /\ circuit.reads # "pages" ->
           IF q < step.query THEN TopK ELSE IF q = step.query THEN step.entry - 1 ELSE 0
      [] phase = "hop1" /\ circuit.reads = "baseline" /\ q < step.query -> TopK
      [] OTHER -> 0

RankStep == Rank \/ RankLanes \/ RankQuery

\* How a rank moves the loops on.
LEMMA RankMoves ==
    ASSUME Running, RankStep
    PROVE  /\ step.query \in 1 .. QueryCount /\ step.entry \in 1 .. TopK
           /\ phase = "rank" /\ circuit' = circuit
           /\ \/ phase' = "rank" /\ step'.query = step.query /\ step'.entry = step.entry + 1
              \/ /\ phase' = "done" /\ step.entry = TopK
                 /\ circuit.reads = "pages" \/ step.query = QueryCount
              \/ /\ phase' = IF circuit.reads = "baseline" THEN "hop1" ELSE "rank"
                 /\ circuit.reads # "pages" /\ step.entry = TopK
                 /\ step'.query = step.query + 1 /\ step'.entry = 1
<1>1. phase = "rank" /\ circuit' = circuit
    BY DEF RankStep, Rank, RankLanes, RankQuery, settingVars
<1>2. /\ step \in [query : 1 .. QueryCount, entry : 1 .. TopK, owner : 1 .. 1]
      /\ LoopsInRange /\ TopK \in Nat \ {0} /\ QueryCount \in Nat \ {0}
    BY <1>1, Constants DEF Running, LoopsInRange, LastEntry, LastOwner, Queries
<1>3. /\ step.entry < TopK \/ step.entry = TopK
      /\ step.query < QueryCount \/ step.query = QueryCount
    BY <1>2
<1>4. CASE Rank
    <2>1. NextStep(TopK, 1, "done") /\ circuit.reads \in {"stacks", "records", "scan"}
        BY <1>4 DEF Rank
    <2>2. \/ /\ step.entry < TopK /\ phase' = phase
             /\ step' = [query |-> step.query, entry |-> step.entry + 1, owner |-> 1]
          \/ /\ step.entry = TopK /\ phase' = phase
             /\ step' = [query |-> step.query + 1, entry |-> 1, owner |-> 1]
          \/ /\ step.entry = TopK /\ step.query = QueryCount /\ phase' = "done"
        BY <1>2, <2>1, NextStepEffect
    <2> QED
        BY <1>1, <1>2, <2>1, <2>2
<1>5. CASE RankLanes
    BY <1>1, <1>2, <1>3, <1>5 DEF RankLanes
<1>6. CASE RankQuery
    BY <1>1, <1>2, <1>3, <1>6 DEF RankQuery, FirstStep
<1> QED
    BY <1>1, <1>2, <1>4, <1>5, <1>6 DEF RankStep

LEMMA RankEffect ==
    ASSUME Running, RankStep,
           output = [q \in Queries |-> output[q]], selected = [q \in Queries |-> selected[q]]
    PROVE  /\ UNCHANGED <<layoutVars, settingVars, blocks, readVars>> /\ Ready
           /\ \A q \in RankedNow : q \in Queries /\ IsRead(q)
           /\ \A q \in Queries : IsRead(q)' <=> IsRead(q)
           /\ output' = [q \in Queries |-> IF q \in RankedNow THEN RankedOutput(q) ELSE output[q]]
           /\ selected' = [q \in Queries |->
                              IF q \in RankedNow THEN RankedSelected(q) ELSE selected[q]]
           /\ \A q \in Queries : Emitted(q)' = Emitted(q) + (IF q \in RankedNow THEN 1 ELSE 0)
<1>1. /\ UNCHANGED <<layoutVars, settingVars, blocks, readVars>> /\ phase = "rank"
      /\ circuit' = circuit
    BY DEF RankStep, Rank, RankLanes, RankQuery, settingVars
<1>2. /\ step.query \in 1 .. QueryCount /\ step.entry \in 1 .. TopK
      /\ TopK \in Nat \ {0} /\ QueryCount \in Nat \ {0} /\ Queries = 1 .. QueryCount
      /\ step.query \in Nat /\ step.entry \in Nat
    BY RankMoves, Constants DEF Queries
<1>3. \/ phase' = "rank" /\ step'.query = step.query /\ step'.entry = step.entry + 1
      \/ /\ phase' = "done" /\ step.entry = TopK
         /\ circuit.reads = "pages" \/ step.query = QueryCount
      \/ /\ phase' = IF circuit.reads = "baseline" THEN "hop1" ELSE "rank"
         /\ circuit.reads # "pages" /\ step.entry = TopK
         /\ step'.query = step.query + 1 /\ step'.entry = 1
    BY RankMoves
<1>4. \A q \in RankedNow : q \in Queries /\ IsRead(q)
    BY <1>1, <1>2 DEF RankedNow, IsRead
<1>5. \A q \in Queries : IsRead(q)' <=> IsRead(q)
    <2>1. \A q \in Queries : q \in Nat /\ q <= QueryCount
        BY <1>2
    <2>2. CASE circuit.reads # "baseline"
        BY <1>1, <1>3, <2>2 DEF IsRead
    <2>3. CASE circuit.reads = "baseline"
        <3>1. circuit.reads # "pages"
            BY <2>3
        <3>2. \A q \in Queries : IsRead(q) <=> q <= step.query
            BY <1>1, <2>3 DEF IsRead
        <3>3. CASE phase' = "rank" /\ step'.query = step.query
            BY <1>1, <2>3, <3>2, <3>3 DEF IsRead
        <3>4. CASE phase' = "done" /\ step.query = QueryCount
            BY <1>1, <2>1, <3>2, <3>4 DEF IsRead
        <3>5. CASE phase' = "hop1" /\ step'.query = step.query + 1
            <4>1. \A q \in Queries : IsRead(q)' <=> q < step.query + 1
                BY <1>1, <2>3, <3>5 DEF IsRead
            <4> QED
                BY <1>2, <2>1, <3>2, <4>1
        <3> QED
            BY <1>3, <2>3, <3>1, <3>3, <3>4, <3>5
    <2> QED
        BY <2>2, <2>3
<1>6. /\ output' = [q \in Queries |-> IF q \in RankedNow THEN RankedOutput(q) ELSE output[q]]
      /\ selected' = [q \in Queries |->
                         IF q \in RankedNow THEN RankedSelected(q) ELSE selected[q]]
    <2>1. CASE RankLanes
        BY <2>1 DEF RankLanes, RankedNow
    <2>2. CASE Rank \/ RankQuery
        <3>1. /\ output' = [output EXCEPT ![step.query] = RankedOutput(step.query)]
              /\ selected' = [selected EXCEPT ![step.query] = RankedSelected(step.query)]
              /\ RankedNow = {step.query}
            BY <2>2 DEF Rank, RankQuery, RankedNow
        <3> QED
            BY <3>1
    <2> QED
        BY <2>1, <2>2 DEF RankStep
<1>7. ASSUME NEW q \in Queries
      PROVE  Emitted(q)' = Emitted(q) + (IF q \in RankedNow THEN 1 ELSE 0)
    <2>1. q \in Nat /\ q <= QueryCount
        BY <1>2
    <2>2. CASE circuit.reads = "pages"
        <3>1. Emitted(q) = step.entry - 1 /\ q \in RankedNow
            BY <1>1, <2>2 DEF Emitted, RankedNow
        <3>2. Emitted(q)' = step.entry
            <4>1. \/ phase' = "rank" /\ step'.entry = step.entry + 1
                  \/ phase' = "done" /\ step.entry = TopK
                BY <1>3, <2>2
            <4> QED
                BY <1>1, <1>2, <2>2, <4>1 DEF Emitted
        <3> QED
            BY <1>2, <3>1, <3>2
    <2>3. CASE circuit.reads # "pages"
        <3> DEFINE n == step.query
                   e == step.entry
        <3>1. Emitted(q) = IF q < n THEN TopK ELSE IF q = n THEN e - 1 ELSE 0
            BY <1>1, <2>3 DEF Emitted
        <3>2. RankedNow = {n}
            BY <2>3 DEF RankedNow
        <3>3. CASE phase' = "rank" /\ step'.query = n /\ step'.entry = e + 1
            <4>1. Emitted(q)' = IF q < n THEN TopK ELSE IF q = n THEN (e + 1) - 1 ELSE 0
                BY <1>1, <2>3, <3>3 DEF Emitted
            <4> QED
                BY <1>2, <2>1, <3>1, <3>2, <4>1
        <3>4. CASE phase' = "done" /\ e = TopK /\ n = QueryCount
            <4>1. Emitted(q)' = TopK
                BY <3>4 DEF Emitted
            <4> QED
                BY <1>2, <2>1, <3>1, <3>2, <3>4, <4>1
        <3>5. CASE /\ phase' = IF circuit.reads = "baseline" THEN "hop1" ELSE "rank"
                   /\ e = TopK /\ step'.query = n + 1 /\ step'.entry = 1
            <4>1. Emitted(q)' = IF q < n + 1 THEN TopK ELSE 0
                <5>1. CASE circuit.reads = "baseline"
                    BY <1>1, <2>3, <3>5, <5>1 DEF Emitted
                <5>2. CASE circuit.reads # "baseline"
                    BY <1>1, <2>3, <3>5, <5>2 DEF Emitted
                <5> QED
                    BY <5>1, <5>2
            <4> QED
                BY <1>2, <2>1, <3>1, <3>2, <3>5, <4>1
        <3> HIDE DEF n, e
        <3> QED
            BY <1>3, <2>3, <3>3, <3>4, <3>5 DEF n, e
    <2> QED
        BY <2>2, <2>3
<1> QED
    BY <1>1, <1>4, <1>5, <1>6, <1>7 DEF Ready, Before

Answers == [valid : {0, 1}, left : Nat, right : Nat, score : Nat]

\* The answers are as many as the loops say.
EmittedInv ==
    /\ output \in [Queries -> Seq(Answers)]
    /\ selected = [q \in Queries |-> selected[q]]
    /\ circuit.reads \in {"pages", "scan"} /\ phase # "rank" => step = FirstStep
    /\ \A q \in Queries : Len(output[q]) = Emitted(q)

LEMMA DataRank ==
    ASSUME Running, DataInv, EmittedInv, RankStep
    PROVE  DataInv'
<1>1. /\ UNCHANGED <<layoutVars, settingVars, blocks, readVars>>
      /\ \A q \in RankedNow : q \in Queries /\ IsRead(q)
      /\ \A q \in Queries : IsRead(q)' <=> IsRead(q)
      /\ output' = [q \in Queries |-> IF q \in RankedNow THEN RankedOutput(q) ELSE output[q]]
      /\ selected' = [q \in Queries |->
                         IF q \in RankedNow THEN RankedSelected(q) ELSE selected[q]]
    BY RankEffect DEF EmittedInv
<1>2. /\ hop1' = hop1 /\ frontier' = frontier /\ hop2' = hop2
      /\ phase' \in {"rank", "done", "hop1"} /\ (phase' = "hop1" => ~Stacked')
    <2>1. hop1' = hop1 /\ frontier' = frontier /\ hop2' = hop2 /\ circuit' = circuit
        BY <1>1 DEF readVars, settingVars
    <2>2. /\ phase' \in {"rank", "done", "hop1"}
          /\ phase' = "hop1" => circuit.reads = "baseline"
        BY RankMoves
    <2> QED
        BY <2>1, <2>2 DEF Stacked
<1>3. /\ \A e, r : FullRead(e, r)' = FullRead(e, r)
      /\ \A row : FrontierFrom(row)' = FrontierFrom(row)
      /\ \A p : Hop1Of(p)' = Hop1Of(p)
      /\ SecondWidth' = SecondWidth /\ Frontier' = Frontier
      /\ NothingSelected' = NothingSelected /\ queries' = queries
    BY <1>1, ReadsKeep
<1>4. ReadShape'
    BY <1>2, <1>3 DEF DataInv, ReadShape
<1>5. \A p \in Queries : /\ IsCompacted(p)' => IsRead(p)
                         /\ \A f, s : HasHop2(p, f, s)' => IsRead(p)
                         /\ \A s : HasHop1(p, s)' => IsRead(p)
    BY <1>1, <1>2 DEF IsCompacted, HasHop2, HasHop1
<1>6. \A p \in Queries : IsRead(p) =>
        /\ \A s \in 1 .. SecondWidth : hop1[p][s] = Hop1Of(p)[s]
        /\ frontier[p] = FrontierFrom(hop1[p])
        /\ \A f \in Frontier, s \in 1 .. SecondWidth : hop2[p][f][s] = Hop2Of(p, f)[s]
    BY DEF DataInv, Hop1Right, FrontierRight, Hop2Right, HasHop1, IsCompacted, HasHop2
<1>7. \A p, f : Hop2Of(p, f)' = Hop2Of(p, f)
    BY <1>2, <1>3 DEF Hop2Of
<1>8. \A p \in Queries : Hop1Right(p)' /\ FrontierRight(p)' /\ Hop2Right(p)'
    BY <1>2, <1>3, <1>5, <1>6, <1>7 DEF Hop1Right, FrontierRight, Hop2Right
<1>9. \A p \in Queries : Unranked(p)'
    BY <1>1, <1>3 DEF DataInv, Unranked
<1> QED
    BY <1>4, <1>8, <1>9 DEF DataInv

LEMMA DataNext ==
    ASSUME Running, DataInv, EmittedInv, [Next]_vars
    PROVE  DataInv' /\ SettingsInv'
<1>1. circuit \in Circuits /\ (phase \in Before => step = FirstStep)
    BY DEF Running, PrepInv, LoopsInRange
<1>2. SettingsInv'
    <2>1. UNCHANGED settingVars
        BY DEF Next, vars, BuildPages, PackOwner, BoundFrontier, ReadHop1, Compact, ReadHop2, Rank,
               ScanHop1, CompactBatch, ScanHop2, RankLanes, ReadQuery, RankQuery, Finished
    <2> QED
        BY <2>1 DEF SettingsInv, settingVars, Running
<1>3. CASE UNCHANGED vars
    <2>1. /\ UNCHANGED <<layoutVars, settingVars, blocks>> /\ phase' = phase /\ step' = step
          /\ hop1' = hop1 /\ frontier' = frontier /\ hop2' = hop2
          /\ output' = output /\ selected' = selected
        BY <1>3 DEF vars, readVars, rankVars
    <2>2. /\ \A e, r : FullRead(e, r)' = FullRead(e, r)
          /\ \A row : FrontierFrom(row)' = FrontierFrom(row)
          /\ \A p : Hop1Of(p)' = Hop1Of(p)
          /\ \A s : OwnerAt(s)' = OwnerAt(s)
          /\ SecondWidth' = SecondWidth /\ Frontier' = Frontier /\ (Stacked' <=> Stacked)
          /\ NothingSelected' = NothingSelected /\ queries' = queries /\ circuit' = circuit
        BY <2>1, ReadsKeep
    <2>3. \A p : IsRead(p)' <=> IsRead(p)
        BY <2>1, <2>2 DEF IsRead
    <2>4. /\ \A p, s : HasHop1(p, s)' <=> HasHop1(p, s)
          /\ \A p : IsCompacted(p)' <=> IsCompacted(p)
          /\ \A p, f, s : HasHop2(p, f, s)' <=> HasHop2(p, f, s)
        BY <2>1, <2>2, <2>3 DEF HasHop1, IsCompacted, HasHop2
    <2>5. \A p, f : Hop2Of(p, f)' = Hop2Of(p, f)
        BY <2>1, <2>2 DEF Hop2Of
    <2>6. ReadShape'
        BY <2>1, <2>2 DEF DataInv, ReadShape
    <2>7. \A p \in Queries : Hop1Right(p)' /\ FrontierRight(p)' /\ Hop2Right(p)' /\ Unranked(p)'
        BY <2>1, <2>2, <2>3, <2>4, <2>5
           DEF DataInv, Hop1Right, FrontierRight, Hop2Right, Unranked
    <2> QED
        BY <1>2, <2>6, <2>7 DEF DataInv
<1>4. CASE BuildPages \/ PackOwner \/ BoundFrontier
    <2>1. /\ phase \in Before /\ phase' \in Before \cup {"hop1"}
          /\ UNCHANGED <<settingVars, step, readVars, rankVars>>
        <3>1. CASE BuildPages
            BY <3>1 DEF BuildPages, PlaceKey, RefuseLayout, FinishOwner, Before
        <3>2. CASE PackOwner
            BY <3>2 DEF PackOwner, Before
        <3>3. CASE BoundFrontier
            BY <3>3 DEF BoundFrontier, CheckFrontier, Before
        <3> QED
            BY <1>4, <3>1, <3>2, <3>3
    <2> QED
        BY <1>1, <1>2, <2>1, DataWaits
<1>5. CASE CircuitStep
    BY <1>2, <1>5, DataReadHop1, DataCompact, DataReadHop2, DataBatch, DataReadQuery, DataRank
       DEF CircuitStep, RankStep
<1>6. CASE Finished
    BY <1>3, <1>6 DEF Finished
<1> QED
    BY <1>3, <1>4, <1>5, <1>6 DEF Next, CircuitStep

LEMMA EmittedInit == Init => EmittedInv
<1> SUFFICES ASSUME Init PROVE EmittedInv
    OBVIOUS
<1>1. /\ output = [q \in Queries |-> <<>>] /\ phase = "build" /\ step = FirstStep
      /\ selected = [q \in Queries |-> NothingSelected]
    BY DEF Init, LayoutInit, NothingSelected
<1>2. <<>> \in Seq(Answers) /\ Len(<<>>) = 0
    OBVIOUS
<1>3. \A q \in Queries : Emitted(q) = 0
    BY <1>1 DEF Emitted
<1> QED
    BY <1>1, <1>2, <1>3 DEF EmittedInv

(* A winner of a scan joins two matches.                                   *)
LEMMA AnswersTyped ==
    ASSUME ReadShape, NEW q \in Queries, NEW c \in Candidates
    PROVE  Answer(q, c) \in Answers
<1>1. c[1] \in Frontier /\ c[2] \in 1 .. SecondWidth
    BY DEF Candidates
<1>2. frontier[q][c[1]] \in Slots /\ hop2[q][c[1]][c[2]] \in Slots
    <2>1. frontier[q] \in [Frontier -> Slots] /\ hop2[q] \in [Frontier -> [1 .. SecondWidth -> Slots]]
        BY DEF ReadShape
    <2>2. hop2[q][c[1]] \in [1 .. SecondWidth -> Slots]
        BY <1>1, <2>1
    <2> QED
        BY <1>1, <2>1, <2>2
<1>3. /\ frontier[q][c[1]].handle \in Nat /\ frontier[q][c[1]].score \in Nat
      /\ hop2[q][c[1]][c[2]].handle \in Nat /\ hop2[q][c[1]][c[2]].score \in Nat
    BY <1>2 DEF Slots
<1> QED
    BY <1>3 DEF Answer, Answers, Score

LEMMA RankedIsAnswer ==
    ASSUME ReadShape, NEW q \in Queries, output[q] \in Seq(Answers)
    PROVE  RankedOutput(q) \in Seq(Answers) /\ Len(RankedOutput(q)) = Len(output[q]) + 1
<1>1. NoAnswer \in Answers
    BY DEF NoAnswer, Answers
<1>2. \A c \in Candidates : Answer(q, c) \in Answers
    BY AnswersTyped
<1>3. Winner(q) # {} => (CHOOSE c \in Winner(q) : TRUE) \in Candidates
    BY DEF Winner
<1>4. \E a \in Answers : RankedOutput(q) = Append(output[q], a)
    BY <1>1, <1>2, <1>3 DEF RankedOutput
<1> HIDE DEF Answers
<1> QED
    BY <1>4

(* Nothing is emitted before the ranks.                                    *)
LEMMA EmittedWaits ==
    ASSUME EmittedInv, UNCHANGED rankVars, circuit' = circuit,
           circuit.reads \in {"pages", "scan"} /\ phase' # "rank" => step' = FirstStep,
           \A q \in Queries : Emitted(q)' = Emitted(q)
    PROVE  EmittedInv'
BY DEF EmittedInv, rankVars

LEMMA EmittedReads ==
    ASSUME Running, EmittedInv, CircuitStep, ~RankStep
    PROVE  EmittedInv'
<1>0. /\ UNCHANGED rankVars /\ circuit' = circuit
    BY DEF CircuitStep, RankStep, ReadHop1, Compact, ReadHop2, ScanHop1, CompactBatch, ScanHop2,
           ReadQuery, settingVars
<1>1. CASE ReadHop1 \/ Compact
    <2>1. /\ circuit.reads \in {"stacks", "records"} /\ phase \in {"hop1", "compact"}
          /\ phase' \in {"hop1", "compact", "hop2"}
        BY <1>1 DEF ReadHop1, Compact, NextStep, Stacked
    <2>2. \A q \in Queries : Emitted(q) = 0 /\ Emitted(q)' = 0
        BY <1>0, <2>1 DEF Emitted
    <2> QED
        BY <1>0, <2>1, <2>2, EmittedWaits
<1>2. CASE ReadHop2
    <2>1. /\ circuit.reads \in {"stacks", "records"} /\ phase = "hop2"
          /\ phase' = "hop2" \/ (phase' = "rank" /\ step' = FirstStep)
        BY <1>2 DEF ReadHop2, NextStep, Stacked
    <2>2. \A q \in Queries : Emitted(q) = 0
        BY <2>1 DEF Emitted
    <2>3. CASE phase' = "hop2"
        <3>1. \A q \in Queries : Emitted(q)' = 0
            BY <1>0, <2>1, <2>3 DEF Emitted
        <3> QED
            BY <1>0, <2>1, <2>2, <3>1, EmittedWaits
    <2>4. CASE phase' = "rank" /\ step' = FirstStep
        <3>1. step'.query = 1 /\ step'.entry - 1 = 0
            BY <2>4 DEF FirstStep
        <3>2. \A q \in Queries : ~(q < 1)
            BY DEF Queries
        <3>3. \A q \in Queries : Emitted(q)' = 0
            BY <1>0, <2>1, <2>4, <3>1, <3>2 DEF Emitted
        <3> QED
            BY <1>0, <2>1, <2>2, <3>3, EmittedWaits
    <2> QED
        BY <2>1, <2>3, <2>4
<1>3. CASE ScanHop1 \/ CompactBatch \/ ScanHop2
    <2>1. /\ circuit.reads \in {"pages", "scan"} /\ phase \in {"hop1", "compact", "hop2"}
          /\ phase' \in {"compact", "hop2", "rank"} /\ step' = step
        BY <1>3 DEF ScanHop1, CompactBatch, ScanHop2
    <2>2. step = FirstStep /\ step.query = 1 /\ step.entry - 1 = 0
        BY <2>1 DEF EmittedInv, FirstStep
    <2>3. \A q \in Queries : ~(q < 1)
        BY DEF Queries
    <2>4. \A q \in Queries : Emitted(q) = 0
        BY <2>1 DEF Emitted
    <2>5. \A q \in Queries : Emitted(q)' = 0
        <3>1. step'.query = 1 /\ step'.entry - 1 = 0
            BY <2>1, <2>2
        <3>2. circuit' = circuit
            BY <1>0
        <3>3. CASE circuit.reads = "pages"
            BY <2>1, <3>1, <3>2, <3>3 DEF Emitted
        <3>4. CASE circuit.reads = "scan"
            BY <2>1, <2>3, <3>1, <3>2, <3>4 DEF Emitted
        <3> QED
            BY <2>1, <3>3, <3>4
    <2> QED
        BY <1>0, <2>1, <2>2, <2>4, <2>5, EmittedWaits
<1>4. CASE ReadQuery
    <2>1. circuit.reads = "baseline" /\ phase = "hop1" /\ phase' = "rank" /\ step' = step
        BY <1>4 DEF ReadQuery
    <2>2. step.query \in Nat /\ step.entry - 1 = 0
        BY <2>1, Constants DEF Running, LoopsInRange, Stacked, Queries
    <2>3. \A q \in Queries : Emitted(q) = IF q < step.query THEN TopK ELSE 0
        BY <2>1 DEF Emitted
    <2>4. \A q \in Queries : Emitted(q)' = IF q < step.query THEN TopK ELSE 0
        BY <1>0, <2>1, <2>2 DEF Emitted
    <2> QED
        BY <1>0, <2>1, <2>3, <2>4, EmittedWaits
<1> QED
    BY <1>1, <1>2, <1>3, <1>4 DEF CircuitStep, RankStep

LEMMA EmittedRanks ==
    ASSUME Running, DataInv, EmittedInv, RankStep
    PROVE  EmittedInv'
<1>1. /\ \A q \in RankedNow : q \in Queries
      /\ output' = [q \in Queries |-> IF q \in RankedNow THEN RankedOutput(q) ELSE output[q]]
      /\ selected' = [q \in Queries |->
                         IF q \in RankedNow THEN RankedSelected(q) ELSE selected[q]]
      /\ \A q \in Queries : Emitted(q)' = Emitted(q) + (IF q \in RankedNow THEN 1 ELSE 0)
    BY RankEffect DEF EmittedInv
<1>2. \A q \in Queries : output[q] \in Seq(Answers) /\ Len(output[q]) = Emitted(q)
                         /\ Len(output[q]) \in Nat
    BY DEF EmittedInv
<1>3. \A q \in Queries : /\ RankedOutput(q) \in Seq(Answers)
                         /\ Len(RankedOutput(q)) = Len(output[q]) + 1
    BY <1>2, RankedIsAnswer DEF DataInv
<1>4. output' \in [Queries -> Seq(Answers)]
    BY <1>1, <1>2, <1>3
<1>5. \A q \in Queries : Len(output'[q]) = Emitted(q)'
    BY <1>1, <1>2, <1>3
<1>6. selected' = [q \in Queries |-> selected'[q]]
    BY <1>1
<1>7. circuit' = circuit /\ (phase' # "rank" /\ circuit.reads # "baseline" => step' = FirstStep)
    BY DEF RankStep, Rank, RankLanes, RankQuery, settingVars, NextStep
<1> QED
    BY <1>4, <1>5, <1>6, <1>7 DEF EmittedInv

LEMMA EmittedNext ==
    ASSUME Running, DataInv, EmittedInv, [Next]_vars
    PROVE  EmittedInv'
<1>1. phase \in Before => step = FirstStep
    BY DEF Running, LoopsInRange
<1>2. CASE UNCHANGED vars
    <2>1. UNCHANGED rankVars /\ circuit' = circuit /\ phase' = phase /\ step' = step
        BY <1>2 DEF vars, settingVars
    <2>2. \A q \in Queries : Emitted(q)' = Emitted(q)
        BY <2>1 DEF Emitted
    <2> QED
        BY <2>1, <2>2, EmittedWaits DEF EmittedInv
<1>3. CASE BuildPages \/ PackOwner \/ BoundFrontier
    <2>1. /\ phase \in Before /\ phase' \in Before \cup {"hop1"}
          /\ UNCHANGED <<settingVars, step, rankVars>>
        <3>1. CASE BuildPages
            BY <3>1 DEF BuildPages, PlaceKey, RefuseLayout, FinishOwner, Before
        <3>2. CASE PackOwner
            BY <3>2 DEF PackOwner, Before
        <3>3. CASE BoundFrontier
            BY <3>3 DEF BoundFrontier, CheckFrontier, Before
        <3> QED
            BY <1>3, <3>1, <3>2, <3>3
    <2>2. step = FirstStep /\ step.query = 1 /\ step' = step /\ circuit' = circuit
        BY <1>1, <2>1 DEF FirstStep, settingVars
    <2>3. \A q \in Queries : ~(q < 1)
        BY DEF Queries
    <2>4. \A q \in Queries : Emitted(q) = 0
        BY <2>1 DEF Emitted, Before
    <2>5. \A q \in Queries : Emitted(q)' = 0
        BY <2>1, <2>2, <2>3 DEF Emitted, Before
    <2> QED
        BY <2>1, <2>2, <2>4, <2>5, EmittedWaits
<1>4. CASE CircuitStep
    BY <1>4, EmittedReads, EmittedRanks
<1>5. CASE Finished
    BY <1>2, <1>5 DEF Finished
<1> QED
    BY <1>2, <1>3, <1>4, <1>5 DEF Next, CircuitStep

\* An answer more than TopK is never out.
LEMMA EmittedBounded ==
    ASSUME Running, EmittedInv, NEW q \in Queries
    PROVE  Len(output[q]) <= TopK
<1>1. Len(output[q]) = Emitted(q) /\ TopK \in Nat \ {0}
    BY Constants DEF EmittedInv
<1>2. CASE phase = "rank"
    <2>1. step.entry \in 1 .. TopK
        BY <1>2 DEF Running, LoopsInRange, LastEntry
    <2>2. Emitted(q) \in {0, TopK, step.entry - 1}
        BY <1>2 DEF Emitted
    <2> QED
        BY <1>1, <2>1, <2>2
<1>3. CASE phase # "rank"
    <2>1. Emitted(q) \in {0, TopK}
        BY <1>3 DEF Emitted
    <2> QED
        BY <1>1, <2>1
<1> QED
    BY <1>2, <1>3

-----------------------------------------------------------------------------
(* What holds throughout.                                                  *)

CircuitInv == PrepInv /\ ScheduleInv /\ SettingsInv /\ DataInv /\ EmittedInv

LEMMA CircuitInvInit == Init => CircuitInv
    BY PrepInit, ScheduleInit, DataInit, EmittedInit DEF CircuitInv

LEMMA CircuitInvNext == CircuitInv /\ [Next]_vars => CircuitInv'
<1> SUFFICES ASSUME CircuitInv, [Next]_vars PROVE CircuitInv'
    OBVIOUS
<1>1. Running /\ DataInv /\ EmittedInv
    BY DEF CircuitInv, Running, ScheduleInv
<1>2. PrepInv' /\ ScheduleInv'
    BY PrepNext, ScheduleNext DEF CircuitInv
<1> QED
    BY <1>1, <1>2, DataNext, EmittedNext DEF CircuitInv

\* A file that was packed is made of slots.
LEMMA PackedTyped ==
    ASSUME circuit \in Circuits, edges \in [Owners -> EdgeFiles], NEW o \in Owners, PackedFile(o)
    PROVE  blocks[o] \in [1 .. (IF ReadsBlocks(circuit) THEN EntityCount ELSE DirectoryRows)
                            -> [1 .. OwnerWidth -> Slots]]
<1>1. blocks[o] = PackedOwner(o) /\ \A n \in DOMAIN edges[o] : ValidEdge(edges[o][n])
    BY DEF PackedFile
<1>2. \A n \in DOMAIN edges[o] : Packed(edges[o][n]) \in Slots
    BY <1>1, EdgeFillsSlot
<1>3. CASE ReadsBlocks(circuit)
    <2>1. OwnerWidth = FanoutPerOwner
        BY <1>3 DEF OwnerWidth, WidthOf
    <2>2. ASSUME NEW e
          PROVE  BlockOf(o, e) \in [1 .. FanoutPerOwner -> Slots]
        <3> DEFINE rows == RowsOf(o, e)
        <3>1. rows \in SUBSET DOMAIN edges[o]
            BY DEF RowsOf
        <3> HIDE DEF rows
        <3>2. rows \in SUBSET Nat /\ IsFiniteSet(rows)
            BY <3>1, FileRowsFinite
        <3>3. Cardinality(rows) \in Nat /\ \A n \in 1 .. Cardinality(rows) : Nth(rows, n) \in rows
            BY <3>2, NthElement
        <3>4. ASSUME NEW n \in 1 .. FanoutPerOwner
              PROVE  (IF n <= Cardinality(rows) THEN Packed(edges[o][Nth(rows, n)]) ELSE NoEdge) \in Slots
            <4>1. CASE n <= Cardinality(rows)
                <5>1. n \in 1 .. Cardinality(rows)
                    BY <3>3, <4>1
                <5>2. Nth(rows, n) \in DOMAIN edges[o]
                    BY <3>1, <3>3, <5>1
                <5> QED
                    BY <1>2, <4>1, <5>2
            <4>2. CASE ~(n <= Cardinality(rows))
                BY <4>2, NoEdgeIsSlot
            <4> QED
                BY <4>1, <4>2
        <3>5. BlockOf(o, e) = [n \in 1 .. FanoutPerOwner |->
                IF n <= Cardinality(rows) THEN Packed(edges[o][Nth(rows, n)]) ELSE NoEdge]
            BY DEF BlockOf, rows
        <3> QED
            BY <3>4, <3>5
    <2>3. PackedOwner(o) = [n \in 1 .. EntityCount |-> BlockOf(o, n - 1)]
        BY <1>3 DEF PackedOwner
    <2> QED
        BY <1>1, <1>3, <2>1, <2>2, <2>3
<1>4. CASE ~ReadsBlocks(circuit)
    <2>1. OwnerWidth = SlotsPerKey
        BY <1>4 DEF OwnerWidth, WidthOf
    <2>2. ASSUME NEW k
          PROVE  RecordOf(o, k) \in [1 .. SlotsPerKey -> Slots]
        <3>1. PICK order \in Orders(o, k) : RecordOf(o, k) = PaddedGroup(o, order)
            BY OrdersExist DEF RecordOf
        <3>2. order \in [1 .. Degree(o, k) -> Rows(o, k)] /\ Rows(o, k) \subseteq DOMAIN edges[o]
            BY DEF Orders, Rows
        <3>3. \A s \in DOMAIN order : Packed(edges[o][order[s]]) \in Slots
            BY <1>2, <3>2
        <3>4. PaddedGroup(o, order) \in [1 .. SlotsPerKey -> Slots]
            BY <3>3, NoEdgeIsSlot DEF PaddedGroup
        <3> QED
            BY <3>1, <3>4
    <2>3. PackedOwner(o) = [n \in 1 .. DirectoryRows |-> RecordOf(o, n - 1)]
        BY <1>4 DEF PackedOwner
    <2> QED
        BY <1>1, <1>4, <2>1, <2>2, <2>3
<1> QED
    BY <1>3, <1>4

LEMMA TypeFromInv == CircuitInv => TypeOK
<1> SUFFICES ASSUME CircuitInv PROVE TypeOK
    OBVIOUS
<1>1. /\ PrepInv /\ LoopsInRange /\ SettingsInv /\ ReadShape /\ EmittedInv /\ Running
      /\ circuit \in Circuits /\ edges \in [Owners -> EdgeFiles]
    BY DEF CircuitInv, ScheduleInv, DataInv, Running, PrepInv, FilesPacked
<1>2. circuit.reads \in {"stacks", "pages"} => LayoutTypeOK
    BY <1>1, LayoutTypeFromInv DEF PrepInv, Paged
<1>3. ASSUME NEW o \in Owners, blocks[o] # <<>>
      PROVE  blocks[o] \in [1 .. (IF ReadsBlocks(circuit) THEN EntityCount ELSE DirectoryRows)
                              -> [1 .. OwnerWidth -> Slots]]
    BY <1>1, <1>3, PackedTyped DEF PrepInv, FilesPacked
<1>4. step.query \in Queries /\ step.entry \in 1 .. LastEntry /\ step.owner \in 1 .. LastOwner
    BY <1>1 DEF LoopsInRange
<1>5. \A q \in Queries : Len(output[q]) <= TopK
    BY <1>1, EmittedBounded
<1>6. /\ hop1 \in [Queries -> [1 .. SecondWidth -> Slots]]
      /\ frontier \in [Queries -> [Frontier -> Slots]]
      /\ hop2 \in [Queries -> [Frontier -> [1 .. SecondWidth -> Slots]]]
      /\ circuit \in Circuits /\ deduplicate \in Deduplications
      /\ queries \in [Queries -> QuerySpace]
    BY <1>1 DEF ReadShape, SettingsInv
<1> QED
    BY <1>2, <1>3, <1>4, <1>5, <1>6 DEF TypeOK

(* The arrays keep their public widths and the loops their public ranges,  *)
(* whatever the files and queries: no key of any owner, no admitted width  *)
(* and no circuit takes a step out of the types the compiled program has.  *)
THEOREM ShapesStayPublic == Spec => []TypeOK
<1>1. Init => CircuitInv
    BY CircuitInvInit
<1>2. CircuitInv /\ [Next]_vars => CircuitInv'
    BY CircuitInvNext
<1>3. CircuitInv => TypeOK
    BY TypeFromInv
<1> QED
    BY <1>1, <1>2, <1>3, PTL DEF Spec

-----------------------------------------------------------------------------
\* An epoch of one-stack records is only started after its bound check.
BoundsChecked == \A c \in Circuits : c.reads = "records" => RecordsChecked

LEMMA BoundsGiveFit ==
    ASSUME BoundsChecked, PrepInv, Ready
    PROVE  FrontierFits
BY DEF BoundsChecked, PrepInv, FrontierFits, BoundChecked

(* A query whose frontier is compacted has the edges of its first hop.     *)
LEMMA FrontierIs ==
    ASSUME CircuitInv, Ready, NEW q \in Queries, IsCompacted(q), \A s : HasHop1(q, s)
    PROVE  frontier[q] = FrontierFrom(Hop1Of(q))
<1>1. hop1[q] \in [1 .. SecondWidth -> Slots] /\ Hop1Of(q) \in [1 .. SecondWidth -> Slots]
    BY ReadsTyped DEF CircuitInv, DataInv, ReadShape, Running, ScheduleInv
<1>2. \A s \in 1 .. SecondWidth : hop1[q][s] = Hop1Of(q)[s]
    BY DEF CircuitInv, DataInv, Hop1Right
<1>3. hop1[q] = Hop1Of(q)
    <2> DEFINE a == hop1[q]
               b == Hop1Of(q)
    <2>1. /\ a \in [1 .. SecondWidth -> Slots] /\ b \in [1 .. SecondWidth -> Slots]
          /\ \A s \in 1 .. SecondWidth : a[s] = b[s]
        BY <1>1, <1>2
    <2> HIDE DEF a, b
    <2>2. a = b
        <3> DEFINE S == 1 .. SecondWidth
        <3>1. /\ a \in [S -> Slots] /\ b \in [S -> Slots]
              /\ \A s \in S : a[s] = b[s]
            BY <2>1
        <3> HIDE DEF S
        <3>2. a = [s \in S |-> a[s]] /\ b = [s \in S |-> b[s]]
            BY <3>1
        <3>3. [s \in S |-> a[s]] = [s \in S |-> b[s]]
            BY <3>1
        <3> QED
            BY <3>2, <3>3
    <2> QED
        BY <2>2 DEF a, b
<1> QED
    BY <1>3 DEF CircuitInv, DataInv, FrontierRight

LEMMA FrontierFromInv == BoundsChecked /\ CircuitInv => FrontierComplete
<1> SUFFICES ASSUME BoundsChecked, CircuitInv, NEW q \in Queries, HasFrontier(q)
             PROVE  Cardinality({f \in Frontier : IsMatch(frontier[q][f])}) =
                    Cardinality(Facts(queries[q].source, queries[q].relation1))
    BY DEF FrontierComplete
<1> DEFINE e == queries[q].source
           r == queries[q].relation1
           row == frontier[q]
<1>1. /\ phase \in {"hop2", "rank", "done"}
      /\ circuit.reads = "baseline" /\ phase = "rank" => q <= step.query
    BY DEF HasFrontier
<1>2. Ready /\ IsCompacted(q) /\ \A s : HasHop1(q, s)
    BY <1>1 DEF Ready, Before, IsCompacted, HasHop1, IsRead
<1>3. /\ PrepInv /\ circuit \in Circuits /\ Running /\ FrontierFits
      /\ edges \in [Owners -> EdgeFiles]
    BY <1>2, BoundsGiveFit DEF CircuitInv, PrepInv, Running, ScheduleInv, FilesPacked
<1>4. e \in Nat /\ r \in Nat
    BY <1>2, <1>3, ReadsTyped
<1>5. row = FrontierFrom(FullRead(e, r))
    BY <1>2, FrontierIs DEF Hop1Of
<1> HIDE DEF e, r, row
<1>6. row \in CleanRows(FrontierSlots) /\ Lists(row, Facts(e, r))
    BY <1>2, <1>3, <1>4, <1>5, FrontierLists
<1>7. {f \in Frontier : IsMatch(row[f])} = Matches(row)
    BY <1>6 DEF CleanRows, Frontier, Matches
<1>8. Cardinality(Matches(row)) = Cardinality(Facts(e, r))
    <2>1. PICK at : IsListing(at, row, Facts(e, r))
        BY <1>6 DEF Lists
    <2>2. Facts(e, r) \in SUBSET AllFacts /\ FrontierSlots \in Nat
        BY <1>3, FactsByOwner, WidthsNatural
    <2> QED
        BY <1>3, <1>6, <2>1, <2>2, ListingOrder
<1> QED
    BY <1>7, <1>8 DEF e, r, row

(* The frontier of every query holds as many edges as the federation has   *)
(* for its first hop, for every circuit whose bound was checked: paging,   *)
(* blocks, records and compaction to a public width lose none.             *)
THEOREM FrontierLosesNothing ==
    ASSUME BoundsChecked
    PROVE  Spec => []FrontierComplete
<1>1. Init => CircuitInv
    BY CircuitInvInit
<1>2. CircuitInv /\ [Next]_vars => CircuitInv'
    BY CircuitInvNext
<1>3. CircuitInv => FrontierComplete
    BY FrontierFromInv
<1> QED
    BY <1>1, <1>2, <1>3, PTL DEF Spec

-----------------------------------------------------------------------------
(* What the ranks have emitted and taken out.                              *)

JoinedCandidates(q) == {c \in Candidates : Joined(q, c)}

\* The order the scan prefers candidates in.
Beats(q, c, d) ==
    \/ Score(q, c) > Score(q, d)
    \/ Score(q, c) = Score(q, d) /\ ScannedBefore(c, d)

\* The candidates that are to win: the best of every terminal entity, or all.
KeptCandidates(q) ==
    IF deduplicate
    THEN {c \in JoinedCandidates(q) :
             ~\E d \in JoinedCandidates(q) :
                 Beats(q, d, c) /\ Terminal(q, d) = Terminal(q, c)}
    ELSE JoinedCandidates(q)

PlaceOf(q, c) == Cardinality({d \in KeptCandidates(q) : Beats(q, d, c)})

\* Candidate w takes c along when it wins.
Covers(q, w, c) == IF deduplicate THEN Terminal(q, w) = Terminal(q, c) ELSE w = c

\* The winners so far are the first of the kept candidates, they have taken
\* out what they cover, and nothing follows the last of them.
RankedRight(q, out, taken) ==
    /\ \A c \in JoinedCandidates(q) :
          taken[c] # 0 <=> \E w \in KeptCandidates(q) :
                               PlaceOf(q, w) \in 0 .. Len(out) - 1 /\ Covers(q, w, c)
    /\ \A n \in DOMAIN out :
          IF n > Cardinality(KeptCandidates(q)) THEN out[n] = NoAnswer
          ELSE \E c \in KeptCandidates(q) : PlaceOf(q, c) = n - 1 /\ out[n] = Answer(q, c)

RankInv == \A q \in Queries : RankedRight(q, output[q], selected[q])

BeatOrder(q) ==
    {p \in JoinedCandidates(q) \X JoinedCandidates(q) : Beats(q, p[1], p[2])}

\* How the candidates of a query compare.
IsOrdered(q) ==
    /\ IsFiniteSet(JoinedCandidates(q))
    /\ \A c \in JoinedCandidates(q) : ~Beats(q, c, c)
    /\ \A c, d, e \in JoinedCandidates(q) :
          Beats(q, c, d) /\ Beats(q, d, e) => Beats(q, c, e)
    /\ \A c, d \in JoinedCandidates(q) : c # d => Beats(q, c, d) \/ Beats(q, d, c)

LEMMA CandidatesOrdered ==
    ASSUME Running, ReadShape, NEW q \in Queries
    PROVE  IsOrdered(q)
<1> DEFINE J == JoinedCandidates(q)
<1>1. FrontierSlots \in Nat /\ SecondWidth \in Nat
    BY WidthsNatural DEF Running, PrepInv, SettingsInv
<1>2. \A c \in J : /\ c \in Frontier \X (1 .. SecondWidth)
                   /\ c[1] \in Frontier /\ c[2] \in 1 .. SecondWidth
    BY DEF JoinedCandidates, Candidates
<1>3. \A c \in J : c[1] \in Nat /\ c[2] \in Nat /\ c = <<c[1], c[2]>>
    BY <1>1, <1>2 DEF Frontier
<1>4. ASSUME NEW c \in J
      PROVE  Score(q, c) \in Nat
    <2>1. c[1] \in Frontier /\ c[2] \in 1 .. SecondWidth
        BY <1>2
    <2>2. frontier[q] \in [Frontier -> Slots] /\ hop2[q] \in [Frontier -> [1 .. SecondWidth -> Slots]]
        BY DEF ReadShape
    <2>3. hop2[q][c[1]] \in [1 .. SecondWidth -> Slots]
        BY <2>1, <2>2
    <2>4. frontier[q][c[1]] \in Slots /\ hop2[q][c[1]][c[2]] \in Slots
        BY <2>1, <2>2, <2>3
    <2>5. frontier[q][c[1]].score \in Nat /\ hop2[q][c[1]][c[2]].score \in Nat
        BY <2>4 DEF Slots
    <2> QED
        BY <2>5 DEF Score
<1>5. IsFiniteSet(J)
    <2>1. IsFiniteSet(Frontier) /\ IsFiniteSet(1 .. SecondWidth)
        BY <1>1, FS_Interval DEF Frontier
    <2>2. IsFiniteSet(Candidates)
        BY <2>1, FS_Product DEF Candidates
    <2>3. J \in SUBSET Candidates
        BY DEF JoinedCandidates
    <2> QED
        BY <2>2, <2>3, FS_Subset
<1> HIDE DEF J
<1>6. \A c, d \in J : Beats(q, c, d) <=>
        \/ Score(q, c) > Score(q, d)
        \/ /\ Score(q, c) = Score(q, d)
           /\ c[1] < d[1] \/ (c[1] = d[1] /\ c[2] < d[2])
    BY DEF Beats, ScannedBefore
<1>7. \A c \in J : ~Beats(q, c, c)
    BY <1>3, <1>4, <1>6
<1>8. \A c, d, e \in J : Beats(q, c, d) /\ Beats(q, d, e) => Beats(q, c, e)
    BY <1>3, <1>4, <1>6
<1>9. ASSUME NEW c \in J, NEW d \in J, c # d
      PROVE  Beats(q, c, d) \/ Beats(q, d, c)
    <2>1. c[1] # d[1] \/ c[2] # d[2]
        BY <1>3, <1>9
    <2> QED
        BY <1>3, <1>4, <1>6, <2>1
<1> QED
    BY <1>5, <1>7, <1>8, <1>9 DEF IsOrdered, J

\* How the kept candidates are placed and what they cover.
IsKept(q) ==
    /\ KeptCandidates(q) \subseteq JoinedCandidates(q)
    /\ IsFiniteSet(KeptCandidates(q)) /\ Cardinality(KeptCandidates(q)) \in Nat
    /\ \A w \in KeptCandidates(q) : PlaceOf(q, w) \in 0 .. Cardinality(KeptCandidates(q)) - 1
    /\ \A v, w \in KeptCandidates(q) : Beats(q, v, w) <=> PlaceOf(q, v) < PlaceOf(q, w)
    /\ \A v, w \in KeptCandidates(q) : PlaceOf(q, v) = PlaceOf(q, w) => v = w
    /\ \A n \in 0 .. Cardinality(KeptCandidates(q)) - 1 :
          \E w \in KeptCandidates(q) : PlaceOf(q, w) = n
    /\ \A c \in JoinedCandidates(q) : \E w \in KeptCandidates(q) : Covers(q, w, c)
    /\ \A w \in KeptCandidates(q), c \in JoinedCandidates(q) :
          Covers(q, w, c) => w = c \/ Beats(q, w, c)
    /\ \A v, w \in KeptCandidates(q), c \in JoinedCandidates(q) :
          Covers(q, v, c) /\ Covers(q, w, c) => v = w

LEMMA SubsetRanked ==
    ASSUME NEW q, IsOrdered(q), NEW S \in SUBSET JoinedCandidates(q)
    PROVE  /\ IsFiniteSet(S)
           /\ \A c \in S : RankOf(BeatOrder(q), S, c) = Cardinality({d \in S : Beats(q, d, c)})
           /\ \A c, d \in S : <<c, d>> \in BeatOrder(q) <=> Beats(q, c, d)
           /\ IsRanked(BeatOrder(q), S)
<1> DEFINE R == BeatOrder(q)
<1>1. IsFiniteSet(S)
    BY FS_Subset DEF IsOrdered
<1>2. \A c, d \in S : <<c, d>> \in R <=> Beats(q, c, d)
    BY DEF BeatOrder
<1> HIDE DEF R
<1>3. /\ \A c \in S : ~Beats(q, c, c)
      /\ \A c, d, e \in S : Beats(q, c, d) /\ Beats(q, d, e) => Beats(q, c, e)
      /\ \A c, d \in S : c # d => Beats(q, c, d) \/ Beats(q, d, c)
    BY DEF IsOrdered
<1>4. IsStrictOrder(R, S)
    BY <1>2, <1>3 DEF IsStrictOrder
<1>5. IsRanked(R, S)
    BY <1>1, <1>4, Ranking
<1>6. ASSUME NEW c \in S
      PROVE  RankOf(R, S, c) = Cardinality({d \in S : Beats(q, d, c)})
    <2>1. Below(R, S, c) = {d \in S : Beats(q, d, c)}
        BY <1>2 DEF Below
    <2> QED
        BY <2>1 DEF RankOf
<1> QED
    BY <1>1, <1>2, <1>5, <1>6 DEF R

LEMMA KeptArePlaced ==
    ASSUME NEW q, IsOrdered(q)
    PROVE  IsKept(q)
<1> DEFINE J == JoinedCandidates(q)
           K == KeptCandidates(q)
           R == BeatOrder(q)
<1>1. K \in SUBSET J
    BY DEF KeptCandidates
<1>2. /\ IsFiniteSet(K)
      /\ \A c \in K : RankOf(R, K, c) = PlaceOf(q, c)
      /\ \A c, d \in K : <<c, d>> \in R <=> Beats(q, c, d)
      /\ IsRanked(R, K)
    BY <1>1, SubsetRanked DEF PlaceOf
<1>3. Cardinality(K) \in Nat
    BY <1>2, FS_CardinalityType
<1>4. ASSUME NEW c \in J
      PROVE  \E w \in K : Covers(q, w, c)
    <2>1. CASE ~deduplicate
        BY <2>1 DEF KeptCandidates, Covers
    <2>2. CASE deduplicate
        <3> DEFINE S == {d \in J : Terminal(q, d) = Terminal(q, c)}
        <3>1. S \in SUBSET J /\ c \in S
            OBVIOUS
        <3>2. /\ IsFiniteSet(S)
              /\ \A d \in S : RankOf(R, S, d) = Cardinality({e \in S : Beats(q, e, d)})
              /\ \A d, e \in S : <<d, e>> \in R <=> Beats(q, d, e)
              /\ IsRanked(R, S)
            BY <3>1, SubsetRanked
        <3>3. 0 \in 0 .. Cardinality(S) - 1
            <4>1. RankOf(R, S, c) \in 0 .. Cardinality(S) - 1
                BY <3>1, <3>2 DEF IsRanked
            <4>2. Cardinality(S) \in Nat
                BY <3>2, FS_CardinalityType
            <4> HIDE DEF S
            <4> QED
                BY <4>1, <4>2
        <3>4. PICK w \in S : RankOf(R, S, w) = 0
            BY <3>2, <3>3 DEF IsRanked
        <3>5. \A d \in S : ~Beats(q, d, w)
            <4>1. \A d \in S : RankOf(R, S, d) \in 0 .. Cardinality(S) - 1
                BY <3>2 DEF IsRanked
            <4>2. \A d \in S : ~(RankOf(R, S, d) < 0)
                <5> HIDE DEF S
                <5> QED
                    BY <4>1
            <4>3. \A d \in S : <<d, w>> \in R <=> RankOf(R, S, d) < RankOf(R, S, w)
                BY <3>2, <3>4 DEF IsRanked
            <4> HIDE DEF S
            <4> QED
                BY <3>2, <3>4, <4>2, <4>3
        <3>6. w \in J /\ Terminal(q, w) = Terminal(q, c)
            BY <3>4
        <3>7. \A d \in J : Terminal(q, d) = Terminal(q, w) => d \in S
            BY <3>6
        <3> HIDE DEF S
        <3>8. w \in K
            BY <2>2, <3>5, <3>6, <3>7 DEF KeptCandidates
        <3> QED
            BY <2>2, <3>6, <3>8 DEF Covers
    <2> QED
        BY <2>1, <2>2
<1>5. \A w \in K, c \in J : Covers(q, w, c) => w = c \/ Beats(q, w, c)
    <2>1. ASSUME NEW w \in K, NEW c \in J, deduplicate, Covers(q, w, c)
          PROVE  w = c \/ Beats(q, w, c)
        <3>1. Terminal(q, w) = Terminal(q, c) /\ w \in J
            BY <1>1, <2>1 DEF Covers
        <3>2. ~Beats(q, c, w)
            BY <2>1, <3>1 DEF KeptCandidates
        <3> QED
            BY <3>1, <3>2 DEF IsOrdered
    <2> QED
        BY <2>1 DEF Covers
<1>6. \A v, w \in K, c \in J : Covers(q, v, c) /\ Covers(q, w, c) => v = w
    <2>1. ASSUME NEW v \in K, NEW w \in K, NEW c \in J, deduplicate,
                 Covers(q, v, c), Covers(q, w, c)
          PROVE  v = w
        <3>1. Terminal(q, v) = Terminal(q, w) /\ v \in J /\ w \in J
            BY <1>1, <2>1 DEF Covers
        <3>2. ~Beats(q, v, w) /\ ~Beats(q, w, v)
            BY <2>1, <3>1 DEF KeptCandidates
        <3> QED
            BY <3>1, <3>2 DEF IsOrdered
    <2> QED
        BY <2>1 DEF Covers
<1> HIDE DEF K, J, R
<1>7. /\ \A w \in K : PlaceOf(q, w) \in 0 .. Cardinality(K) - 1
      /\ \A v, w \in K : Beats(q, v, w) <=> PlaceOf(q, v) < PlaceOf(q, w)
      /\ \A v, w \in K : PlaceOf(q, v) = PlaceOf(q, w) => v = w
      /\ \A n \in 0 .. Cardinality(K) - 1 : \E w \in K : PlaceOf(q, w) = n
    BY <1>2 DEF IsRanked
<1> QED
    BY <1>1, <1>2, <1>3, <1>4, <1>5, <1>6, <1>7 DEF IsKept, K, J

(* A scan finds the kept candidate whose place is next, if there is one.   *)
LEMMA NextWinner ==
    ASSUME NEW q \in Queries, IsKept(q), IsOrdered(q),
           RankedRight(q, output[q], selected[q]), Len(output[q]) \in Nat
    PROVE  /\ \A v \in KeptCandidates(q) : PlaceOf(q, v) = Len(output[q]) => Winner(q) = {v}
           /\ Len(output[q]) >= Cardinality(KeptCandidates(q)) => Winner(q) = {}
<1> DEFINE J == JoinedCandidates(q)
           K == KeptCandidates(q)
           A == Available(q)
           n == Len(output[q])
<1>1. \A c : c \in A <=> c \in J /\ selected[q][c] = 0
    BY DEF Available, JoinedCandidates
<1>2. \A c \in J : selected[q][c] # 0 <=> \E w \in K : PlaceOf(q, w) < n /\ Covers(q, w, c)
    <2>1. \A w \in K : PlaceOf(q, w) \in 0 .. n - 1 <=> PlaceOf(q, w) < n
        <3>1. \A w \in K : PlaceOf(q, w) \in 0 .. Cardinality(K) - 1
            BY DEF IsKept
        <3>2. n \in Nat
            OBVIOUS
        <3> HIDE DEF K, n
        <3> QED
            BY <3>1, <3>2
    <2> QED
        BY <2>1 DEF RankedRight
<1>3. \A c \in Candidates : c \in Winner(q) <=> c \in A /\ \A d \in A \ {c} : Beats(q, c, d)
    <2>1. ASSUME NEW c, NEW d \in A
          PROVE  (\/ Score(q, d) < Score(q, c)
                  \/ Score(q, d) = Score(q, c) /\ ScannedBefore(c, d)) <=> Beats(q, c, d)
        BY DEF Beats
    <2> QED
        BY <2>1 DEF Winner, IsBest
<1>4. Winner(q) \in SUBSET Candidates /\ A \in SUBSET Candidates /\ K \in SUBSET J
    BY DEF Winner, Available, IsKept
<1>5. /\ \A w \in K : PlaceOf(q, w) \in Nat /\ PlaceOf(q, w) < Cardinality(K)
      /\ Cardinality(K) \in Nat
    <2>1. /\ \A w \in K : PlaceOf(q, w) \in 0 .. Cardinality(K) - 1
          /\ Cardinality(K) \in Nat
        BY DEF IsKept
    <2> HIDE DEF K
    <2> QED
        BY <2>1
<1> HIDE DEF J, K, A, n
<1>6. ASSUME NEW v \in K, PlaceOf(q, v) = n
      PROVE  Winner(q) = {v}
    <2>1. \A w \in K : Covers(q, w, v) => w = v
        <3>1. Covers(q, v, v) /\ v \in J
            BY <1>4 DEF Covers
        <3> QED
            BY <3>1 DEF IsKept, J, K
    <2>2. v \in A
        BY <1>1, <1>2, <1>4, <1>6, <2>1, n \in Nat DEF n
    <2>3. ASSUME NEW d \in A, d # v
          PROVE  Beats(q, v, d)
        <3>1. d \in J /\ \A w \in K : Covers(q, w, d) => ~(PlaceOf(q, w) < n)
            BY <1>1, <1>2
        <3>2. PICK w \in K : Covers(q, w, d)
            BY <3>1 DEF IsKept, J, K
        <3>3. w = d \/ Beats(q, w, d)
            BY <3>1, <3>2 DEF IsKept, J, K
        <3>4. CASE w = v
            BY <2>3, <3>3, <3>4
        <3>5. CASE w # v
            <4>1. PlaceOf(q, w) # PlaceOf(q, v)
                BY <3>5 DEF IsKept, K
            <4>2. PlaceOf(q, v) < PlaceOf(q, w)
                BY <1>5, <1>6, <3>1, <3>2, <4>1 DEF n
            <4>3. Beats(q, v, w)
                BY <4>2 DEF IsKept, K
            <4>4. v \in J /\ w \in J
                BY <1>4
            <4> QED
                BY <3>1, <3>3, <4>3, <4>4 DEF IsOrdered, J
        <3> QED
            BY <3>4, <3>5
    <2>4. v \in Winner(q)
        BY <1>3, <1>4, <2>2, <2>3
    <2>5. ASSUME NEW c \in Winner(q), c # v
          PROVE  FALSE
        <3>1. c \in A /\ Beats(q, c, v) /\ Beats(q, v, c)
            BY <1>3, <1>4, <2>2, <2>3, <2>5
        <3>2. c \in J /\ v \in J
            BY <1>1, <1>4, <3>1
        <3> QED
            BY <3>1, <3>2 DEF IsOrdered, J
    <2> QED
        BY <2>4, <2>5
<1>7. ASSUME n >= Cardinality(K)
      PROVE  Winner(q) = {}
    <2>1. ASSUME NEW c \in A
          PROVE  FALSE
        <3>1. c \in J /\ selected[q][c] = 0
            BY <1>1
        <3>2. PICK w \in K : Covers(q, w, c)
            BY <3>1 DEF IsKept, J, K
        <3>3. PlaceOf(q, w) < n
            BY <1>5, <1>7, <3>2 DEF n
        <3> QED
            BY <1>2, <3>1, <3>2, <3>3
    <2> QED
        BY <1>3, <1>4, <2>1
<1> QED
    BY <1>6, <1>7 DEF K, n

(* A rank keeps what is emitted and taken out right.                       *)
LEMMA RankStaysRight ==
    ASSUME NEW q \in Queries, IsKept(q), IsOrdered(q),
           RankedRight(q, output[q], selected[q]), output[q] \in Seq(Answers),
           selected[q] \in [Candidates -> {0, 1}], \A c \in Candidates : Answer(q, c) \in Answers
    PROVE  RankedRight(q, RankedOutput(q), RankedSelected(q))
<1> DEFINE J == JoinedCandidates(q)
           K == KeptCandidates(q)
           n == Len(output[q])
           out == UNION {TakenOut(q, c) : c \in Winner(q)}
<1>1. /\ n \in Nat /\ Cardinality(K) \in Nat /\ K \in SUBSET J /\ J \in SUBSET Candidates
      /\ DOMAIN output[q] = 1 .. n
    BY DEF IsKept, JoinedCandidates
<1>2. \A w \in K : PlaceOf(q, w) \in Nat /\ PlaceOf(q, w) < Cardinality(K)
    <2>1. /\ \A w \in K : PlaceOf(q, w) \in 0 .. Cardinality(K) - 1
        BY DEF IsKept
    <2> HIDE DEF K
    <2> QED
        BY <1>1, <2>1
<1>3. /\ \A v \in K : PlaceOf(q, v) = n => Winner(q) = {v}
      /\ n >= Cardinality(K) => Winner(q) = {}
    BY <1>1, NextWinner
<1>4. /\ \A c \in J : selected[q][c] # 0 <=> \E w \in K : PlaceOf(q, w) < n /\ Covers(q, w, c)
      /\ \A i \in 1 .. n :
            IF i > Cardinality(K) THEN output[q][i] = NoAnswer
            ELSE \E c \in K : PlaceOf(q, c) = i - 1 /\ output[q][i] = Answer(q, c)
    <2>1. \A w \in K : PlaceOf(q, w) \in 0 .. n - 1 <=> PlaceOf(q, w) < n
        <3> HIDE DEF K, n
        <3> QED
            BY <1>1, <1>2
    <2> QED
        BY <1>1, <2>1 DEF RankedRight
<1>5. RankedSelected(q) = [d \in Candidates |-> selected[q][d] + IF d \in out THEN 1 ELSE 0]
    BY DEF RankedSelected
<1> HIDE DEF J, K, n
<1>6. \A c \in J : RankedSelected(q)[c] # 0 <=> selected[q][c] # 0 \/ c \in out
    <2> HIDE DEF out
    <2>1. \A c \in J : selected[q][c] \in {0, 1}
        BY <1>1
    <2> QED
        BY <1>1, <1>5, <2>1
<1>7. \A answer \in Answers : RankedOutput(q) = Append(output[q], answer) =>
        /\ Len(RankedOutput(q)) = n + 1 /\ DOMAIN RankedOutput(q) = 1 .. n + 1
        /\ \A i \in 1 .. n : RankedOutput(q)[i] = output[q][i]
        /\ RankedOutput(q)[n + 1] = answer
    <2> DEFINE s == output[q]
    <2>1. s \in Seq(Answers)
        OBVIOUS
    <2> HIDE DEF s
    <2>2. \A a \in Answers : /\ Len(Append(s, a)) = Len(s) + 1
                             /\ DOMAIN Append(s, a) = 1 .. Len(s) + 1
                             /\ \A i \in 1 .. Len(s) : Append(s, a)[i] = s[i]
                             /\ Append(s, a)[Len(s) + 1] = a
        BY <2>1
    <2> QED
        BY <2>2 DEF n, s
<1>8. ASSUME NEW v \in K, PlaceOf(q, v) = n, Answer(q, v) \in Answers
      PROVE  RankedRight(q, RankedOutput(q), RankedSelected(q))
    <2>1. Winner(q) = {v} /\ out = TakenOut(q, v)
        BY <1>3, <1>8
    <2>2. RankedOutput(q) = Append(output[q], Answer(q, v))
        BY <2>1 DEF RankedOutput
    <2>3. \A c \in J : c \in out <=> Covers(q, v, c)
        BY <1>1, <2>1 DEF TakenOut, Covers
    <2> HIDE DEF out
    <2>4. ASSUME NEW c \in J
          PROVE  RankedSelected(q)[c] # 0 <=>
                    \E w \in K : PlaceOf(q, w) < n + 1 /\ Covers(q, w, c)
        <3>1. \A w \in K : PlaceOf(q, w) < n + 1 <=> PlaceOf(q, w) < n \/ w = v
            <4>1. \A w \in K : PlaceOf(q, w) = PlaceOf(q, v) => w = v
                BY DEF IsKept, K
            <4> QED
                BY <1>1, <1>2, <1>8, <4>1
        <3> QED
            BY <1>4, <1>6, <2>3, <3>1
    <2>5. n + 1 <= Cardinality(K)
        BY <1>1, <1>2, <1>8
    <2>6. ASSUME NEW i \in 1 .. n + 1
          PROVE  IF i > Cardinality(K) THEN RankedOutput(q)[i] = NoAnswer
                 ELSE \E c \in K : PlaceOf(q, c) = i - 1 /\ RankedOutput(q)[i] = Answer(q, c)
        <3>1. CASE i = n + 1
            <4>1. RankedOutput(q)[i] = Answer(q, v) /\ PlaceOf(q, v) = i - 1 /\ ~(i > Cardinality(K))
                BY <1>1, <1>7, <1>8, <2>2, <2>5, <3>1
            <4> QED
                BY <4>1
        <3>2. CASE i # n + 1
            <4>1. i \in 1 .. n
                BY <1>1, <3>2
            <4>2. RankedOutput(q)[i] = output[q][i]
                BY <1>7, <1>8, <2>2, <4>1
            <4> QED
                BY <1>4, <4>1, <4>2
        <3> QED
            BY <3>1, <3>2
    <2>7. \A w \in K : PlaceOf(q, w) \in 0 .. (n + 1) - 1 <=> PlaceOf(q, w) < n + 1
        BY <1>1, <1>2
    <2> QED
        BY <1>7, <1>8, <2>2, <2>4, <2>6, <2>7 DEF RankedRight, J, K
<1>9. ASSUME n >= Cardinality(K)
      PROVE  RankedRight(q, RankedOutput(q), RankedSelected(q))
    <2>1. Winner(q) = {} /\ out = {}
        BY <1>3, <1>9
    <2>2. RankedOutput(q) = Append(output[q], NoAnswer) /\ NoAnswer \in Answers
        BY <2>1 DEF RankedOutput, NoAnswer, Answers
    <2> HIDE DEF out
    <2>3. ASSUME NEW c \in J
          PROVE  RankedSelected(q)[c] # 0 <=>
                    \E w \in K : PlaceOf(q, w) < n + 1 /\ Covers(q, w, c)
        <3>1. \A w \in K : PlaceOf(q, w) < n + 1 <=> PlaceOf(q, w) < n
            BY <1>1, <1>2, <1>9
        <3> QED
            BY <1>4, <1>6, <2>1, <3>1
    <2>4. ASSUME NEW i \in 1 .. n + 1
          PROVE  IF i > Cardinality(K) THEN RankedOutput(q)[i] = NoAnswer
                 ELSE \E c \in K : PlaceOf(q, c) = i - 1 /\ RankedOutput(q)[i] = Answer(q, c)
        <3>1. CASE i = n + 1
            BY <1>1, <1>7, <1>9, <2>2, <3>1
        <3>2. CASE i # n + 1
            <4>1. i \in 1 .. n
                BY <1>1, <3>2
            <4>2. RankedOutput(q)[i] = output[q][i]
                BY <1>7, <2>2, <4>1
            <4> QED
                BY <1>4, <4>1, <4>2
        <3> QED
            BY <3>1, <3>2
    <2>5. \A w \in K : PlaceOf(q, w) \in 0 .. (n + 1) - 1 <=> PlaceOf(q, w) < n + 1
        BY <1>1, <1>2
    <2> QED
        BY <1>7, <2>2, <2>3, <2>4, <2>5 DEF RankedRight, J, K
<1>10. CASE n < Cardinality(K)
    <2>1. n \in 0 .. Cardinality(K) - 1
        BY <1>1, <1>10
    <2>2. PICK v \in K : PlaceOf(q, v) = n
        BY <2>1 DEF IsKept, K
    <2>3. Answer(q, v) \in Answers
        BY <1>1
    <2> QED
        BY <1>8, <2>2, <2>3
<1> QED
    BY <1>1, <1>9, <1>10

(* What was read of a query stays, so its candidates compare as before.    *)
LEMMA RanksSame ==
    ASSUME NEW q, UNCHANGED settingVars, frontier'[q] = frontier[q], hop2'[q] = hop2[q]
    PROVE  /\ JoinedCandidates(q)' = JoinedCandidates(q)
           /\ KeptCandidates(q)' = KeptCandidates(q)
           /\ \A c : PlaceOf(q, c)' = PlaceOf(q, c)
           /\ \A w, c : Covers(q, w, c)' <=> Covers(q, w, c)
           /\ \A c : Answer(q, c)' = Answer(q, c)
<1>1. deduplicate' = deduplicate /\ circuit' = circuit
    BY DEF settingVars
<1>2. Candidates' = Candidates
    BY <1>1 DEF Candidates, Frontier, FrontierSlots, SecondWidth, OwnerWidth
<1>3. \A c : /\ Joined(q, c)' <=> Joined(q, c)
             /\ Score(q, c)' = Score(q, c)
             /\ Answer(q, c)' = Answer(q, c)
    BY DEF Joined, IsMatch, Score, Answer
<1>4. \A c : Terminal(q, c)' = Terminal(q, c)
    BY <1>3 DEF Terminal
<1>5. JoinedCandidates(q)' = JoinedCandidates(q)
    BY <1>2, <1>3 DEF JoinedCandidates
<1>6. \A c, d : Beats(q, c, d)' <=> Beats(q, c, d)
    BY <1>3 DEF Beats, ScannedBefore
<1>7. KeptCandidates(q)' = KeptCandidates(q)
    BY <1>1, <1>4, <1>5, <1>6 DEF KeptCandidates
<1>8. \A c : PlaceOf(q, c)' = PlaceOf(q, c)
    BY <1>6, <1>7 DEF PlaceOf
<1>9. \A w, c : Covers(q, w, c)' <=> Covers(q, w, c)
    BY <1>1, <1>4 DEF Covers
<1> QED
    BY <1>3, <1>5, <1>7, <1>8, <1>9

\* Nothing emitted and nothing taken out is right, whatever was read.
LEMMA NothingRanked ==
    ASSUME NEW q, output[q] = <<>>, \A c \in Candidates : selected[q][c] = 0
    PROVE  RankedRight(q, output[q], selected[q])
<1>1. \A w : PlaceOf(q, w) \notin 0 .. Len(output[q]) - 1
    <2>1. Len(output[q]) = 0
        OBVIOUS
    <2>2. \A w : PlaceOf(q, w) \notin 0 .. 0 - 1
        OBVIOUS
    <2> QED
        BY <2>1, <2>2
<1>2. \A c \in JoinedCandidates(q) : selected[q][c] = 0
    BY DEF JoinedCandidates
<1> QED
    BY <1>1, <1>2 DEF RankedRight

LEMMA NothingRankedNext ==
    ASSUME NEW q, output'[q] = <<>>, \A c \in Candidates' : selected'[q][c] = 0
    PROVE  RankedRight(q, output[q], selected[q])'
<1>1. \A w : PlaceOf(q, w)' \notin 0 .. Len(output'[q]) - 1
    <2>1. Len(output'[q]) = 0
        OBVIOUS
    <2>2. \A w : PlaceOf(q, w)' \notin 0 .. 0 - 1
        OBVIOUS
    <2> QED
        BY <2>1, <2>2
<1>2. \A c \in JoinedCandidates(q)' : selected'[q][c] = 0
    BY DEF JoinedCandidates
<1> QED
    BY <1>1, <1>2 DEF RankedRight

LEMMA RankInvInit == Init => RankInv
<1> SUFFICES ASSUME Init, NEW q \in Queries
             PROVE  RankedRight(q, output[q], selected[q])
    BY DEF RankInv
<1>1. output[q] = <<>> /\ \A c \in Candidates : selected[q][c] = 0
    BY DEF Init
<1> QED
    BY <1>1, NothingRanked

LEMMA RankInvRanks ==
    ASSUME CircuitInv, OutInv, RankInv, RankStep
    PROVE  RankInv'
<1>1. /\ Running /\ DataInv /\ EmittedInv /\ ReadShape
      /\ selected \in [Queries -> [Candidates -> {0, 1}]]
    BY DEF CircuitInv, DataInv, Running, ScheduleInv, OutInv
<1>2. /\ UNCHANGED <<layoutVars, settingVars, blocks, readVars>>
      /\ output' = [q \in Queries |-> IF q \in RankedNow THEN RankedOutput(q) ELSE output[q]]
      /\ selected' = [q \in Queries |->
                         IF q \in RankedNow THEN RankedSelected(q) ELSE selected[q]]
    BY <1>1, RankEffect DEF EmittedInv
<1>3. frontier' = frontier /\ hop2' = hop2 /\ UNCHANGED settingVars
    BY <1>2 DEF readVars
<1>4. ASSUME NEW q \in Queries
      PROVE  RankedRight(q, output'[q], selected'[q])
    <2>1. RankedRight(q, output[q], selected[q])
        BY DEF RankInv
    <2>2. IsOrdered(q) /\ IsKept(q)
        BY <1>1, CandidatesOrdered, KeptArePlaced
    <2>3. output[q] \in Seq(Answers) /\ selected[q] \in [Candidates -> {0, 1}]
        BY <1>1 DEF EmittedInv
    <2>4. \A c \in Candidates : Answer(q, c) \in Answers
        BY <1>1, AnswersTyped
    <2>5. RankedRight(q, RankedOutput(q), RankedSelected(q))
        BY <2>1, <2>2, <2>3, <2>4, RankStaysRight
    <2>6. output'[q] = (IF q \in RankedNow THEN RankedOutput(q) ELSE output[q])
        BY <1>2
    <2>7. selected'[q] = (IF q \in RankedNow THEN RankedSelected(q) ELSE selected[q])
        BY <1>2
    <2>8. CASE q \in RankedNow
        BY <2>5, <2>6, <2>7, <2>8
    <2>9. CASE q \notin RankedNow
        BY <2>1, <2>6, <2>7, <2>9
    <2> QED
        BY <2>8, <2>9
<1>5. ASSUME NEW q \in Queries
      PROVE  RankedRight(q, output[q], selected[q])'
    <2>1. RankedRight(q, output'[q], selected'[q])
        BY <1>4
    <2>2. /\ JoinedCandidates(q)' = JoinedCandidates(q)
          /\ KeptCandidates(q)' = KeptCandidates(q)
          /\ \A c : PlaceOf(q, c)' = PlaceOf(q, c)
          /\ \A w, c : Covers(q, w, c)' <=> Covers(q, w, c)
          /\ \A c : Answer(q, c)' = Answer(q, c)
        BY <1>3, RanksSame
    <2> QED
        BY <2>1, <2>2 DEF RankedRight, NoAnswer
<1> QED
    BY <1>5 DEF RankInv

(* A step that ranks nothing leaves the queries that were read alone.      *)
LEMMA RankInvWaits ==
    ASSUME CircuitInv, OutInv, RankInv, [Next]_vars, ~RankStep
    PROVE  RankInv'
<1>1. /\ UNCHANGED <<settingVars, rankVars>> /\ circuit' = circuit
      /\ output' = output /\ selected' = selected
    <2>1. UNCHANGED <<settingVars, rankVars>>
        BY DEF Next, vars, RankStep, BuildPages, PackOwner, BoundFrontier, ReadHop1, Compact, ReadHop2,
               ScanHop1, CompactBatch, ScanHop2, ReadQuery, Finished
    <2> QED
        BY <2>1 DEF settingVars, rankVars
<1>2. Candidates' = Candidates
    BY <1>1 DEF Candidates, Frontier, FrontierSlots, SecondWidth, OwnerWidth
<1>3. ASSUME NEW q \in Queries, IsRead(q)
      PROVE  frontier'[q] = frontier[q] /\ hop2'[q] = hop2[q]
    <2>1. CASE UNCHANGED vars \/ Finished \/ BuildPages \/ PackOwner \/ BoundFrontier
        BY <2>1 DEF vars, readVars, Finished, BuildPages, PackOwner, BoundFrontier
    <2>2. CASE ReadHop1 \/ Compact \/ ReadHop2 \/ ScanHop1 \/ CompactBatch \/ ScanHop2
        BY <1>3, <2>2 DEF IsRead, ReadHop1, Compact, ReadHop2, ScanHop1, CompactBatch, ScanHop2, Stacked
    <2>3. CASE ReadQuery
        <3>1. phase = "hop1" /\ circuit.reads = "baseline"
            BY <2>3 DEF ReadQuery
        <3>2. q < step.query /\ step.query \in Nat
            BY <1>3, <3>1, Constants DEF IsRead, CircuitInv, ScheduleInv, LoopsInRange, Queries
        <3>3. q # step.query
            BY <3>2 DEF Queries
        <3>4. frontier \in [Queries -> [Frontier -> Slots]] /\ hop2 = [p \in Queries |-> hop2[p]]
            BY DEF CircuitInv, DataInv, ReadShape
        <3> QED
            BY <2>3, <3>3, <3>4 DEF ReadQuery
    <2> QED
        BY <2>1, <2>2, <2>3 DEF Next, RankStep
<1>4. ASSUME NEW q \in Queries
      PROVE  RankedRight(q, output[q], selected[q])'
    <2>1. RankedRight(q, output[q], selected[q])
        BY DEF RankInv
    <2>2. CASE IsRead(q)
        <3>1. /\ JoinedCandidates(q)' = JoinedCandidates(q)
              /\ KeptCandidates(q)' = KeptCandidates(q)
              /\ \A c : PlaceOf(q, c)' = PlaceOf(q, c)
              /\ \A w, c : Covers(q, w, c)' <=> Covers(q, w, c)
              /\ \A c : Answer(q, c)' = Answer(q, c)
            BY <1>1, <1>3, <2>2, RanksSame
        <3> QED
            BY <1>1, <2>1, <3>1 DEF RankedRight, NoAnswer
    <2>3. CASE ~IsRead(q)
        <3>1. output[q] = <<>> /\ \A c \in Candidates : selected[q][c] = 0
            BY <2>3 DEF CircuitInv, DataInv, Unranked, NothingSelected
        <3>2. output'[q] = <<>> /\ \A c \in Candidates' : selected'[q][c] = 0
            BY <1>1, <1>2, <3>1
        <3> QED
            BY <3>2, NothingRankedNext
    <2> QED
        BY <2>2, <2>3
<1> QED
    BY <1>4 DEF RankInv

\* What the answers follow from.
RanksInv == CircuitInv /\ OutInv /\ RankInv

LEMMA RanksInvInit == Init => RanksInv
    BY CircuitInvInit, OutInit, RankInvInit DEF RanksInv

LEMMA RanksInvNext == RanksInv /\ [Next]_vars => RanksInv'
    BY CircuitInvNext, OutNext, RankInvRanks, RankInvWaits DEF RanksInv

-----------------------------------------------------------------------------
(* Candidates and paths.                                                   *)

\* The frontier lists the first edges of the paths of a query, and the read
\* of an entry the edges that follow it.
IsReading(q, first, second) ==
    /\ IsListing(first, frontier[q], Facts(queries[q].source, queries[q].relation1))
    /\ \A f \in Matches(frontier[q]) :
          IsListing(second[f], hop2[q][f], Facts(frontier[q][f].target, queries[q].relation2))

LEMMA SecondIs ==
    ASSUME CircuitInv, Ready, NEW q \in Queries, IsRead(q), NEW f \in Frontier
    PROVE  hop2[q][f] = FullRead(frontier[q][f].target, queries[q].relation2)
<1> DEFINE a == hop2[q][f]
           b == FullRead(frontier[q][f].target, queries[q].relation2)
           S == 1 .. SecondWidth
<1>1. Running /\ DataInv /\ ReadShape
    BY DEF CircuitInv, Running, ScheduleInv, DataInv
<1>2. a \in [S -> Slots]
    <2>1. hop2[q] \in [Frontier -> [S -> Slots]]
        BY <1>1 DEF ReadShape
    <2> HIDE DEF S
    <2> QED
        BY <2>1
<1>3. b \in [S -> Slots]
    <2>1. frontier[q] \in [Frontier -> Slots]
        BY <1>1 DEF ReadShape
    <2>2. frontier[q][f] \in Slots
        BY <2>1
    <2>3. frontier[q][f].target \in Nat
        BY <2>2 DEF Slots
    <2>4. \A e \in Nat : FullRead(e, queries[q].relation2) \in [S -> Slots]
        BY <1>1, ReadsTyped
    <2> HIDE DEF S
    <2> QED
        BY <2>3, <2>4
<1>4. \A s \in S : a[s] = b[s]
    BY <1>1 DEF DataInv, Hop2Right, HasHop2, Hop2Of
<1> HIDE DEF a, b, S
<1>5. a = [s \in S |-> a[s]] /\ b = [s \in S |-> b[s]]
    BY <1>2, <1>3
<1>6. [s \in S |-> a[s]] = [s \in S |-> b[s]]
    BY <1>4
<1> QED
    BY <1>5, <1>6 DEF a, b

LEMMA ReadsListed ==
    ASSUME BoundsChecked, CircuitInv, NEW q \in Queries, IsRead(q)
    PROVE  /\ frontier[q] \in CleanRows(FrontierSlots)
           /\ \A f \in Frontier : hop2[q][f] \in CleanRows(SecondWidth)
           /\ \E first, second : IsReading(q, first, second)
<1> DEFINE e == queries[q].source
           r == queries[q].relation1
           r2 == queries[q].relation2
           row == frontier[q]
<1>1. Ready /\ IsCompacted(q) /\ \A s : HasHop1(q, s)
    BY DEF IsRead, Ready, Before, IsCompacted, HasHop1
<1>2. /\ PrepInv /\ circuit \in Circuits /\ Running /\ FrontierFits /\ ReadShape
      /\ edges \in [Owners -> EdgeFiles]
    BY <1>1, BoundsGiveFit DEF CircuitInv, PrepInv, Running, ScheduleInv, FilesPacked, DataInv
<1>3. e \in Nat /\ r \in Nat /\ r2 \in Nat
    BY <1>1, <1>2, ReadsTyped
<1>4. row = FrontierFrom(FullRead(e, r))
    BY <1>1, FrontierIs DEF Hop1Of
<1>5. ASSUME NEW f \in Frontier
      PROVE  row[f].target \in Nat /\ hop2[q][f] = FullRead(row[f].target, r2)
    <2>1. row \in [Frontier -> Slots]
        BY <1>2 DEF ReadShape
    <2>2. row[f] \in Slots
        BY <2>1
    <2>3. row[f].target \in Nat
        BY <2>2 DEF Slots
    <2> QED
        BY <1>1, <2>3, SecondIs
<1> HIDE DEF e, r, r2, row
<1>6. row \in CleanRows(FrontierSlots) /\ Lists(row, Facts(e, r))
    BY <1>1, <1>2, <1>3, <1>4, FrontierLists
<1>7. ASSUME NEW f \in Frontier
      PROVE  hop2[q][f] \in CleanRows(SecondWidth) /\ Lists(hop2[q][f], Facts(row[f].target, r2))
    <2> DEFINE t == row[f].target
    <2>1. t \in Nat /\ hop2[q][f] = FullRead(t, r2)
        BY <1>5
    <2> HIDE DEF t
    <2>2. FullRead(t, r2) \in CleanRows(SecondWidth) /\ Lists(FullRead(t, r2), Facts(t, r2))
        BY <1>1, <1>2, <1>3, <2>1, FullReadLists
    <2> QED
        BY <2>1, <2>2 DEF t
<1>8. PICK first : IsListing(first, row, Facts(e, r))
    BY <1>6 DEF Lists
<1> DEFINE second == [f \in Frontier |-> CHOOSE at : IsListing(at, hop2[q][f], Facts(row[f].target, r2))]
<1>9. \A f \in Frontier : IsListing(second[f], hop2[q][f], Facts(row[f].target, r2))
    <2>1. ASSUME NEW f \in Frontier
          PROVE  IsListing(second[f], hop2[q][f], Facts(row[f].target, r2))
        <3>1. \E at : IsListing(at, hop2[q][f], Facts(row[f].target, r2))
            BY <1>7 DEF Lists
        <3>2. second[f] = CHOOSE at : IsListing(at, hop2[q][f], Facts(row[f].target, r2))
            OBVIOUS
        <3> HIDE DEF second
        <3> QED
            BY <3>1, <3>2
    <2> QED
        BY <2>1
<1> HIDE DEF second
<1>10. Matches(row) \subseteq Frontier
    BY <1>6 DEF CleanRows, Matches, Frontier
<1>11. IsReading(q, first, second)
    BY <1>8, <1>9, <1>10 DEF IsReading, e, r, r2, row
<1> QED
    BY <1>6, <1>7, <1>11 DEF row

\* The answer for a path.
PathAnswer(p) ==
    [valid |-> 1, left |-> EdgeOf(p[1]).handle,
     right |-> EdgeOf(p[2]).handle, score |-> PathScore(p)]

\* The candidates are the paths, in the same order.
IsPathMap(q, path) ==
    /\ path \in [JoinedCandidates(q) -> Paths(q)]
    /\ \A c, d \in JoinedCandidates(q) : path[c] = path[d] => c = d
    /\ \A p \in Paths(q) : \E c \in JoinedCandidates(q) : path[c] = p
    /\ \A c, d \in JoinedCandidates(q) : Beats(q, c, d) <=> Better(path[c], path[d])
    /\ \A c \in JoinedCandidates(q) :
          Terminal(q, c) = EdgeOf(path[c][2]).target /\ Answer(q, c) = PathAnswer(path[c])

LEMMA PathsListed ==
    ASSUME edges \in [Owners -> EdgeFiles], circuit \in Circuits, NEW q \in Queries,
           frontier[q] \in CleanRows(FrontierSlots),
           \A f \in Frontier : hop2[q][f] \in CleanRows(SecondWidth),
           NEW first, NEW second, IsReading(q, first, second)
    PROVE  IsPathMap(q, [c \in JoinedCandidates(q) |-> <<first[c[1]], second[c[1]][c[2]]>>])
<1> DEFINE J == JoinedCandidates(q)
           path == [c \in J |-> <<first[c[1]], second[c[1]][c[2]]>>]
           F == frontier[q]
           H == hop2[q]
           M == Matches(F)
           facts == Facts(queries[q].source, queries[q].relation1)
           Next2(f) == Facts(F[f].target, queries[q].relation2)
<1>1. FrontierSlots \in Nat /\ SecondWidth \in Nat /\ Frontier = 1 .. FrontierSlots
    BY WidthsNatural DEF Frontier
<1>2. M \subseteq Frontier
    BY <1>1 DEF CleanRows, Matches
<1>3. /\ IsListing(first, F, facts)
      /\ \A f \in M : IsListing(second[f], H[f], Next2(f))
    BY DEF IsReading
<1>4. facts \in SUBSET AllFacts /\ \A f : Next2(f) \in SUBSET AllFacts
    BY FactsByOwner
<1>5. /\ \A f \in M : f \in Nat /\ first[f] \in facts /\ F[f] = Packed(EdgeOf(first[f]))
      /\ \A f, g \in M : FactBefore(first[f], first[g]) <=> f < g
      /\ \A f, g \in M : first[f] = first[g] => f = g
      /\ \A x \in facts : \E f \in M : first[f] = x
    <2>1. /\ \A f, g \in M : FactBefore(first[f], first[g]) <=> f < g
          /\ \A f, g \in M : first[f] = first[g] => f = g
        <3> HIDE DEF F, facts
        <3> QED
            BY <1>1, <1>3, <1>4, ListingOrder DEF F
    <2>2. \A f \in M : f \in Nat
        BY <1>1, <1>2
    <2> QED
        BY <1>3, <2>1, <2>2 DEF IsListing
<1>6. ASSUME NEW f \in M
      PROVE  /\ \A s \in Matches(H[f]) : /\ s \in Nat /\ s \in 1 .. SecondWidth
                                         /\ second[f][s] \in Next2(f)
                                         /\ H[f][s] = Packed(EdgeOf(second[f][s]))
             /\ \A s, t \in Matches(H[f]) : FactBefore(second[f][s], second[f][t]) <=> s < t
             /\ \A s, t \in Matches(H[f]) : second[f][s] = second[f][t] => s = t
             /\ \A x \in Next2(f) : \E s \in Matches(H[f]) : second[f][s] = x
    <2> DEFINE row == H[f]
               at == second[f]
               set == Next2(f)
    <2>1. row \in CleanRows(SecondWidth) /\ IsListing(at, row, set) /\ set \in SUBSET AllFacts
        BY <1>2, <1>3, <1>4
    <2> HIDE DEF row, at, set
    <2>2. /\ \A s, t \in Matches(row) : FactBefore(at[s], at[t]) <=> s < t
          /\ \A s, t \in Matches(row) : at[s] = at[t] => s = t
        BY <1>1, <2>1, ListingOrder
    <2>3. \A s \in Matches(row) : s \in Nat /\ s \in 1 .. SecondWidth
        BY <1>1, <2>1, MatchesNatural
    <2>4. /\ \A s \in Matches(row) : at[s] \in set /\ row[s] = Packed(EdgeOf(at[s]))
          /\ \A x \in set : \E s \in Matches(row) : at[s] = x
        BY <2>1 DEF IsListing
    <2> QED
        BY <2>2, <2>3, <2>4 DEF row, at, set
<1>7. \A c : c \in J <=> /\ c \in Frontier \X (1 .. SecondWidth)
                         /\ IsMatch(F[c[1]]) /\ IsMatch(H[c[1]][c[2]])
    BY DEF JoinedCandidates, Candidates, Joined
<1>8. ASSUME NEW c \in J
      PROVE  c[1] \in M /\ c[2] \in Matches(H[c[1]]) /\ c = <<c[1], c[2]>>
    <2>1. c[1] \in Frontier /\ c[2] \in 1 .. SecondWidth /\ c = <<c[1], c[2]>>
        BY <1>7
    <2>2. DOMAIN F = Frontier /\ DOMAIN H[c[1]] = 1 .. SecondWidth
        BY <1>1, <2>1 DEF CleanRows
    <2> QED
        BY <1>7, <2>1, <2>2 DEF Matches
<1>9. ASSUME NEW f \in M, NEW s \in Matches(H[f])
      PROVE  <<f, s>> \in J
    <2>1. f \in Frontier /\ s \in 1 .. SecondWidth /\ IsMatch(F[f]) /\ IsMatch(H[f][s])
        BY <1>2, <1>6 DEF Matches
    <2> QED
        BY <1>7, <2>1
<1>10. \A c \in J : path[c] = <<first[c[1]], second[c[1]][c[2]]>>
    OBVIOUS
<1>0. \A x : /\ Packed(x).target = x.target /\ Packed(x).handle = x.handle
             /\ Packed(x).score = x.score
    BY DEF Packed
<1>11. \A f \in M : Next2(f) = Facts(EdgeOf(first[f]).target, queries[q].relation2)
    <2>1. ASSUME NEW f \in M
          PROVE  F[f].target = EdgeOf(first[f]).target
        BY <1>0, <1>5
    <2> QED
        BY <2>1
<1>12. Paths(q) = UNION {{<<x, y>> : y \in Facts(EdgeOf(x).target, queries[q].relation2)} : x \in facts}
    BY DEF Paths
<1>13. \A c \in J : Terminal(q, c) = H[c[1]][c[2]].target /\ Score(q, c) = F[c[1]].score + H[c[1]][c[2]].score
    <2>1. \A c \in J : Joined(q, c)
        BY DEF JoinedCandidates
    <2> QED
        BY <2>1 DEF Terminal, Score
<1>14. \A c \in J : Answer(q, c) = [valid |-> 1, left |-> F[c[1]].handle,
                                    right |-> H[c[1]][c[2]].handle, score |-> Score(q, c)]
    BY DEF Answer
<1> HIDE DEF J, path, F, H, M, facts, Next2
<1>15. ASSUME NEW c \in J
       PROVE  /\ path[c] \in Paths(q)
              /\ F[c[1]] = Packed(EdgeOf(path[c][1])) /\ H[c[1]][c[2]] = Packed(EdgeOf(path[c][2]))
    <2>1. /\ c[1] \in M /\ c[2] \in Matches(H[c[1]])
          /\ path[c][1] = first[c[1]] /\ path[c][2] = second[c[1]][c[2]]
        BY <1>8, <1>10
    <2>2. first[c[1]] \in facts /\ second[c[1]][c[2]] \in Next2(c[1])
        BY <1>5, <1>6, <2>1
    <2>3. path[c] \in Paths(q)
        <3>1. \A x \in facts : \A y \in Facts(EdgeOf(x).target, queries[q].relation2) :
                <<x, y>> \in Paths(q)
            BY <1>12
        <3>2. second[c[1]][c[2]] \in Facts(EdgeOf(first[c[1]]).target, queries[q].relation2)
            BY <1>11, <2>1, <2>2
        <3> QED
            BY <1>10, <2>2, <3>1, <3>2
    <2> QED
        BY <1>5, <1>6, <2>1, <2>3
<1>16. ASSUME NEW c \in J
       PROVE  /\ Score(q, c) = PathScore(path[c])
              /\ Terminal(q, c) = EdgeOf(path[c][2]).target
              /\ Answer(q, c) = PathAnswer(path[c])
    <2>1. /\ F[c[1]].score = EdgeOf(path[c][1]).score /\ F[c[1]].handle = EdgeOf(path[c][1]).handle
          /\ H[c[1]][c[2]].score = EdgeOf(path[c][2]).score
          /\ H[c[1]][c[2]].handle = EdgeOf(path[c][2]).handle
          /\ H[c[1]][c[2]].target = EdgeOf(path[c][2]).target
        BY <1>0, <1>15
    <2>2. Score(q, c) = PathScore(path[c])
        BY <1>13, <2>1 DEF PathScore
    <2> QED
        BY <1>13, <1>14, <2>1, <2>2 DEF PathAnswer
<1>17. ASSUME NEW c \in J, NEW d \in J
       PROVE  ScannedBefore(c, d) <=>
                 \/ FactBefore(path[c][1], path[d][1])
                 \/ path[c][1] = path[d][1] /\ FactBefore(path[c][2], path[d][2])
    <2>1. /\ c[1] \in M /\ c[2] \in Matches(H[c[1]])
          /\ d[1] \in M /\ d[2] \in Matches(H[d[1]])
          /\ path[c][1] = first[c[1]] /\ path[c][2] = second[c[1]][c[2]]
          /\ path[d][1] = first[d[1]] /\ path[d][2] = second[d[1]][d[2]]
        BY <1>8, <1>10
    <2>2. /\ FactBefore(path[c][1], path[d][1]) <=> c[1] < d[1]
          /\ path[c][1] = path[d][1] <=> c[1] = d[1]
        BY <1>5, <2>1
    <2>3. c[1] = d[1] => (FactBefore(path[c][2], path[d][2]) <=> c[2] < d[2])
        BY <1>6, <2>1
    <2> QED
        BY <2>2, <2>3 DEF ScannedBefore
<1>18. \A c, d \in J : Beats(q, c, d) <=> Better(path[c], path[d])
    BY <1>16, <1>17 DEF Beats, Better
<1>19. ASSUME NEW c \in J, NEW d \in J, path[c] = path[d]
       PROVE  c = d
    <2>1. /\ c[1] \in M /\ c[2] \in Matches(H[c[1]]) /\ c = <<c[1], c[2]>>
          /\ d[1] \in M /\ d[2] \in Matches(H[d[1]]) /\ d = <<d[1], d[2]>>
          /\ first[c[1]] = first[d[1]] /\ second[c[1]][c[2]] = second[d[1]][d[2]]
        BY <1>8, <1>10, <1>19
    <2>2. c[1] = d[1]
        BY <1>5, <2>1
    <2>3. c[2] = d[2]
        BY <1>6, <2>1, <2>2
    <2> QED
        BY <2>1, <2>2, <2>3
<1>20. ASSUME NEW p \in Paths(q)
       PROVE  \E c \in J : path[c] = p
    <2>1. PICK x \in facts : \E y \in Facts(EdgeOf(x).target, queries[q].relation2) : p = <<x, y>>
        BY <1>12
    <2>2. PICK y \in Facts(EdgeOf(x).target, queries[q].relation2) : p = <<x, y>>
        BY <2>1
    <2>3. PICK f \in M : first[f] = x
        BY <1>5
    <2>4. y \in Next2(f)
        BY <1>11, <2>2, <2>3
    <2>5. PICK s \in Matches(H[f]) : second[f][s] = y
        BY <1>6, <2>4
    <2>6. <<f, s>> \in J
        BY <1>9
    <2>7. path[<<f, s>>] = p
        BY <1>10, <2>2, <2>3, <2>5, <2>6
    <2> QED
        BY <2>6, <2>7
<1>21. path \in [J -> Paths(q)]
    <2>1. path = [c \in J |-> path[c]]
        BY DEF path
    <2> QED
        BY <1>15, <2>1
<1>22. IsPathMap(q, path)
    BY <1>16, <1>18, <1>19, <1>20, <1>21 DEF IsPathMap, J
<1> QED
    BY <1>22 DEF path, J

\* A set of candidates and the set of their paths are of one size.
LEMMA PathsCounted ==
    ASSUME NEW q, NEW path, IsPathMap(q, path), NEW S \in SUBSET JoinedCandidates(q),
           IsFiniteSet(S), NEW T, \A p : p \in T <=> \E c \in S : path[c] = p
    PROVE  Cardinality(T) = Cardinality(S)
<1> DEFINE f == [c \in S |-> path[c]]
<1>1. \A c, d \in S : path[c] = path[d] => c = d
    BY DEF IsPathMap
<1>2. f \in [S -> T] /\ \A c \in S : f[c] = path[c]
    OBVIOUS
<1> HIDE DEF f
<1>3. f \in Injection(S, T)
    BY <1>1, <1>2 DEF Injection, IsInjective
<1>4. f \in Surjection(S, T)
    BY <1>2 DEF Surjection
<1>5. ExistsBijection(S, T)
    BY <1>3, <1>4 DEF ExistsBijection, Bijection
<1> QED
    BY <1>5, FS_Bijection

\* The paths that are promised are those of the kept candidates.
LEMMA KeptMapped ==
    ASSUME NEW q, IsKept(q), NEW path, IsPathMap(q, path)
    PROVE  /\ Cardinality(Kept(q)) = Cardinality(KeptCandidates(q))
           /\ \A c \in KeptCandidates(q) :
                 /\ path[c] \in Kept(q)
                 /\ Cardinality({d \in Kept(q) : Better(d, path[c])}) = PlaceOf(q, c)
<1> DEFINE J == JoinedCandidates(q)
           K == KeptCandidates(q)
<1>1. /\ \A c \in J : path[c] \in Paths(q) /\ Terminal(q, c) = EdgeOf(path[c][2]).target
      /\ \A c, d \in J : path[c] = path[d] => c = d
      /\ \A p \in Paths(q) : \E c \in J : path[c] = p
      /\ \A c, d \in J : Beats(q, c, d) <=> Better(path[c], path[d])
    BY DEF IsPathMap
<1>2. K \in SUBSET J /\ IsFiniteSet(K) /\ Kept(q) \in SUBSET Paths(q)
    BY DEF IsKept, Kept
<1>3. ASSUME NEW c \in J
      PROVE  c \in K <=> path[c] \in Kept(q)
    <2>1. CASE ~deduplicate
        BY <1>1, <2>1 DEF KeptCandidates, Kept
    <2>2. CASE deduplicate
        <3>1. c \in K <=> ~\E d \in J : Beats(q, d, c) /\ Terminal(q, d) = Terminal(q, c)
            BY <2>2 DEF KeptCandidates
        <3>2. path[c] \in Kept(q) <=>
                ~\E p \in Paths(q) : /\ Better(p, path[c])
                                     /\ EdgeOf(p[2]).target = EdgeOf(path[c][2]).target
            BY <1>1, <2>2 DEF Kept
        <3> HIDE DEF J, K
        <3>3. \A d \in J : Beats(q, d, c) /\ Terminal(q, d) = Terminal(q, c) <=>
                /\ Better(path[d], path[c])
                /\ EdgeOf(path[d][2]).target = EdgeOf(path[c][2]).target
            BY <1>1
        <3> QED
            BY <1>1, <3>1, <3>2, <3>3
    <2> QED
        BY <2>1, <2>2
<1> HIDE DEF J, K
<1>4. \A p : p \in Kept(q) <=> \E c \in K : path[c] = p
    BY <1>1, <1>2, <1>3
<1>5. Cardinality(Kept(q)) = Cardinality(K)
    BY <1>2, <1>4, PathsCounted DEF J
<1>6. ASSUME NEW c \in K
      PROVE  Cardinality({d \in Kept(q) : Better(d, path[c])}) = PlaceOf(q, c)
    <2> DEFINE S == {d \in K : Beats(q, d, c)}
               T == {p \in Kept(q) : Better(p, path[c])}
    <2>1. S \in SUBSET J /\ IsFiniteSet(S)
        <3>1. S \in SUBSET K
            OBVIOUS
        <3> HIDE DEF S
        <3> QED
            BY <1>2, <3>1, FS_Subset
    <2>2. \A p : p \in T <=> \E d \in S : path[d] = p
        BY <1>1, <1>2, <1>4
    <2>3. PlaceOf(q, c) = Cardinality(S)
        BY DEF PlaceOf, K
    <2> HIDE DEF S, T
    <2>4. Cardinality(T) = Cardinality(S)
        BY <2>1, <2>2, PathsCounted DEF J
    <2> QED
        BY <2>3, <2>4 DEF T
<1> QED
    BY <1>2, <1>3, <1>5, <1>6 DEF K

LEMMA AnswersFromInv == BoundsChecked /\ RanksInv => AnswersExact
<1> SUFFICES ASSUME BoundsChecked, RanksInv, NEW q \in Queries, NEW n \in DOMAIN output[q]
             PROVE  IsPromised(q, n, output[q][n])
    BY DEF AnswersExact
<1>1. /\ CircuitInv /\ Running /\ DataInv /\ ReadShape /\ PrepInv
      /\ circuit \in Circuits /\ edges \in [Owners -> EdgeFiles]
    BY DEF RanksInv, CircuitInv, Running, ScheduleInv, DataInv, PrepInv, FilesPacked
<1>2. IsRead(q)
    <2>1. DOMAIN <<>> = {}
        OBVIOUS
    <2> QED
        BY <1>1, <2>1 DEF DataInv, Unranked
<1>3. IsOrdered(q) /\ IsKept(q)
    BY <1>1, CandidatesOrdered, KeptArePlaced
<1>4. /\ frontier[q] \in CleanRows(FrontierSlots)
      /\ \A f \in Frontier : hop2[q][f] \in CleanRows(SecondWidth)
      /\ \E first, second : IsReading(q, first, second)
    BY <1>1, <1>2, ReadsListed
<1>5. PICK first, second : IsReading(q, first, second)
    BY <1>4
<1> DEFINE path == [c \in JoinedCandidates(q) |-> <<first[c[1]], second[c[1]][c[2]]>>]
<1>6. IsPathMap(q, path)
    BY <1>1, <1>4, <1>5, PathsListed
<1> HIDE DEF path
<1>7. /\ Cardinality(Kept(q)) = Cardinality(KeptCandidates(q))
      /\ \A c \in KeptCandidates(q) :
            /\ path[c] \in Kept(q)
            /\ Cardinality({d \in Kept(q) : Better(d, path[c])}) = PlaceOf(q, c)
    BY <1>3, <1>6, KeptMapped
<1>8. IF n > Cardinality(KeptCandidates(q)) THEN output[q][n] = NoAnswer
      ELSE \E c \in KeptCandidates(q) : PlaceOf(q, c) = n - 1 /\ output[q][n] = Answer(q, c)
    BY DEF RanksInv, RankInv, RankedRight
<1>9. CASE n > Cardinality(KeptCandidates(q))
    BY <1>7, <1>8, <1>9 DEF IsPromised
<1>10. CASE ~(n > Cardinality(KeptCandidates(q)))
    <2>1. PICK c \in KeptCandidates(q) : PlaceOf(q, c) = n - 1 /\ output[q][n] = Answer(q, c)
        BY <1>8, <1>10
    <2>2. Answer(q, c) = PathAnswer(path[c])
        BY <1>3, <1>6 DEF IsPathMap, IsKept
    <2>3. /\ path[c] \in Kept(q)
          /\ Cardinality({d \in Kept(q) : Better(d, path[c])}) = n - 1
        BY <1>7, <2>1
    <2> QED
        BY <1>7, <1>10, <2>1, <2>2, <2>3 DEF IsPromised, PathAnswer
<1> QED
    BY <1>9, <1>10

(* Whatever the files, the queries, the widths and the circuit: what is    *)
(* emitted is, rank by rank, what the plain join of the edge files gives,  *)
(* with its ties and its deduplication, as long as an epoch of records     *)
(* whose frontier is cut to one public width had its bound checked.        *)
THEOREM AnswersAreThePlainJoin ==
    ASSUME BoundsChecked
    PROVE  Spec => []AnswersExact
<1>1. Init => RanksInv
    BY RanksInvInit
<1>2. RanksInv /\ [Next]_vars => RanksInv'
    BY RanksInvNext
<1>3. RanksInv => AnswersExact
    BY AnswersFromInv
<1> QED
    BY <1>1, <1>2, <1>3, PTL DEF Spec
=============================================================================
