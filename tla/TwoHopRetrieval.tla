--------------------------- MODULE TwoHopRetrieval ---------------------------
(***************************************************************************)
(* The two-hop retrieval circuits over prepared graphs.  A query names a   *)
(* source and two relations.  A circuit reads the source's edges from      *)
(* every owner, compacts the matches into a frontier of public width,      *)
(* reads the second relation of every frontier entry from every owner, and *)
(* emits TopK answers, best score first.                                   *)
(*                                                                         *)
(* The circuits differ in how they read and in what they compact.          *)
(*   "stacks"    one owner, query and entry at a time through the owner's  *)
(*               ORAM stacks: a read takes the next access number of the   *)
(*               directory stack and the next PagesPerKey of the page      *)
(*               stack.  The numbers index the stashes, see OramAccess:    *)
(*               one used twice would overwrite a stash slot.              *)
(*   "records"   the same through one stack with a record for every key.   *)
(*   "pages"     all queries and entries in one scan of the paged layout.  *)
(*   "scan"      the same over blocks of all edges of an entity, of which  *)
(*               the circuit keeps those of the wanted relation.           *)
(*   "baseline"  blocks again, one query after the other.                  *)
(* The frontier has one public width for the federation ("global"), one    *)
(* for every owner ("owner"), or as many entries as were read ("full").    *)
(***************************************************************************)
EXTENDS RelationPages

CONSTANTS
    FanoutPerOwner,  \* edges of one entity an owner may hold, scan only
    RelationFanout,  \* of one entity and relation, compacting scan only
    QueryCount,
    TopK,
    Circuits,        \* the circuits, [reads, frontier] records
    RecordsChecked,  \* the one-stack epoch ran the bound check before it began
    Deduplications,  \* the settings of deduplication a configuration may have
    QuerySpace       \* the queries a client may ask

ASSUME CircuitAssumption ==
    /\ FanoutPerOwner \in Nat \ {0}
    /\ RelationFanout \in 1 .. FanoutPerOwner
    /\ Circuits \subseteq [reads : {"stacks", "records", "pages",
                                   "scan", "baseline"},
                           frontier : {"global", "owner", "full"}]
    /\ \A c \in Circuits :
          /\ c.reads \in {"stacks", "records"} => c.frontier = "global"
          /\ c.reads = "scan" => c.frontier # "global"
          /\ c.reads = "baseline" => c.frontier = "full"
          /\ c.reads = "pages" /\ c.frontier = "full" =>
                FrontierPerOwner = SlotsPerKey
    /\ RecordsChecked \in BOOLEAN

VARIABLES
    circuit,       \* the circuit the deployment compiled
    deduplicate,   \* a terminal entity is answered once per query
    queries,       \* queries[q]: source, relation1, relation2
    blocks,        \* blocks[o][n + 1]: the edges of entity or key n
    step,          \* position in the loop of the phase: query, entry, owner
    hop1,          \* hop1[q]: the first-hop matches, by flat slot
    frontier,      \* frontier[q]: the compacted matches
    hop2,          \* hop2[q][f]: the second-hop matches of frontier entry f
    selected,      \* selected[q][c]: how often candidate c was taken out
    output,        \* output[q]: the answers emitted so far
    directoryUsed, \* directoryUsed[o]: access numbers of the directory or of
                   \* the only stack, in order of use
    pageUsed       \* pageUsed[o]: the same for the page stack

settingVars == <<circuit, deduplicate, queries>>
readVars == <<hop1, frontier, hop2>>
rankVars == <<selected, output>>
usedVars == <<directoryUsed, pageUsed>>
vars == <<layoutVars, phase, settingVars, blocks, step, readVars, rankVars, usedVars>>

\* Circuits over ORAM stacks, and circuits over blocks of an entity's edges.
Stacked == circuit.reads \in {"stacks", "records"}
ReadsBlocks(c) == c.reads \in {"scan", "baseline"}

\* The slots one owner answers a read with.
WidthOf(c) == IF ReadsBlocks(c) THEN FanoutPerOwner ELSE SlotsPerKey

\* The frontier entries of one owner, when owners are compacted apart.
ShareOf(c) ==
    IF c.frontier = "full" THEN WidthOf(c)
    ELSE IF c.reads = "scan" THEN RelationFanout ELSE FrontierPerOwner

FrontierOf(c) ==
    IF c.frontier = "global" THEN GlobalFrontier ELSE OwnerCount * ShareOf(c)

ASSUME QueryAssumption ==
    /\ QueryCount \in Nat \ {0}
    /\ TopK \in Nat \ {0}
    /\ \A c \in Circuits : TopK <= FrontierOf(c) * OwnerCount * WidthOf(c)
    /\ Deduplications \subseteq BOOLEAN
    /\ QuerySpace \subseteq [source : Nat, relation1 : Nat, relation2 : Nat]

Queries == 1 .. QueryCount
OwnerWidth == WidthOf(circuit)
SecondWidth == OwnerCount * OwnerWidth
FrontierSlots == FrontierOf(circuit)
Frontier == 1 .. FrontierSlots
Candidates == Frontier \X (1 .. SecondWidth)

\* The accesses the schedule takes from each stack of an owner.
DirectoryAccesses == QueryCount * (1 + GlobalFrontier)
PageAccesses == DirectoryAccesses * PagesPerKey

NoEdges == [s \in 1 .. SecondWidth |-> NoEdge]
FirstStep == [query |-> 1, entry |-> 1, owner |-> 1]

\* Element number n of a set of numbers in ascending order.
Nth(S, n) == CHOOSE i \in S : Cardinality({j \in S : j < i}) = n - 1

-----------------------------------------------------------------------------
Init ==
    /\ LayoutInit
    /\ circuit \in Circuits
    /\ deduplicate \in Deduplications
    /\ circuit.reads = "baseline" => ~deduplicate
    /\ queries \in [Queries -> QuerySpace]
    /\ blocks = [o \in Owners |-> <<>>]
    /\ step = FirstStep
    /\ hop1 = [q \in Queries |-> NoEdges]
    /\ frontier = [q \in Queries |-> [f \in Frontier |-> NoEdge]]
    /\ hop2 = [q \in Queries |-> [f \in Frontier |-> NoEdges]]
    /\ selected = [q \in Queries |-> [c \in Candidates |-> 0]]
    /\ output = [q \in Queries |-> <<>>]
    /\ directoryUsed = [o \in Owners |-> <<>>]
    /\ pageUsed = [o \in Owners |-> <<>>]

\* The paged layouts; only a federation-wide frontier needs its check.
BuildPages ==
    /\ circuit.reads \in {"stacks", "pages"}
    /\ \/ \E k \in Keys(owner) : PlaceKey(k)
       \/ RefuseLayout
       \/ FinishOwner
    /\ UNCHANGED <<settingVars, blocks, step, readVars, rankVars, usedVars>>

BoundFrontier ==
    /\ IF circuit.frontier = "global"
       THEN CheckFrontier
       ELSE phase = "check" /\ phase' = "hop1" /\ UNCHANGED layoutVars
    /\ UNCHANGED <<settingVars, blocks, step, readVars, rankVars, usedVars>>

\* The rows of an entity in an owner's file.
RowsOf(o, entity) == {n \in DOMAIN edges[o] : edges[o][n].source = entity}

\* An owner refuses a file that is wider than the bounds it was told.
FitsBlocks(o) ==
    \A entity \in 1 .. EntityCount - 1 :
        /\ Cardinality(RowsOf(o, entity)) <= FanoutPerOwner
        /\ \A r \in 1 .. RelationCount :
              Degree(o, DirectoryIndex(entity, r)) <= ShareOf(circuit)

FitsRecords(o) == \A k \in Keys(o) : Degree(o, k) <= SlotsPerKey

\* A block keeps the rows in the order of the file, a record sorted.
BlockOf(o, entity) ==
    LET rows == RowsOf(o, entity)
    IN  [n \in 1 .. FanoutPerOwner |->
            IF n <= Cardinality(rows) THEN Packed(edges[o][Nth(rows, n)]) ELSE NoEdge]

RecordOf(o, k) == PaddedGroup(o, CHOOSE order \in Orders(o, k) : TRUE)

PackedOwner(o) ==
    IF ReadsBlocks(circuit)
    THEN [n \in 1 .. EntityCount |-> BlockOf(o, n - 1)]
    ELSE [n \in 1 .. DirectoryRows |-> RecordOf(o, n - 1)]

\* An owner packs its file, or refuses it.  One that packs records knows
\* nothing of the others: a federation-wide bound is a check of its own.
PackOwner ==
    /\ circuit.reads \in {"scan", "baseline", "records"}
    /\ phase = "build"
    /\ IF /\ \A n \in DOMAIN edges[owner] : ValidEdge(edges[owner][n])
          /\ IF ReadsBlocks(circuit) THEN FitsBlocks(owner) ELSE FitsRecords(owner)
       THEN /\ blocks' = [blocks EXCEPT ![owner] = PackedOwner(owner)]
            /\ IF owner < OwnerCount
               THEN owner' = owner + 1 /\ UNCHANGED phase
               ELSE /\ phase' = IF circuit.reads = "records" /\ RecordsChecked
                                THEN "check" ELSE "hop1"
                    /\ UNCHANGED owner
       ELSE phase' = "refused" /\ UNCHANGED <<owner, blocks>>
    /\ UNCHANGED <<edges, placed, directory, pool,
                   settingVars, step, readVars, rankVars, usedVars>>

\* Mutant: the entry loop runs once too often.
NextStepLate(entries, owners, nextPhase) ==
    IF step.owner < owners
    THEN step' = [step EXCEPT !.owner = @ + 1] /\ UNCHANGED phase
    ELSE IF step.entry <= entries
    THEN step' = [step EXCEPT !.entry = @ + 1, !.owner = 1] /\ UNCHANGED phase
    ELSE IF step.query < QueryCount
    THEN /\ step' = [step EXCEPT !.query = @ + 1, !.entry = 1, !.owner = 1]
         /\ UNCHANGED phase
    ELSE step' = FirstStep /\ phase' = nextPhase

\* The loops run over queries, frontier entries and owners, outermost first.
NextStep(entries, owners, nextPhase) ==
    IF step.owner < owners
    THEN step' = [step EXCEPT !.owner = @ + 1] /\ UNCHANGED phase
    ELSE IF step.entry < entries
    THEN step' = [step EXCEPT !.entry = @ + 1, !.owner = 1] /\ UNCHANGED phase
    ELSE IF step.query < QueryCount
    THEN /\ step' = [step EXCEPT !.query = @ + 1, !.entry = 1, !.owner = 1]
         /\ UNCHANGED phase
    ELSE step' = FirstStep /\ phase' = nextPhase

\* Mutant: the page counter advances by one.
TakeOnePage(o) ==
    /\ directoryUsed' = [directoryUsed EXCEPT ![o] = Append(@, Len(@))]
    /\ pageUsed' = [pageUsed EXCEPT ![o] = @ \o
                      [p \in 1 .. PagesPerKey |-> Len(directoryUsed[o]) + p - 1]]

\* The access numbers of one read of a key.
TakeAccesses(o) ==
    /\ directoryUsed' = [directoryUsed EXCEPT ![o] = Append(@, Len(@))]
    /\ pageUsed' = IF circuit.reads = "records" THEN pageUsed
                   ELSE [pageUsed EXCEPT ![o] = @ \o
                           [p \in 1 .. PagesPerKey |->
                              Len(directoryUsed[o]) * PagesPerKey + p - 1]]

IsMatch(slot) == slot.target # 0

\* A stored slot with a target out of range is no match.
Match(slot) == IF slot.target \in 1 .. EntityCount - 1 THEN slot ELSE NoEdge

\* The block of an entity without the edges of other relations.
Scanned(o, entity, relation) ==
    LET row == IF entity \in 1 .. EntityCount - 1 THEN entity ELSE 0
        block == blocks[o][row + 1]
    IN  [s \in DOMAIN block |->
            IF block[s].relation = relation THEN block[s] ELSE NoEdge]

\* The record of a key; an invalid key reads the dummy record of key 0.
Record(o, entity, relation) ==
    IF KeyOk(entity, relation)
    THEN blocks[o][DirectoryIndex(entity, relation) + 1]
    ELSE [s \in 1 .. SlotsPerKey |-> NoEdge]

\* What owner o answers for a key: OwnerWidth slots.
Answered(o, entity, relation) ==
    CASE ReadsBlocks(circuit) -> Scanned(o, entity, relation)
      [] circuit.reads = "records" -> Record(o, entity, relation)
      [] OTHER -> Window(o, entity, relation)

\* The owner of a flat slot, and the slot within the owner's part.
OwnerAt(s) == (s - 1) \div OwnerWidth + 1
SlotAt(s) == ((s - 1) % OwnerWidth) + 1

\* The slots of one owner, written to its part of a row of SecondWidth.
WithRead(row, o, entity, relation) ==
    [s \in 1 .. SecondWidth |->
        IF OwnerAt(s) = o
        THEN Match(Answered(o, entity, relation)[SlotAt(s)])
        ELSE row[s]]

\* A row with the answers of every owner.
FullRead(entity, relation) ==
    [s \in 1 .. SecondWidth |->
        Match(Answered(OwnerAt(s), entity, relation)[SlotAt(s)])]

ReadHop1 ==
    /\ Stacked
    /\ phase = "hop1"
    /\ LET q == step.query
       IN  hop1' = [hop1 EXCEPT ![q] =
             WithRead(@, step.owner, queries[q].source, queries[q].relation1)]
    /\ TakeAccesses(step.owner)
    /\ NextStep(1, OwnerCount, "compact")
    /\ UNCHANGED <<layoutVars, settingVars, blocks, frontier, hop2, rankVars>>

\* One scan answers the first hop of the whole batch.
ScanHop1 ==
    /\ circuit.reads \in {"pages", "scan"}
    /\ phase = "hop1"
    /\ hop1' = [q \in Queries |-> FullRead(queries[q].source, queries[q].relation1)]
    /\ phase' = "compact"
    /\ UNCHANGED <<layoutVars, settingVars, blocks, step, frontier, hop2,
                   rankVars, usedVars>>

\* Mutant: the row is cut without compaction.
CompactedPrefix(row, width) ==
    [f \in 1 .. width |-> IF f \in DOMAIN row THEN row[f] ELSE NoEdge]

\* The first matches of a row, in order.
Matches(row) == {s \in DOMAIN row : IsMatch(row[s])}
Compacted(row, width) ==
    [f \in 1 .. width |->
        IF f <= Cardinality(Matches(row)) THEN row[Nth(Matches(row), f)] ELSE NoEdge]

OwnerPart(row, o) == [s \in 1 .. OwnerWidth |-> row[(o - 1) * OwnerWidth + s]]

\* The frontier of a query: all owners' matches in one list, every owner's
\* in a list of its own, or the row as it is.
FrontierFrom(row) ==
    CASE circuit.frontier = "global" -> Compacted(row, GlobalFrontier)
      [] circuit.frontier = "full" -> row
      [] OTHER ->
           LET width == ShareOf(circuit)
           IN  [f \in Frontier |->
                  Compacted(OwnerPart(row, (f - 1) \div width + 1), width)
                    [((f - 1) % width) + 1]]

Compact ==
    /\ Stacked
    /\ phase = "compact"
    /\ frontier' = [frontier EXCEPT ![step.query] = FrontierFrom(hop1[step.query])]
    /\ NextStep(1, 1, "hop2")
    /\ UNCHANGED <<layoutVars, settingVars, blocks, hop1, hop2, rankVars, usedVars>>

CompactBatch ==
    /\ circuit.reads \in {"pages", "scan"}
    /\ phase = "compact"
    /\ frontier' = [q \in Queries |-> FrontierFrom(hop1[q])]
    /\ phase' = "hop2"
    /\ UNCHANGED <<layoutVars, settingVars, blocks, step, hop1, hop2,
                   rankVars, usedVars>>

\* The dependent read of a frontier entry; an empty entry asks for entity 0.
ReadHop2 ==
    /\ Stacked
    /\ phase = "hop2"
    /\ LET q == step.query
           f == step.entry
           middle == frontier[q][f].target
       IN  hop2' = [hop2 EXCEPT ![q][f] =
             WithRead(@, step.owner, middle, queries[q].relation2)]
    /\ TakeAccesses(step.owner)
    /\ NextStep(GlobalFrontier, OwnerCount, "rank")
    /\ UNCHANGED <<layoutVars, settingVars, blocks, hop1, frontier, rankVars>>

\* One scan answers every frontier entry of the batch.
ScanHop2 ==
    /\ circuit.reads \in {"pages", "scan"}
    /\ phase = "hop2"
    /\ hop2' = [q \in Queries |-> [f \in Frontier |->
                  FullRead(frontier[q][f].target, queries[q].relation2)]]
    /\ phase' = "rank"
    /\ UNCHANGED <<layoutVars, settingVars, blocks, step, hop1, frontier,
                   rankVars, usedVars>>

\* One query of a baseline: its blocks, the blocks of every first-hop slot.
\* The second hop only looks at the stored bit.
ReadQuery ==
    /\ circuit.reads = "baseline"
    /\ phase = "hop1"
    /\ LET q == step.query
           row == FullRead(queries[q].source, queries[q].relation1)
       IN  /\ hop1' = [hop1 EXCEPT ![q] = row]
           /\ frontier' = [frontier EXCEPT ![q] = row]
           /\ hop2' = [hop2 EXCEPT ![q] =
                 [f \in Frontier |-> [s \in 1 .. SecondWidth |->
                    Scanned(OwnerAt(s), row[f].target, queries[q].relation2)[SlotAt(s)]]]]
    /\ phase' = "rank"
    /\ UNCHANGED <<layoutVars, settingVars, blocks, step, rankVars, usedVars>>

Joined(q, c) == IsMatch(frontier[q][c[1]]) /\ IsMatch(hop2[q][c[1]][c[2]])
Score(q, c) == frontier[q][c[1]].score + hop2[q][c[1]][c[2]].score
Terminal(q, c) == IF Joined(q, c) THEN hop2[q][c[1]][c[2]].target ELSE 0

\* Candidates are scanned frontier entry by frontier entry.
ScannedBefore(c, d) == c[1] < d[1] \/ (c[1] = d[1] /\ c[2] < d[2])

\* Mutant: the scan forgets who won before.
AvailableAgain(q) == {c \in Candidates : Joined(q, c)}

Available(q) == {c \in Candidates : Joined(q, c) /\ selected[q][c] = 0}

\* Mutant: a later candidate of the same score replaces the best one.
IsBestLater(q, c) ==
    /\ c \in Available(q)
    /\ \A d \in Available(q) \ {c} :
          \/ Score(q, d) < Score(q, c)
          \/ Score(q, d) = Score(q, c) /\ ScannedBefore(d, c)

\* A candidate wins the scan when it beats all before it and ties all after.
IsBest(q, c) ==
    /\ c \in Available(q)
    /\ \A d \in Available(q) \ {c} :
          \/ Score(q, d) < Score(q, c)
          \/ Score(q, d) = Score(q, c) /\ ScannedBefore(c, d)

NoAnswer == [valid |-> 0, left |-> 0, right |-> 0, score |-> 0]
Answer(q, c) ==
    [valid |-> 1, left |-> frontier[q][c[1]].handle,
     right |-> hop2[q][c[1]][c[2]].handle, score |-> Score(q, c)]

\* The candidates a winner takes out of the next scans.
TakenOut(q, c) ==
    IF deduplicate
    THEN {d \in Candidates : Terminal(q, d) = Terminal(q, c)}
    ELSE {c}

\* The winner of a scan, as a set that is empty when nobody is available.
Winner(q) == {c \in Candidates : IsBest(q, c)}

RankedOutput(q) ==
    IF Winner(q) = {} THEN Append(output[q], NoAnswer)
    ELSE Append(output[q], Answer(q, CHOOSE c \in Winner(q) : TRUE))

RankedSelected(q) ==
    LET out == UNION {TakenOut(q, c) : c \in Winner(q)}
    IN  [d \in Candidates |-> selected[q][d] + IF d \in out THEN 1 ELSE 0]

\* One rank of one query: scan, take out, emit.
Rank ==
    /\ circuit.reads \in {"stacks", "records", "scan"}
    /\ phase = "rank"
    /\ output' = [output EXCEPT ![step.query] = RankedOutput(step.query)]
    /\ selected' = [selected EXCEPT ![step.query] = RankedSelected(step.query)]
    /\ NextStep(TopK, 1, "done")
    /\ UNCHANGED <<layoutVars, settingVars, blocks, readVars, usedVars>>

\* One rank of all queries, one vector lane for each.
RankLanes ==
    /\ circuit.reads = "pages"
    /\ phase = "rank"
    /\ output' = [q \in Queries |-> RankedOutput(q)]
    /\ selected' = [q \in Queries |-> RankedSelected(q)]
    /\ IF step.entry < TopK
       THEN step' = [step EXCEPT !.entry = @ + 1] /\ UNCHANGED phase
       ELSE step' = FirstStep /\ phase' = "done"
    /\ UNCHANGED <<layoutVars, settingVars, blocks, readVars, usedVars>>

\* A baseline goes on to the next query when a query is ranked.
RankQuery ==
    /\ circuit.reads = "baseline"
    /\ phase = "rank"
    /\ output' = [output EXCEPT ![step.query] = RankedOutput(step.query)]
    /\ selected' = [selected EXCEPT ![step.query] = RankedSelected(step.query)]
    /\ IF step.entry < TopK
       THEN step' = [step EXCEPT !.entry = @ + 1] /\ UNCHANGED phase
       ELSE IF step.query < QueryCount
       THEN step' = [FirstStep EXCEPT !.query = step.query + 1] /\ phase' = "hop1"
       ELSE step' = FirstStep /\ phase' = "done"
    /\ UNCHANGED <<layoutVars, settingVars, blocks, readVars, usedVars>>

\* Preparation was refused, or every answer is out.
Finished ==
    /\ phase \in {"refused", "done"}
    /\ UNCHANGED vars

Next ==
    \/ BuildPages \/ PackOwner \/ BoundFrontier
    \/ ReadHop1 \/ Compact \/ ReadHop2 \/ Rank
    \/ ScanHop1 \/ CompactBatch \/ ScanHop2 \/ RankLanes
    \/ ReadQuery \/ RankQuery
    \/ Finished

Spec == Init /\ [][Next]_vars

-----------------------------------------------------------------------------
LastEntry == CASE phase = "hop2" -> GlobalFrontier
               [] phase = "rank" -> TopK
               [] OTHER -> 1

LastOwner == IF phase \in {"hop1", "hop2"} THEN OwnerCount ELSE 1

(* The circuit's arrays keep their public widths and its loops their       *)
(* public ranges, whatever is read.                                        *)
TypeOK ==
    /\ circuit.reads \in {"stacks", "pages"} => LayoutTypeOK
    /\ circuit \in Circuits
    /\ deduplicate \in Deduplications
    /\ queries \in [Queries -> QuerySpace]
    /\ \A o \in Owners : blocks[o] # <<>> =>
          blocks[o] \in [1 .. (IF ReadsBlocks(circuit) THEN EntityCount
                                ELSE DirectoryRows) -> [1 .. OwnerWidth -> Slots]]
    /\ step.query \in Queries
    /\ step.entry \in 1 .. LastEntry
    /\ step.owner \in 1 .. LastOwner
    /\ hop1 \in [Queries -> [1 .. SecondWidth -> Slots]]
    /\ frontier \in [Queries -> [Frontier -> Slots]]
    /\ hop2 \in [Queries -> [Frontier -> [1 .. SecondWidth -> Slots]]]
    /\ \A q \in Queries : Len(output[q]) <= TopK

\* The edges of a key in the files of all owners, and their public order.
Facts(entity, relation) ==
    {f \in UNION {{o} \X DOMAIN edges[o] : o \in Owners} :
        LET e == edges[f[1]][f[2]]
        IN  e.source = entity /\ e.relation = relation}

\* A page or a record holds its rows sorted, a block in the order of the file.
FactBefore(f, g) ==
    \/ f[1] < g[1]
    \/ /\ f[1] = g[1]
       /\ IF ReadsBlocks(circuit) THEN f[2] < g[2]
          ELSE LexBefore(SortKey(f[1], f[2]), SortKey(g[1], g[2]))

EdgeOf(f) == edges[f[1]][f[2]]

\* The pairs of edges that answer a query, straight from the edge files.
Paths(q) ==
    UNION {{<<f, g>> : g \in Facts(EdgeOf(f).target, queries[q].relation2)} :
              f \in Facts(queries[q].source, queries[q].relation1)}

PathScore(c) == EdgeOf(c[1]).score + EdgeOf(c[2]).score

Better(c, d) ==
    \/ PathScore(c) > PathScore(d)
    \/ /\ PathScore(c) = PathScore(d)
       /\ FactBefore(c[1], d[1]) \/ (c[1] = d[1] /\ FactBefore(c[2], d[2]))

\* With deduplication only the best path to every terminal counts.
Kept(q) ==
    IF deduplicate
    THEN {c \in Paths(q) :
             ~\E d \in Paths(q) :
                 Better(d, c) /\ EdgeOf(d[2]).target = EdgeOf(c[2]).target}
    ELSE Paths(q)

IsPromised(q, n, answer) ==
    IF n > Cardinality(Kept(q))
    THEN answer = NoAnswer
    ELSE \E c \in Kept(q) :
            /\ Cardinality({d \in Kept(q) : Better(d, c)}) = n - 1
            /\ answer = [valid |-> 1, left |-> EdgeOf(c[1]).handle,
                         right |-> EdgeOf(c[2]).handle, score |-> PathScore(c)]

(* Every answer the circuit emits is the one the plain join of the edge    *)
(* files gives at that rank: paging, descriptor packing, compaction, the   *)
(* strict comparison of the scan and the removal of winners change neither *)
(* which paths are found nor how ties are broken, whichever circuit the    *)
(* deployment compiled (relation_pages.py, evaluate_paged_cleartext, and   *)
(* reference.py, evaluate_cleartext, as independent definitions).          *)
AnswersExact ==
    \A q \in Queries : \A n \in DOMAIN output[q] : IsPromised(q, n, output[q][n])

HasFrontier(q) ==
    /\ phase \in {"hop2", "rank", "done"}
    /\ circuit.reads = "baseline" /\ phase = "rank" => q <= step.query

(* The frontier holds every first-hop edge of the federation: the bound    *)
(* checked at preparation is what makes the public width lossless, the     *)
(* federation's, every owner's or the fanout of a relation.                *)
FrontierComplete ==
    \A q \in Queries :
        HasFrontier(q) =>
            Cardinality({f \in Frontier : IsMatch(frontier[q][f])}) =
            Cardinality(Facts(queries[q].source, queries[q].relation1))

NeverRepeats(used, budget) ==
    /\ \A i \in DOMAIN used : used[i] \in 0 .. budget - 1
    /\ \A i, j \in DOMAIN used : i # j => used[i] # used[j]

(* No access number of a stack is used twice, none is past the budget the  *)
(* stashes were sized for, and the circuit ends with the budget spent to   *)
(* the last access, for every query and every owner alike.                 *)
AccessesScheduled ==
    Stacked => \A o \in Owners :
        /\ NeverRepeats(directoryUsed[o], DirectoryAccesses)
        /\ NeverRepeats(pageUsed[o], PageAccesses)
        /\ phase = "done" =>
              /\ Len(directoryUsed[o]) = DirectoryAccesses
              /\ Len(pageUsed[o]) = IF circuit.reads = "records" THEN 0
                                    ELSE PageAccesses

(* A candidate is taken out of the scan at most once.  The circuit adds    *)
(* bits and multiplies by one minus the sum, so a second time would make a *)
(* candidate count as minus one.                                           *)
TakenOutOnce ==
    \A q \in Queries : \A c \in Candidates : selected[q][c] \in {0, 1}
=============================================================================
