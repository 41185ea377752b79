# A verification development of the three-party KG retrieval

The repository answers two-hop knowledge-graph queries over a federation of
owners without showing anyone the query or the owners' edges.  Its principal
backend, `doram_t2_3pc/`, keeps every owner's data in read-only recursive
tree-ORAM stacks that three servers hold as secret shares and read inside an
MP-SPDZ program.  This directory holds TLA+ modules that model that backend,
TLC configurations that check them on small instances, and proofs that TLAPS
checks for every instance.

All paths are relative to the repository's root.  `PROJECT.json` lists, for
every definition, the lines it models.

## 1. The system: parts, state, interaction

| part | state it keeps | operations | hard about it | what makes it correct |
|---|---|---|---|---|
| **owner ORAM stack** (`oram_layout.py`) | leaf labels of every level, trees, scanned base | draw labels, redraw a level that overflows, pack labels into the next level | bucket limits, padding of the last packed entry, when to stop recursing | every entry is in a bucket of the path its label names |
| **ORAM reader** (`relation_paged_oram_program.py`, `read_oram_level`, `_reader`) | one stash per level with a slot per scheduled access | walk from base to data; open a real label or a random one; serve from path or stash | entries of upper levels are shared by addresses; slots are addressed by a public counter; out-of-range requests | answers are the table's; no real label is opened twice; every access looks alike |
| **relation-paged layout** (`relation_pages.py`) | per owner a directory of packed descriptors and a pool of pages | group, sort, page, pad; refuse what does not fit | bit widths, page boundaries, tail rows, federation-wide bound | nothing dropped, duplicated or borrowed; shapes are public |
| **two-hop circuit** (`relation_paged_oram_program.py`) | matches of both hops, compacted frontier, access counters, taken-out flags | read, compact, read again, rank, emit | tie-breaking, loss by compaction, counters across two loops, deduplication by arithmetic on bits | the answers are those of the plain join |
| **epoch preparation** (`scripts/prepare_relation_paged_oram_instance.py`, `scripts/prepare_kg_oram_instance.py`, `relation_paged_oram_shares.py`) | segments, temporaries, inputs, manifest in one directory | refuse, share, check bound, assemble, rename, clean up, write manifest | fixed names, kills between renames, retries, no lock | one sharing per directory, never replaced |
| **epoch runners** (`run_relation_paged_oram_mpspdz.py`, `run_kg_oram_mpspdz.py`, `*_epoch.py`) | markers per instance and server; Player-Data and logs per MP-SPDZ home | compile, copy, consume, clear, launch, collect | races for an epoch, kills between markers, stale logs, shared homes | an epoch's shares are executed once; finished logs survive |
| result decoding (`decode_batch.py`, `decode.py`) | three logs, given by name | join shares by query, rank and field, refuse what is missing, repeated or no bit | no line says which session printed it | what is accepted is the exact batch |
| bound check (`bound_check_program.py`, `run_bound_check.py`) | occupancy shares, opened logs | add the owners' counts, evaluate a polynomial at each, open how many exceed the bound | the verdict is not tied to the inputs of the retrieval | zero exactly when the frontier suffices |
| paged scan circuit (`page_program.py`) | matches and frontiers of the whole batch | hash or block lookup, batched window reads, three kinds of compaction, ranking by lanes | two ways to fold the directory in the second hop; one lane per query | as the two-hop circuit |
| paged preparation and parties (`paged_shares.py`, `run_pages_party.py`) | shards, one assembled input per server, Player-Data, logs | share, assemble, start one party, return its log | a shard names no sharing, an input not even its server; a start that fails has already replaced an input; a party can fail after its last line | a returned log stands; accepted answers are exact |
| directories (`compact_directory.py`, `hybrid_directory.py`, `type_blocked_directory.py`) | hashed buckets, blocks per relation, residual tables | place, refuse a full bucket, pack several owners in one element, look up | owners and circuit draw the line between block and residual apart from each other | a key reads back what its owner placed |
| scan and baseline circuits (`scan_program.py`, `program.py`, `sqrt_program.py`) | blocks of all edges of an entity | batched scan with and without compaction; one query after the other | owner bounds on entities and on relations | as the two-hop circuit |
| one-stack KG ORAM (`kg_oram.py`, `kg_oram_program.py`, `kg_oram_shares.py`) | one stack per owner with a record for every key | as the dual stack | no federation bound is checked | as the two-hop circuit |
| multiparty point function (`multiparty_fss/keygen.py`, `evaluate.py`, `parity.py`, `params.py`, `projection.py`) | key shares | generate, evaluate, project, combine | parity of who holds which seed; a seed that is zero reads as "not held"; a grid that does not divide the universe | XOR of the shares is the point function |
| multiparty stores and lookups (`multiparty_fss/replication.py`, `service.py`, `orchestrator.py`, `requests.py`, `transport.py`) | a store directory per evaluator, what each process loaded from it | export, load, look up over sockets or in one process | an export overwrites files one at a time under servers and clients that load or have loaded | an answer is one generation's, or a refusal |
| two-party FSS, PIR, orchestration (`src/`) | opaque indexes, a service on a pipe | match, project, combine | unnumbered requests on the pipe | as above |
| experiment drivers (`scripts/run_cwq_mpc_*`) | domain summaries, a lock per home | lock, resume, run, aggregate | one summary file written by several workers | completed work is reported |
| planning, tools, WAN emulation | none between runs, or measurement only | | | |

**Interaction.**  Every owner builds two stacks, one over its directory and one
over its page pool.  Preparation shares them three ways and writes one input file
per server, with the query shares behind them.  A runner compiles the circuit,
copies the inputs to the MP-SPDZ home, marks the epoch consumed on each server
and launches three parties.  The circuit calls the two readers of each owner by
public access numbers and emits shares to three logs, which the client adds up.
The components share state through files with fixed names (preparation, runners)
and through the access counters (circuit, readers); nothing else.

The paged deployment without stacks works on the same owners' layouts.  Owners
and client share independently of each other and of the servers; each server
assembles its input from documents it was handed, three parties meet in a session
and the client joins three logs.  Nothing that passes between them carries a
number: neither a document its sharing nor a log its session.

The multiparty backend stands beside that.  An operator exports the owners'
snapshots into one store directory per evaluator, in place.  Servers load a
store when they start, clients when a command starts, file by file and with a
digest for each.  For a lookup the client makes one key share per evaluator,
bound to the universe it has loaded; every evaluator sweeps its own universe and
the client adds the answers up.

**Hazards.**  `PROJECT.json` lists under `hazards` what is hard to test here, at
its line, with the properties that would catch it.

## 2. Modules

| module | models | state ↔ code |
|---|---|---|
| `OramStack` | `build_owner_oram_stack`, `build_owner_oram_tree` | `pos[l]` is the `position_map` of level `l`, `built` the levels appended, `attempts` the draws of the retry loop |
| `OramAccess` | `_reader`, `read_oram_level` | `stash[l][n]` the three stash arrays at slot `n`; `leaf`, `level`, `chainValid` the reader's locals; `opened` records every revealed label |
| `ReadOnlyStore` | what a stack promises: a table that answers requests | |
| `RelationPages` | `build_owner_page_layout`, `check_global_frontier`, `read_relation_key` over the finished layout | `pool[o]`, `directory[o]` as in `OwnerPageLayout`; `Window` is what a key reads |
| `PagedDirectories` | the dense, compact, hybrid and partitioned directories over that layout: placement, an owner's vectors, assembly of the tables, the circuit's lookups, the polynomial of the bound check | `vectors[o]` what an owner shares, `assembled` the tables a server's input adds up to, `violations` the count the servers open |
| `TwoHopRetrieval` | the bodies of the rendered circuits: two stacks, one stack, pages with three frontiers, scan with two, the baselines; composes with `RelationPages` by EXTENDS | `hop1`, `frontier`, `hop2`, `selected` are the circuit's arrays; `directoryUsed`, `pageUsed` the values its counters took; `blocks` the records or blocks of an owner |
| `EpochPreparation` | `prepare_instance` of both preparation scripts, `write_owner_shards` | one variable per kind of file; a file is described by the runs its parts come from |
| `EpochRunner` | `run` of both runners, `consume_*_epoch_once` | `markers[e][s]`, `playerData[h][s]`, `logs[h][s]` are files; the rest are locals and what the parties did |
| `PagedDeployment` | the shard writers, `assemble_paged_server_input`, `run_party`, `decode_batch` | `documents`, `inputs`, `playerData`, `logs` are files; `party` the processes; `sessions` what three parties computed on; `returned` the logs the operator has |
| `MultipartyDpf` | `MultipartyKeyGenerator.generate`, the parity arrays, `evaluate_universe`, the projection, `combine` | a 64-bit word is the set of its one bits, a column of a parity array the set of parties that hold its seed; `arrays`, `seeds`, `words` are drawn in the order of `generate`; evaluation reads only `Sigma(i)` and `words`, which is what a key share contains |
| `MultipartyQuery` | export, store load, evaluator service, coordinator, orchestrator and socket client | `disk[e][f]` is a file, empty when it is truncated and not filled; `writer` the export's loops; `store[l]` what a server or a client has loaded; `dirty` and `disturbed` are history that only properties read |
| `*_proofs` | the theorems of section 4 | |
| `MCOramAccess`, `MCPagedDirectories`, `MCTwoHop`, `MCEpochRunner`, `MCPagedDeployment`, `MCMultipartyDpf`, `MCMultipartyQuery` | instances for TLC; `EpochPreparation` needs none | |

A stack level of the model is as large as the code allows it to be small: the
parameters `Size`, `Stride`, `Depth`, `Leaves`, `BucketSize` are related by
`StackAssumption` the way `_planned_stack` and the builder compute them, and the
proofs use only that.  The circuit is straight-line code, so `OramAccess` has one
behaviour per sequence of requests and draws; its steps are one level each.

`TwoHopRetrieval` reads the layout itself (`Window`) rather than two stacks.
That is what `StackImplementsStore` entitles it to: a stack answers like the
table.  What the stacks ask in return, that no access number is used twice or
past the budget, is the invariant `AccessesScheduled`.  In the same way the paged
circuits read the layout rather than one of four directories, which is what
`DescriptorsExact` entitles them to.  One module holds all circuits because
they share the frontier, the scores and the ranking; a circuit is a pair of how
it reads and how wide its frontier is, and every deployment picks one.

`PagedDeployment` describes an output log by its session and by whether it is
whole.  A party prints its last line (`PrintLast`) and ends (`Finish`) in two steps; if it
fails between them its log is whole although `run_party` raised, and the client
may decode it all the same.  Three whole logs decode when reconstruction gives
Booleans where Booleans are due.  Logs of one session do, whatever its inputs
were: the circuit computes well-formed rows.  Every session draws new output
shares, so sums over logs of different sessions are random field elements, which
the model takes never to be Booleans; that is an assumption, not a result.  The
program of a party is chosen apart from its input, as the arguments of
`run_party` are; the two have to agree in their number of values only.

`MultipartyQuery` uses `MultipartyDpf` as the circuit uses the stacks: the shares
that come from one key and one universe add up to the point function, which is
`PointFunction`, and `Combine` and `Query` take that value.

Definitions marked "Mutant" are not part of any model.  Each is a small error a
change of the code could introduce, and `PROJECT.json` says which property it
breaks.

## 3. Runs

| run | instance | shows |
|---|---|---|
| `oram_accesses` | 5 records, 3 levels of up to 2 leaves, padded entries, two draws, 3 accesses | every placement that fits, a draw that does not, reads in and out of range, repeated or meeting only at an upper level: `ReadCorrect`, `RealLeafOnce`, `FixedSchedule`, `IInv` and the refinement `StoreSpec` |
| `directories` | 2 owners, 3 entities, 2 relations, 32 files of up to 6 rows, pages of 2, 9 directory shapes, two with an ontology that leaves keys outside every block | `Lossless`, `DescriptorsExact`, `BoundVerdictExact`: groups of 0 to 6 rows meet every page boundary, both bounds and the budget; buckets fill and are refused; keys fall in and out of blocks |
| `two_hop` | 2 owners, up to 3 of 5 rows each, 2 queries, pages of 1, frontier of 3, 3 ranks, 8 circuits, with and without deduplication | `AnswersExact` against the join, `FrontierComplete`, `TakenOutOnce`, `AccessesScheduled`; the sum of two owners can pass the frontier, ties and equal terminals occur |
| `kg_frontier` | the one-stack circuit as its preparation leaves it | **violation** of `FrontierComplete` |
| `preparation_retries` | one preparer at a time, either program, 2 owners, 7 runs, 3 faults | `InputsOfOneRun`, `ManifestDescribesInputs`, `NoOverwrite`, and `RetriesRecover` |
| `preparation_race` | two preparers | **violation** of `NoOverwrite` |
| `runners` | 2 runners on 2 homes, 2 epochs, 3 runs | `EpochOnce`, `ConsumedIsCompiled`, `SharesUsedOnce`, `LogsAreOwn`, `EvidenceSurvivesReplay`, `RunEnds` |
| `kg_replay` | 1 runner of the one-stack program | **violation** of `EvidenceSurvivesReplay` |
| `shared_home` | 2 runners on one home | **violation** of `SharesUsedOnce` |
| `deployment` | 2 layouts of as many values, an owner that shares three times, a client with one batch, 3 servers with 2 logs each, 2 faults | `ReturnedLogsStand`, `AcceptedIsExact` |
| `point_function` | 3 evaluators, universes of 1, 3 and 7 points, every rank and the absent point, seeds of two blocks, two orders of the special row's columns, two word vectors | `PointFunction`, `SlotsExact`: grids with a part of the last row empty, every choice of seeds |
| `lookups` | 3 evaluators, 2 partitions, 3 generations, 2 exports, 1 kill, sockets and one process | `LoadedIsWhole`, `AnswerOfOneGeneration`, `RefusedOnlyIfDisturbed`, `LookupEnds` |

`AcceptedIsExact` has two premises.  The hosts of the session read inputs they
had assembled themselves for the program they ran (`OwnInputs`), and no sharer
has shared twice under digests this program accepts (`SharedOnce`).  Neither is
ensured by the code.  The first fails when an input is delivered to the wrong host,
was assembled for another layout with as many values, or is replaced by a start
that fails.  The second fails when an owner shares new edges, or the client another batch of the same
size, and a server still holds the old document.  Dropping either premise, or
either half of the first, makes the same instance violate the property.
Under them it says that the metadata checks suffice: servers choose their
documents apart from each other among those of all batches and configurations,
parties fail before or after their last line and start again, and what decodes
is still the exact answer.

**Bounds.**  `MaxAttempts`, `MaxAccesses`, `MaxRuns`, `MaxLogs` and `MaxFaults`
cap what the code caps (draws, access budget) or what TLC cannot leave open
(runs, faults); `MaxExports` and `MaxKills` do the latter in `MultipartyQuery`.

- Three accesses give a hit on a slot that is not the last one.
- Three runs of the runners give a first run, a replay and a run of another epoch
  on one home.
- Three faults of a preparation give a kill, a failure of the retry that follows
  it and a kill of the retry after that, each by either program; seven runs let
  the directory be tried again after all of them.
- Two logs per server give two sessions, or a session that died and its restart;
  two faults combine any two of a new sharing, a failed party, an input for
  another host or layout and a refused start.  Three sharings of the owner give
  documents the digest tells apart from those of the program and documents it
  does not.  Both layouts have as many values: of another number the input is
  refused, which leads nowhere.  Log names are numbered by first use, since nothing depends on the
  name itself.
- Two exports give a load that spans the end of one and the beginning of another,
  and a store that returns to the first generation's points; with one kill an
  export stops anywhere or a server comes back on newer files than its peers.
  The second generation differs from the first in points and in the evaluators'
  order, which binding, index and topology checks tell apart; the third in
  candidates only, which nothing but the digests does.
- Two blocks besides zero are enough for the seeds: evaluation uses a seed only
  to choose a stream.
- The hash of the directories is the code's with an 8-bit word and the multiplier
  157 for 64 bits and its constant, and the bound check's field is Z/13: the code
  takes the top bits of a product modulo a power of two, and needs a prime above
  the largest count and the number of keys.

The tables are smaller than real ones, but the code branches on sizes only where
the instances have both sides: overflow or not, last level or not, padded or
not, last page full or not, key within the bounds or not, bucket full or not,
entity inside the block, at its edge or outside.

**Fairness.**  `EpochRunner!FairSpec` is weak fairness of a runner's own file
operations, which return, and of its timeouts.  The compiler and the protocol are not
fair: either may hang, the parties because they wait for each other, and then
only `TimeOut` ends the run; starting again is nobody's duty.  `EpochPreparation!FairSpec` adds that the operator starts
again while the directory is not refused; faults and kills are bounded, not
fair.  `MultipartyQuery!Spec` is weak fairness of an evaluator's thread ending without
an answer and of the combination: every socket operation has a timeout and the
client joins its threads.  The stacks, the directories, the circuits and the
deployment are checked for safety only: the circuits are finite straight-line
code that comes to its end by its shape, and a session waits for all three parties, which nobody promises to start.  Deadlock is
not checked where the system may stop: no run left to start, nothing left to
share, or a computation that is finished.

**Findings.**

1. `run_kg_oram_mpspdz.py:141` clears the logs before the markers refuse a
   replay (run `kg_replay`).  The sibling runner says why it must not.
2. Both runners copy inputs to names that belong to the home and hold no lock
   on it, so two runners on one home can execute one epoch's shares twice
   although each consumed its own epoch (run `shared_home`).
3. `scripts/prepare_relation_paged_oram_instance.py:95` checks and then acts:
   two preparers replace each other's inputs (run `preparation_race`).
4. `scripts/prepare_kg_oram_instance.py:163` authorizes an epoch with
   `bound_violations=0` and never compares the federation's edges per key with
   the frontier, which `KG_ORAM_ARCHITECTURE.md:10` calls verified and whose
   check line 19 binds the authorization to; the circuit then drops an edge
   (run `kg_frontier`).

Met while modelling, without a run of their own:

- A preparer killed between its renames leaves a directory that is refused from
  then on and has to be removed by hand (`RetriesRecover` says "some input
  exists", not "a manifest exists").
- `run_pages_party.py:57` says the call fails before contacting peers "if this
  host was handed the wrong shard", but `validate_private_input` counts and
  bounds the values only.  Another host's input passes, and so does one
  assembled for another layout with as many values: `StartParty(s, t, layout,
  path)` of `PagedDeployment` with *s* other than *t*, or a layout other than
  that of the input.
- `run_pages_party.py:82` replaces the input of the home before line 100 finds
  that the log exists, or the compiler fails (`RefusedStart`).  A party that
  waits for its peers on that home then reads an input nobody counted for it,
  although `paged_shares.py:228` relies on that count.
- A shard carries no number of its sharing, so a server that mixes shards of two
  sharings is noticed by nobody: the circuit computes well-formed rows from
  whatever its inputs add up to, and the client accepts them.
- `scripts/run_cwq_mpc_domain_worker.py:129` summarises before any domain is
  complete, and the summary divides by the number of queries
  (`run_cwq_mpc_1000_suite.py:52`), which is zero on a fresh output root.

## 4. Proofs

Each proof module extends its component and proves, for every value of the
constants under the component's named assumptions:

| theorem | states |
|---|---|
| `OramAccess_proofs`: `InductiveInvariant`, `TypeCorrect`, `LeavesOpenedOnce`, `ReadsCorrect`, `OpeningsScheduled` | `Spec => []IInv`, `[]TypeOK`, `[]RealLeafOnce`, `[]ReadCorrect`, `[]FixedSchedule` |
| `OramAccess_proofs`: `StackImplementsStore` | `Spec => StoreSpec`, the refinement of `ReadOnlyStore` |
| `PagedDirectories_proofs`: `Invariant`, `PagesLoseNothing`, `LayoutsTyped` | `[]LayoutInv`, `[]Lossless`, `[]LayoutTypeOK` |
| `PagedDirectories_proofs`: `DirectoriesLoseNothing`, `BoundVerdicts` | every kind of directory: `[]DescriptorsExact`; `[]BoundVerdictExact` |
| `TwoHopRetrieval_proofs`: `AccessesFollowSchedule`, `CandidatesGoOutOnce`, `ShapesStayPublic` | every program: `[]AccessesScheduled`, `[]TakenOutOnce`, `[]TypeOK` |
| `TwoHopRetrieval_proofs`: `FrontierLosesNothing`, `AnswersAreThePlainJoin` | when the bound of a records program was checked (`BoundsChecked`): `[]FrontierComplete`, `[]AnswersExact` |
| `EpochPreparation_proofs`: `Invariant`, `TypeCorrect`, `OneSharing`, `ManifestTrue`, `InputsStand` | for one preparer: `[]IInv`, `[]TypeOK`, `[]InputsOfOneRun`, `[]ManifestDescribesInputs`, `NoOverwrite` |
| `EpochRunner_proofs`: `Invariant`, `TypeCorrect`, `ExecutedOnce`, `CompiledBeforeConsumed` | both variants, any homes: `[]IInv`, `[]TypeOK`, `[]EpochOnce`, `[]ConsumedIsCompiled` |
| `EpochRunner_proofs`: `SharesReadOnce`, `ReturnsOwnLogs` | when no two runners share a home: `[]SharesUsedOnce`, `[]LogsAreOwn` |
| `EpochRunner_proofs`: `ReplayLeavesLogs` | for the dual variant, shared homes or not: `EvidenceSurvivesReplay` |
| `PagedDeployment_proofs`: `Invariant`, `TypeCorrect`, `LogsStand`, `Exact` | `[]IInv`, `[]TypeOK`, `[]ReturnedLogsStand`, `[]AcceptedIsExact` |
| `MultipartyFss_proofs`: `TypeCorrect`, `LoadedWhole`, `RefusedOnlyDisturbed`, `AnswerOneGeneration` | of the stores and lookups: `[]TypeOK`, `[]LoadedIsWhole`, `RefusedOnlyIfDisturbed`, `[]AnswerOfOneGeneration` |
| `MultipartyFss_proofs`: `KeyInvariance`, `KeysTyped`, `SharesAreThePointFunction`, `ProjectionExact` | of key generation: `[]DpfInvariant`, `[]KeyTypeOK`, `[]PointFunction`, `[]SlotsExact` |

*The stack.*  Neither `ReadCorrect` nor `RealLeafOnce` is inductive.  A read
is correct because the label in hand is the true label of the entry wanted
(`ChainFollowsMap`) and a valid stash slot holds the true record
(`StashTrue`).  The label stays true on the way down because the record of the
entry of level *l* above address *a* is the packed labels of level *l - 1*, and
its child offset picks the label of the entry above *a*: that is arithmetic on
`\div` and `%` with `Stride[l + 1] = Stride[l] * Chi`.  A path
read finds the entry because every placed level fits its buckets (`PlacedFits`),
so the slot offset stays within the bucket.  A real label is opened once because
every real opening left its entry in a valid slot of an access that has passed
that level (`OpenedIsStashed`, and the "passed" part of `StashTrue`), so a later
access that wants the entry hits.  `IInv` is the conjunction; TLC checks it in
the run.  `OpeningsScheduled` is about a cardinality: an access in progress has
one opening at each level it has passed and none below (`OneOpening`), and the
set of a level's openings is a singleton.  The refinement maps an access in
progress to a pending request; the last step of an access is the store's reply,
all other steps are stutters.

*The layouts.*  `LayoutInv` says of every key an owner has placed that its
descriptor names a base and a count of pages inside the pool, and that those
pages hold the key's sorted rows (`KeysStored`); pages are only appended, so what
is placed stays.  `Lossless` follows by unpacking the descriptor: the count was
added above the bits of the base, and the base is below `2^PageBaseBits` because
the budget is checked before the pages are appended.

*The directories.* `DirectoriesInv` says that only keys of entities have a
descriptor, that owners which have shared did so in their order, with the
vectors of what they had placed (`HasShared`), and that a server assembles only
when all have. From then on nothing is placed or shared any more, so the tables
are the sum of all owners' vectors (`TablesStand`). The rest is about one state.
A cell of a table is a sum of which at most one term counts, because keys with a
row in the primary table have different rows (`RowsApart`; the ontology's blocks
follow one another, `BlocksFollow`) and because the keys of one owner in one
bucket have different ranks (`ColumnsApart`). A packed element is a number whose
digits to the base `2^DescriptorBits` are the owners' descriptors, so adding and
unpacking do not mix them (`UnpackPacked`, `AddedPacked`). Owners take the top
bits of the hash's truncated product, the circuit the low bits of the product's
quotient: it is the same bucket (`BucketsAgree`). Two keys of one row never have
one tag, which is the key's own number, or its entity's where a row belongs to
one relation (`TagsApart`). The two tables between them hold every key once
(`TablesAdd`). Sums are folds of the community modules over finite sets in an
unspecified order; that they add up as sums do is proved once (`SumSplit`,
`SumLinear`, `SumParts`) by induction on the number of elements.

*The bound check.*  Numbers are compared in the field (`Alike`).  That every
number which is not zero has an inverse follows from the absence of divisors of
zero, by counting its multiples (`InversesExist`).  The value of a polynomial is
linear in its coefficients (`ValuesAdd`), and multiplying by `x - m` multiplies
it (`ValueTimes`), so the product for a point is its denominator there
(`BasisAtPoint`) and zero at every other point (`BasisElsewhere`); no coefficient
falls off at the top, since a product never has more degrees than factors
(`BasisNarrow`).  The polynomial is one above the bound and zero up to it
(`SumOverValue`).  Counts of a federation stay within the points because admitted
files fit their slots (`FederationCounts`), and fewer keys than the prime are
added up, so the opened number is the number of keys over the bound (`VerdictIs`).

*The circuits.*  `ScheduleInv` gives the number of reads that lie behind the
loops as a product and sum of the loop counters (`Taken`), for each phase, and
says that the numbers used are exactly those up to it, in order; the arithmetic
of the two nested loops is in `Products` and `Counting`.  `OutInv` says that
candidates of one terminal go out together when duplicates are removed, so the
winner of a scan, whose own flag is clear, clears nobody twice.  `EmittedInv`
gives the length of every output row from the loop counters; it is what
`TypeOK` adds to these.

That the answers are the plain join rests on three more invariants.
`PrepInv`: a prepared program has packed, paged and admitted the owners' files.
`DataInv`: the parts of `hop1`, of the frontier and of `hop2` that lie behind
the loops equal what a full read of the layout answers.  Such a row is a
*listing* (`Lists`): its valid slots hold the edges of a key once each, in the
public order, so there are as many valid slots as edges and one comes before
another exactly when its edge does (`ListingOrder`).  Rows that are read from
pages, blocks or records, joined rows and compacted rows are listings; what the
pages hold is `LayoutInv`, used again.  The bound on the
frontier enters there and nowhere else: compaction keeps every valid slot
because there are no more of them than the frontier has places.  That is what
the run `kg_frontier` refutes when a records epoch skips its check, so
`BoundsChecked` is a premise of both theorems and cannot be dropped.  Candidates
of the circuit and paths of the plain join correspond one to one, and the
correspondence preserves order (`Ranking`).  `RankInv`: the winners emitted so
far are the first kept candidates in that order, and those taken out are
exactly the ones the winners cover; so the next winner is the best of the rest.

(`ShareOf` is a nested `IF`, in the order of the code, and no `CASE`: for a scan
over the full frontier two guards would be true, which TLA+ leaves open although
TLC takes the first.)

*Key generation.*  Exclusive or is modelled as "held by an odd number", so
everything is a statement about parities of cardinalities (`Odd`), and counting
the pairs of a relation by columns or by rows gives the same parity
(`ParityCounting`).  `DpfInvariant` says that every column of an array is held
by an odd number of evaluators in alpha's row and by an even number elsewhere,
that no seed is the block of zeros, which would read as "not held", and that the
words and the streams of alpha's row balance to beta in alpha's column and to
nothing beside it (`Balanced`).  Counted by seeds instead of by evaluators, the
row vectors therefore add up to nothing outside alpha's row and to the balance in
it (`RowsAddUp`), which is `SharesAreThePointFunction`; a projection adds cells
of one evaluator, so the two sums may be swapped (`ProjectionExact`).

*Preparation.*  `OfLastRun` says that whatever exists was written by the one
preparer's last run.  It survives a retry because a retry that meets an input is
refused before it becomes the last run; `InputsInOrder`, `SegmentsWritten` and
`TemporaryOwn` place the loops between segment, temporary and input.

*The runners.*  A run executes only when it holds all three markers, and a
marker is never replaced; two executions of one epoch would share the marker of
server 0, hence their run (`RunsDistinct`, `MarkersHeld`).
`HInv` adds, for homes that are not shared, that inputs and logs of a home are
its runner's own.

*The deployment.*  Every input, in a file, in Player-Data or in a session, holds
one document of every sharer, of a sharing that was made, for the server it was
assembled for and with the digest of its layout (`InputsAssembled`).  The log of
a running party is empty or holds its own session whole, so a party that prints
overwrites nobody's lines and one that ends well returns a whole log; whole logs,
returned or not, are of sessions that were held (`LogsAccounted`).  Three logs
that decode are of one session by what `Reconstruct` takes for granted.  If its
hosts read inputs of their own for its program, their documents of a sharer have
the digest the program asks for, and if only one sharing of that sharer has it,
it is the same sharing on all three.

*Stores and lookups.*  `DiskInv` says what an export in progress has written so
far, that a store which is not dirty holds one generation, whole, and that a load
nobody disturbed reads the store its manifest was read from; such a load is not
refused.  A load that was disturbed ends well only if every snapshot matches the
manifest's digests, so what is loaded is whole in either case.  `LookupKnown`
adds that every reply in hand was swept over the client's own universe.

*Assumptions.*  Only the named ones on the constants; TLC evaluates them in
every run.  They say what the code validates or what its types say
(`FileAssumption`: edges are records of integers; `DirectoryAssumption`: the
modulus of the field, which is prime, has no divisors of zero, and counts and
directory rows stay below it).  `OnePreparer`, `OwnHomes`,
`BoundsChecked` and the variant are premises of the theorems that need them,
and the runs `preparation_race`, `shared_home`, `kg_frontier` and `kg_replay`
show that these are needed.  Two assumptions are narrower than the code:
`DirectoryAssumption` asks for more than one bucket, which `relation_pages`
admits although the bucket selector then has a row more than the table, and
`MultipartyQuery` gives all generations the same number of partitions.

*Left to TLC.*  Liveness under fairness (`RunEnds`, `RetriesRecover`,
`LookupEnds`), since liveness and ENABLED are out of this
prover's reach.  Every invariant and every other action property that a passing
run checks is proved.

## 5. Not modelled

- Arithmetic of shares, MP-SPDZ itself and its security: a protocol run reads
  its inputs and ends or fails.  Widths of the packed edge are checked by the
  code at build time and enter as valid edges.
- Probability: that the random labels opened on hits hide anything is a matter
  of distributions; the models show what distribution arguments rest on, that
  no real label is opened twice and that every access opens one per level.
- Processes MP-SPDZ leaves behind when a runner fails, times out or is killed,
  and the time between the reads of three parties: `Launch` of `EpochRunner` lets
  them read their inputs in one step.
- In `PagedDeployment`, the time between a party's copy of its input and the
  creation of its log, if it gets that far: `StartParty` is one step.  What a start
  that fails in between leaves behind is `RefusedStart`.
- In `MultipartyQuery`, the refusal of a projection that exceeds its capacity,
  which would be one refusal more.
- The files and logs of `run_bound_check.py`.  Its polynomial and verdict are
  modelled; its order of copying, clearing and reading logs has the shape
  `EpochRunner` checks, and nothing ties its verdict to the inputs of the
  retrieval that follows, so there is no state for a composition to share.
- Multiparty FSS: several evaluation domains in one store, the corruption threshold
  that keys record, the JSON forms of requests and their limits; two exports into
  the same directories at once; that fewer than all shares hide the point.
- The domain workers (`run_cwq_mpc_*`) with their shared summary, and the pipe of
  the threshold-PIR service: their hazards are listed without a property.
- The components with status `not_modelled` in `PROJECT.json`, with the reason.

Most of the repository's lines are none of this: experiment drivers, fixture
builders, evaluation and report scripts, benchmarks, an earlier client kept
apart, cost estimates, validation of configurations, command-line parsing, and
wrappers of Go, Rust and C++ libraries.  They keep no state between steps or are
pure input and output.  What the modules map, about a tenth of the
implementation, is the part whose order of steps, arithmetic or files decide
whether an answer is right: nearly all of `doram_t2_3pc`'s stack, layout,
preparation, runner and decoding code, the text of its circuits line by line
where it computes, and the key generation, evaluation and lookups of
`multiparty_fss`.  A circuit is generated text, so one model definition stands
for many lines of template that differ in layout only.

## 6. Plan

Done: the stack and its reader; the layouts and all four directories; all
circuits; preparation and runners of both stack programs; the paged deployment
with decoding; the multiparty scheme, its stores and lookups; proofs for every
component that keeps state between steps.

Left, in this order:

1. Domain workers: lock, resumption, the summary they share.
2. The threshold-PIR pipe: request, response, restart of the service.
3. The files of `run_bound_check.py`, once something reads its verdict.

Runs are kept to one per question.  A new part joins an existing module where it
shares its state rather than opening a module that repeats it.
