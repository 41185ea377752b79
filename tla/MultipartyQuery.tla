-------------------------- MODULE MultipartyQuery --------------------------
(* Replicated stores of the N-party evaluators, the processes that load them  *)
(* and the lookups over them: multiparty_fss/replication.py, service.py,      *)
(* orchestrator.py, requests.py, transport.py and the socket client of        *)
(* benchmarks/eval_datasets.py.                                               *)
(*                                                                            *)
(* A store is a directory that an export overwrites in place while servers    *)
(* and clients load it.  A snapshot is a function from the points it holds to *)
(* their candidates, and stands for its own digest; a generation is what one  *)
(* export writes.  The value of combined shares is that of MultipartyDpf:     *)
(* beta at alpha's rank when all come from one key and one universe.  Store   *)
(* directories are named after evaluators, 0 .. N - 1 in the client's order.  *)
EXTENDS Naturals, Sequences, FiniteSets, Functions

CONSTANTS PartyCount,    \* evaluators, N
          Generations,   \* snapshot sets an operator may export
          Snapshots,     \* generation |-> sequence of snapshots, one a partition
          Order,         \* generation |-> the --evaluator list: index |-> evaluator
          First,         \* the generation that is on disk at first
          Lookups,       \* points a client may look up
          Deployments,   \* subset of {"sockets", "orchestrator"}
          MaxExports,    \* bound: exports after the first
          MaxKills       \* bound: processes killed

Parties == 0 .. PartyCount - 1

Points(snapshots) == UNION {DOMAIN s : s \in Range(snapshots)}

ASSUME GenerationsAssumption ==
  /\ PartyCount \in Nat \ {0} /\ Deployments \subseteq {"sockets", "orchestrator"}
  /\ First \in Generations /\ 0 \notin Generations
  /\ Len(Snapshots[First]) > 0
  /\ \A g \in Generations : /\ Snapshots[g] \in Seq(Range(Snapshots[g]))
                            /\ Len(Snapshots[g]) = Len(Snapshots[First])
                            /\ Points(Snapshots[g]) \subseteq Nat
                            /\ IsFiniteSet(Points(Snapshots[g]))
                            /\ Order[g] \in [Parties -> Parties]
                            /\ \A e \in Parties : \E i \in Parties : Order[g][i] = e

VARIABLES disk,         \* evaluator |-> file |-> {} if torn, {its value} if whole
          writer,       \* the export that is running
          dirty,        \* history: stores an export has begun and not finished
          store,        \* loader |-> what it has loaded so far
          disturbed,    \* history: loaders whose directory was dirty during the load
          deployment,
          client,       \* the client and its lookup
          exports, kills

vars == <<disk, writer, dirty, store, disturbed, deployment, client, exports, kills>>

Partitions == 1 .. Len(Snapshots[First])
ManifestFile == Len(Snapshots[First]) + 1
Loaders == {"server", "client"} \X Parties
Dir(l) == l[2]

----------------------------------------------------------------------------
(* An export: for each evaluator in order every snapshot, then the manifest,  *)
(* each truncated first and then filled (Path.write_text).                    *)

\* Mutant: every partition is recorded under the digest of the first.
ManifestOfFirst(g, e) == [index |-> CHOOSE i \in Parties : Order[g][i] = e, order |-> Order[g],
                          snapshots |-> [k \in 1 .. Len(Snapshots[g]) |-> Snapshots[g][1]]]
Manifest(g, e) == [index |-> CHOOSE i \in Parties : Order[g][i] = e,
                   order |-> Order[g], snapshots |-> Snapshots[g]]
Value(g, e, f) == IF f = ManifestFile THEN Manifest(g, e) ELSE Snapshots[g][f]

NotWriting == [generation |-> 0, party |-> 0, file |-> 1, open |-> FALSE]
Target == Order[writer.generation][writer.party]

BeginExport(g) ==
  /\ writer = NotWriting /\ exports < MaxExports
  /\ writer' = [NotWriting EXCEPT !.generation = g]
  /\ exports' = exports + 1
  /\ UNCHANGED <<disk, dirty, store, disturbed, deployment, client, kills>>

Truncate ==
  /\ writer.generation # 0 /\ ~writer.open
  /\ disk' = [disk EXCEPT ![Target][writer.file] = {}]
  /\ writer' = [writer EXCEPT !.open = TRUE]
  /\ dirty' = dirty \cup {Target}
  /\ disturbed' = disturbed \cup {l \in Loaders : Dir(l) = Target /\ store[l].status = "loading"}
  /\ UNCHANGED <<store, deployment, client, exports, kills>>

\* Mutant: the loop over the evaluators runs once too often.
NextFileLate(w) ==
  CASE w.file < ManifestFile -> [w EXCEPT !.file = @ + 1, !.open = FALSE]
    [] w.file = ManifestFile /\ w.party < PartyCount ->
         [w EXCEPT !.party = @ + 1, !.file = 1, !.open = FALSE]
    [] OTHER -> NotWriting

NextFile(w) ==
  CASE w.file < ManifestFile -> [w EXCEPT !.file = @ + 1, !.open = FALSE]
    [] w.file = ManifestFile /\ w.party < PartyCount - 1 ->
         [w EXCEPT !.party = @ + 1, !.file = 1, !.open = FALSE]
    [] OTHER -> NotWriting

Fill ==
  /\ writer.open
  /\ disk' = [disk EXCEPT ![Target][writer.file] = {Value(writer.generation, Target, writer.file)}]
  /\ writer' = NextFile(writer)
  /\ dirty' = IF writer.file = ManifestFile THEN dirty \ {Target} ELSE dirty
  /\ UNCHANGED <<store, disturbed, deployment, client, exports, kills>>

KillExport ==
  /\ writer # NotWriting /\ kills < MaxKills
  /\ writer' = NotWriting
  /\ kills' = kills + 1
  /\ UNCHANGED <<disk, dirty, store, disturbed, deployment, client, exports>>

----------------------------------------------------------------------------
(* Loading a store: the manifest, then every snapshot it lists, each compared *)
(* with the manifest's digest.  A server that cannot load exits, and so does  *)
(* a client.                                                                  *)

Unloaded == [status |-> "down", manifest |-> {}, read |-> <<>>]
ManifestOf(l) == CHOOSE m \in store[l].manifest : TRUE
Loaded(l) == store[l].status = "ready"

\* The socket client takes its universe from store 0, the orchestrator loads all.
ClientDirs == IF deployment = "sockets" THEN {0} ELSE Parties

MayLoad(l) ==
  IF l[1] = "server" THEN deployment = "sockets"
  ELSE /\ client.phase = "load" /\ Dir(l) \in ClientDirs
       /\ \A e \in ClientDirs : e < Dir(l) => Loaded(<<"client", e>>)

File(l) == disk[Dir(l)][IF store[l].status = "down" THEN ManifestFile ELSE Len(store[l].read) + 1]
\* Mutant: a snapshot is not compared with the digest in the manifest.
ReadableUnchecked(l) == File(l) # {}
Readable(l) ==
  /\ File(l) # {}
  /\ store[l].status = "loading" => File(l) = {ManifestOf(l).snapshots[Len(store[l].read) + 1]}

ReadManifest(l) ==
  /\ store[l].status = "down" /\ MayLoad(l) /\ Readable(l)
  /\ store' = [store EXCEPT ![l] = [status |-> "loading", manifest |-> File(l), read |-> <<>>]]
  /\ disturbed' = IF Dir(l) \in dirty THEN disturbed \cup {l} ELSE disturbed \ {l}
  /\ UNCHANGED <<disk, writer, dirty, deployment, client, exports, kills>>

ReadSnapshot(l) ==
  /\ store[l].status = "loading" /\ MayLoad(l) /\ Readable(l)
  /\ LET read == Append(store[l].read, CHOOSE s \in File(l) : TRUE)
         whole == Len(read) = Len(ManifestOf(l).snapshots)
     IN /\ store' = [store EXCEPT ![l].read = read,
                                  ![l].status = IF whole THEN "ready" ELSE "loading"]
        /\ disturbed' = IF whole THEN disturbed \ {l} ELSE disturbed
  /\ UNCHANGED <<disk, writer, dirty, deployment, client, exports, kills>>

RefuseLoad(l) ==
  /\ store[l].status \in {"down", "loading"} /\ MayLoad(l) /\ ~Readable(l)
  /\ store' = [store EXCEPT ![l] = Unloaded]
  /\ client' = IF l[1] = "client" THEN [client EXCEPT !.phase = "refused"] ELSE client
  /\ disturbed' = disturbed \ {l}
  /\ UNCHANGED <<disk, writer, dirty, deployment, exports, kills>>

\* A server is killed; it may be started again on whatever is on disk then.
KillServer(e) ==
  /\ store[<<"server", e>>].status = "ready" /\ kills < MaxKills
  /\ store' = [store EXCEPT ![<<"server", e>>] = Unloaded]
  /\ kills' = kills + 1
  /\ UNCHANGED <<disk, writer, dirty, disturbed, deployment, client, exports>>

----------------------------------------------------------------------------
(* A lookup.                                                                  *)

Members(snapshots, x) == UNION {s[x] : s \in {t \in Range(snapshots) : x \in DOMAIN t}}
Universe(l) == Points(store[l].read)

RankOf(points, x) == Cardinality({y \in points : y < x})
PointAt(points, r) == CHOOSE x \in points : RankOf(points, x) = r

ClientUniverse == Universe(<<"client", 0>>)
\* A point that is not in the universe is looked up as the zero function at 0.
Key(x) == [alpha |-> IF x \in ClientUniverse THEN RankOf(ClientUniverse, x) ELSE 0,
           zero |-> x \notin ClientUniverse,
           binding |-> ClientUniverse]

Pending == [status |-> "pending", index |-> 0, points |-> {}]
NoReply == [Pending EXCEPT !.status = "error"]
NoLookup == [alpha |-> 0, replies |-> [e \in Parties |-> Pending], found |-> {}]
Client(phase, lookup) == [phase |-> phase, alpha |-> lookup.alpha,
                          replies |-> lookup.replies, found |-> lookup.found]

FinishLoading ==
  /\ client.phase = "load" /\ \A e \in ClientDirs : Loaded(<<"client", e>>)
  /\ client' = Client("ready", NoLookup)
  /\ UNCHANGED <<disk, writer, dirty, store, disturbed, deployment, exports, kills>>

\* MultipartyFssEvaluatorService.evaluate on the store of loader l: the request
\* for index i is refused unless the store has that index and that universe.
\* Mutant: the key's universe is not compared with the store's.
AcceptsUnbound(l, i, key) == Loaded(l) /\ ManifestOf(l).index = i
Accepts(l, i, key) ==
  /\ Loaded(l)
  /\ ManifestOf(l).index = i
  /\ key.binding = Universe(l)

Response(l) == [status |-> "answered", index |-> ManifestOf(l).index, points |-> Universe(l)]

\* MpFssCoordinator.combine: every index once, one universe for all.
Combinable(replies) ==
  /\ {replies[e].index : e \in Parties} = Parties
  /\ \A e \in Parties : replies[e].points = replies[0].points

SendRequests(x) ==
  /\ deployment = "sockets" /\ client.phase = "ready"
  /\ client' = Client("query", [NoLookup EXCEPT !.alpha = x])
  /\ UNCHANGED <<disk, writer, dirty, store, disturbed, deployment, exports, kills>>

Answer(e) ==
  /\ client.phase = "query" /\ client.replies[e] = Pending
  /\ Accepts(<<"server", e>>, e, Key(client.alpha))
  /\ client' = [client EXCEPT !.replies[e] = Response(<<"server", e>>)]
  /\ UNCHANGED <<disk, writer, dirty, store, disturbed, deployment, exports, kills>>

\* Refused by the server, no server there, or no answer in time.
GiveUp(e) ==
  /\ client.phase = "query" /\ client.replies[e] = Pending
  /\ client' = [client EXCEPT !.replies[e] = NoReply]
  /\ UNCHANGED <<disk, writer, dirty, store, disturbed, deployment, exports, kills>>

AllReplied == \A e \in Parties : client.replies[e] # Pending

\* Mutant: errors of the threads are not raised, the combination waits on.
CombineAnswersOnly ==
  /\ client.phase = "query" /\ AllReplied /\ NoReply \notin Range(client.replies)
  /\ Combinable(client.replies)
  /\ client' = [client EXCEPT !.phase = "answered",
                  !.found = IF Key(client.alpha).zero THEN {} ELSE {client.alpha}]
  /\ UNCHANGED <<disk, writer, dirty, store, disturbed, deployment, exports, kills>>

\* Ranks with a value, read back as points of the client's own universe.
Combine ==
  /\ client.phase = "query" /\ AllReplied
  /\ LET key == Key(client.alpha)
         ok == /\ NoReply \notin Range(client.replies)
               /\ Combinable(client.replies)
     IN client' = IF ok THEN [client EXCEPT !.phase = "answered",
                                !.found = IF key.zero THEN {} ELSE {PointAt(ClientUniverse, key.alpha)}]
                  ELSE [client EXCEPT !.phase = "refused"]
  /\ UNCHANGED <<disk, writer, dirty, store, disturbed, deployment, exports, kills>>

\* MultipartyFssQueryOrchestrator.query: all services are in this process, and
\* what they have loaded does not change.  Slots come from store 0's index.
Topology(l) == ManifestOf(l).order
Query(x) ==
  /\ deployment = "orchestrator" /\ client.phase = "ready"
  /\ LET own(e) == <<"client", e>>
         service(i) == CHOOSE e \in Parties : ManifestOf(own(e)).index = i
         sameTopology == /\ {ManifestOf(own(e)).index : e \in Parties} = Parties
                         /\ \A e \in Parties : Topology(own(e)) = Topology(own(0))
         sameUniverse == \A e \in Parties : Universe(own(e)) = Universe(own(0))
         key == Key(x)
         ok == /\ sameTopology /\ sameUniverse
               /\ \A i \in Parties : Accepts(own(service(i)), i, key)
         replies == [i \in Parties |-> Response(own(service(i)))]
         index == store[own(service(0))].read
         found == IF key.zero THEN {}
                  ELSE Members(index, PointAt(replies[0].points, key.alpha))
     IN client' = IF ok /\ Combinable(replies)
                  THEN Client("answered", [alpha |-> x, replies |-> replies, found |-> found])
                  ELSE Client("refused", [NoLookup EXCEPT !.alpha = x])
  /\ UNCHANGED <<disk, writer, dirty, store, disturbed, deployment, exports, kills>>

\* The socket client goes on with what it has loaded; a command is run anew.
NextLookup ==
  /\ deployment = "sockets" /\ client.phase = "answered"
  /\ client' = Client("ready", NoLookup)
  /\ UNCHANGED <<disk, writer, dirty, store, disturbed, deployment, exports, kills>>

NewClient ==
  /\ client.phase \in {"answered", "refused"}
  /\ client' = Client("load", NoLookup)
  /\ store' = [l \in Loaders |-> IF l[1] = "client" THEN Unloaded ELSE store[l]]
  /\ UNCHANGED <<disk, writer, dirty, disturbed, deployment, exports, kills>>

----------------------------------------------------------------------------
Init ==
  /\ disk = [e \in Parties |-> [f \in 1 .. ManifestFile |-> {Value(First, e, f)}]]
  /\ writer = NotWriting /\ dirty = {} /\ disturbed = {}
  /\ deployment \in Deployments
  /\ store = [l \in Loaders |->
                IF l[1] = "server" /\ deployment = "sockets"
                THEN [status |-> "ready", manifest |-> {Manifest(First, Dir(l))}, read |-> Snapshots[First]]
                ELSE Unloaded]
  /\ client = Client("load", NoLookup)
  /\ exports = 0 /\ kills = 0

Next ==
  \/ \E g \in Generations : BeginExport(g)
  \/ Truncate \/ Fill \/ KillExport
  \/ \E l \in Loaders : ReadManifest(l) \/ ReadSnapshot(l) \/ RefuseLoad(l)
  \/ \E e \in Parties : KillServer(e) \/ Answer(e) \/ GiveUp(e)
  \/ FinishLoading \/ Combine \/ NextLookup \/ NewClient
  \/ \E x \in Lookups : SendRequests(x) \/ Query(x)

\* Every thread of a lookup ends, by an answer, an error or the socket's
\* timeout, and the client then combines.
Fairness == WF_vars(\E e \in Parties : GiveUp(e)) /\ WF_vars(Combine)

Spec == Init /\ [][Next]_vars /\ Fairness

----------------------------------------------------------------------------
\* The export writes inside the stores, loaders hold at most what their
\* manifest lists, and only a client that loads or has loaded looks up.
TypeOK ==
  /\ \A e \in Parties, f \in 1 .. ManifestFile :
       disk[e][f] \subseteq {Value(g, e, f) : g \in Generations}
  /\ writer.generation \in Generations \cup {0} /\ writer.party \in Parties
  /\ writer.file \in 1 .. ManifestFile /\ writer.open \in BOOLEAN
  /\ dirty \subseteq Parties /\ disturbed \subseteq Loaders
  /\ \A l \in Loaders :
       /\ store[l].status \in {"down", "loading", "ready"}
       /\ (store[l].status = "down") = (store[l].manifest = {})
       /\ store[l].status = "loading" => Len(store[l].read) < Len(ManifestOf(l).snapshots)
  /\ client.phase \in {"load", "ready", "query", "answered", "refused"}
  /\ client.phase \in {"ready", "query", "answered"} =>
       \A e \in ClientDirs : Loaded(<<"client", e>>)

\* What a process has loaded is the work of one export, manifest and snapshots
\* alike, however exports and kills fell between its reads
\* (MultipartyFssEvaluatorStore.load).
LoadedIsWhole ==
  \A l \in Loaders : Loaded(l) =>
    \E g \in Generations : ManifestOf(l) = Manifest(g, Dir(l)) /\ store[l].read = Snapshots[g]

\* An answer is the one some exported generation gives, and every evaluator
\* swept that generation's universe: servers that were restarted, stores that
\* were half exported and a client that loaded earlier never mix.
AnswerOfOneGeneration ==
  client.phase = "answered" =>
    \E g \in Generations :
      /\ \A e \in Parties : client.replies[e].points = Points(Snapshots[g])
      /\ client.found = IF deployment = "orchestrator" THEN Members(Snapshots[g], client.alpha)
                        ELSE {client.alpha} \cap Points(Snapshots[g])

\* A store is refused only while an export is writing to it, after one was
\* killed there, or when one wrote to it during the load: what a finished
\* export leaves always loads.
RefusedOnlyIfDisturbed ==
  [][\A l \in Loaders : RefuseLoad(l) => Dir(l) \in dirty \/ l \in disturbed]_vars

\* A lookup comes to an end whatever becomes of the servers.
LookupEnds == client.phase = "query" ~> client.phase \in {"answered", "refused"}
=============================================================================
