------------------------ MODULE MultipartyFss_proofs ------------------------
(* Proofs about the multiparty lookup.  Of its stores: a process loads the    *)
(* work of one export, a lookup is answered from one generation, and a        *)
(* finished export always loads, for any evaluators, partitions, generations, *)
(* exports and kills.  Of its keys: the shares of the evaluators add up to    *)
(* the point function and the projected shares to the routed slots, for any   *)
(* number of evaluators, universe, seeds, words, stream generator and routing.*)
EXTENDS MultipartyDpf, MultipartyQuery, FiniteSetTheorems, TLAPS

Manifests == {Manifest(g, e) : g \in Generations, e \in Parties}
AllSnapshots == UNION {Range(Snapshots[g]) : g \in Generations}
Files == 1 .. ManifestFile
Stores == [status : {"down", "loading", "ready"}, manifest : SUBSET Manifests,
           read : Seq(AllSnapshots)]
Phases == {"load", "ready", "query", "answered", "refused"}

\* Where the variables lie, more exactly than the checked type invariant.
Typed ==
  /\ disk \in [Parties -> [Files -> SUBSET (Manifests \cup AllSnapshots)]]
  /\ writer \in [generation : Generations \cup {0}, party : Parties, file : Files,
                 open : BOOLEAN]
  /\ writer.generation = 0 => writer = NotWriting
  /\ dirty \subseteq Parties /\ disturbed \subseteq Loaders
  /\ store \in [Loaders -> Stores]
  /\ deployment \in {"sockets", "orchestrator"}
  /\ client.phase \in Phases
  /\ client.replies = [e \in Parties |-> client.replies[e]]

\* A file is torn or holds what one export has written there.
DiskKnown ==
  \A e \in Parties, f \in Files :
    disk[e][f] = {} \/ \E g \in Generations : disk[e][f] = {Value(g, e, f)}

\* What loader l holds is the beginning of generation g.
HoldsOf(l, g) ==
  /\ store[l].manifest = {Manifest(g, Dir(l))}
  /\ \A k \in 1 .. Len(store[l].read) : store[l].read[k] = Snapshots[g][k]
  /\ store[l].status = "loading" => Len(store[l].read) < Len(Snapshots[g])
  /\ store[l].status = "ready" => Len(store[l].read) = Len(Snapshots[g])

StoresKnown ==
  \A l \in Loaders :
    IF store[l].status = "down"
    THEN store[l].manifest = {} /\ store[l].read = <<>>
    ELSE \E g \in Generations : HoldsOf(l, g)

----------------------------------------------------------------------------
(* What an export writes to a file.                                           *)
LEMMA ValueFacts ==
  ASSUME NEW g \in Generations, NEW e \in Parties
  PROVE  /\ Manifest(g, e).snapshots = Snapshots[g]
         /\ Manifest(g, e) \in Manifests
         /\ Value(g, e, ManifestFile) = Manifest(g, e)
         /\ \A f \in 1 .. Len(Snapshots[g]) :
              /\ f \in Files /\ f # ManifestFile
              /\ Value(g, e, f) = Snapshots[g][f]
              /\ Snapshots[g][f] \in AllSnapshots
         /\ Snapshots[g] \in Seq(AllSnapshots)
         /\ Len(Snapshots[g]) = ManifestFile - 1
         /\ ManifestFile \in Nat /\ ManifestFile > 1 /\ ManifestFile \in Files
<1>1. /\ Snapshots[g] \in Seq(Range(Snapshots[g]))
      /\ Len(Snapshots[g]) = Len(Snapshots[First]) /\ Len(Snapshots[First]) > 0
  BY GenerationsAssumption
<1>2. Len(Snapshots[g]) \in Nat
  BY <1>1
<1>3. ManifestFile = Len(Snapshots[g]) + 1
  BY <1>1 DEF ManifestFile
<1>4. Range(Snapshots[g]) \subseteq AllSnapshots
  BY DEF AllSnapshots
<1>5. Snapshots[g] \in Seq(AllSnapshots)
  BY <1>1, <1>4
<1>6. \A f \in 1 .. Len(Snapshots[g]) : Snapshots[g][f] \in AllSnapshots
  BY <1>5
<1>7. /\ ManifestFile \in Nat /\ ManifestFile > 1 /\ Len(Snapshots[g]) = ManifestFile - 1
      /\ ManifestFile \in Files
  BY <1>1, <1>2, <1>3 DEF Files
<1>8. \A f \in 1 .. Len(Snapshots[g]) : f \in Files /\ f # ManifestFile
  BY <1>2, <1>3 DEF Files
<1>9. Manifest(g, e).snapshots = Snapshots[g]
  BY DEF Manifest
<1>11. Manifest(g, e) \in Manifests /\ Value(g, e, ManifestFile) = Manifest(g, e)
  BY DEF Value, Manifests
<1>10. \A f \in 1 .. Len(Snapshots[g]) : Value(g, e, f) = Snapshots[g][f]
  BY <1>8 DEF Value
<1> QED
  BY <1>5, <1>6, <1>7, <1>8, <1>9, <1>10, <1>11

LEMMA ValueKnown ==
  ASSUME NEW g \in Generations, NEW e \in Parties, NEW f \in Files
  PROVE  Value(g, e, f) \in Manifests \cup AllSnapshots
<1>1. f = ManifestFile \/ f \in 1 .. Len(Snapshots[g])
  BY ValueFacts DEF Files
<1> QED
  BY <1>1, ValueFacts

LEMMA Loading ==
  ASSUME NEW l \in Loaders
  PROVE  /\ Dir(l) \in Parties /\ l[1] \in {"server", "client"}
         /\ \A e \in Parties : /\ <<"server", e>> \in Loaders /\ <<"client", e>> \in Loaders
                               /\ Dir(<<"client", e>>) = e
BY DEF Loaders, Dir

(* The manifest in memory is the one that is listed.                          *)
LEMMA ManifestHeld ==
  ASSUME NEW l \in Loaders, NEW g \in Generations, HoldsOf(l, g)
  PROVE  ManifestOf(l) = Manifest(g, Dir(l))
BY DEF HoldsOf, ManifestOf

----------------------------------------------------------------------------
\* The files an export has filled in the store at hand are its own, and a
\* store it has begun is dirty.
WriterProgress ==
  writer.generation # 0 =>
    /\ \A f \in Files : f < writer.file =>
         disk[Target][f] = {Value(writer.generation, Target, f)}
    /\ writer.file > 1 \/ writer.open => Target \in dirty

\* A store that is not dirty is one generation's, whole.
CleanIsWhole ==
  \A e \in Parties \ dirty :
    \E g \in Generations : \A f \in Files : disk[e][f] = {Value(g, e, f)}

\* A load that nobody disturbed reads the store its manifest was read from.
UndisturbedIsCurrent ==
  \A l \in Loaders :
    store[l].status = "loading" /\ l \notin disturbed =>
      Dir(l) \notin dirty /\ disk[Dir(l)][ManifestFile] = store[l].manifest

DiskInv == DiskKnown /\ WriterProgress /\ CleanIsWhole /\ UndisturbedIsCurrent

(* The store an export works on.                                              *)
LEMMA TargetFacts ==
  ASSUME Typed, writer.generation # 0
  PROVE  /\ Target \in Parties /\ writer.generation \in Generations
         /\ writer.file \in Files /\ writer.party \in Parties
BY GenerationsAssumption DEF Typed, Target

LEMMA DiskInitially ==
  ASSUME Init
  PROVE  Typed /\ DiskInv /\ StoresKnown
<1>1. /\ disk = [e \in Parties |-> [f \in Files |-> {Value(First, e, f)}]]
      /\ First \in Generations
  BY GenerationsAssumption DEF Init, Files
<1>2. disk \in [Parties -> [Files -> SUBSET (Manifests \cup AllSnapshots)]]
  BY <1>1, ValueKnown
<1>3. 0 \in Parties /\ 1 \in Files
  <2>1. 0 \in Parties
    BY GenerationsAssumption DEF Parties
  <2> QED
    BY <1>1, <2>1, ValueFacts DEF Files
<1>4. /\ NotWriting \in [generation : Generations \cup {0}, party : Parties, file : Files,
                         open : BOOLEAN]
      /\ NotWriting.generation = 0
  BY <1>3 DEF NotWriting
<1>5. \A l \in Loaders : store[l] = IF l[1] = "server" /\ deployment = "sockets"
           THEN [status |-> "ready", manifest |-> {Manifest(First, Dir(l))}, read |-> Snapshots[First]]
           ELSE Unloaded
  BY DEF Init
<1>6. \A l \in Loaders : store[l] \in Stores
  <2> SUFFICES ASSUME NEW l \in Loaders PROVE store[l] \in Stores
    OBVIOUS
  <2>1. Manifest(First, Dir(l)) \in Manifests /\ Snapshots[First] \in Seq(AllSnapshots)
    BY <1>1, Loading, ValueFacts
  <2>2. Unloaded \in Stores
    BY DEF Unloaded, Stores
  <2>3. [status |-> "ready", manifest |-> {Manifest(First, Dir(l))},
         read |-> Snapshots[First]] \in Stores
    BY <2>1 DEF Stores
  <2>4. CASE l[1] = "server" /\ deployment = "sockets"
    BY <1>5, <2>3, <2>4
  <2>5. CASE ~(l[1] = "server" /\ deployment = "sockets")
    BY <1>5, <2>2, <2>5
  <2> QED
    BY <2>4, <2>5
<1>7. Typed
  <2>1. store \in [Loaders -> Stores]
    BY <1>6 DEF Init
  <2>2. /\ client.phase = "load" /\ client.replies = [e \in Parties |-> Pending]
    BY DEF Init, Client, NoLookup
  <2>3. client.replies = [e \in Parties |-> client.replies[e]]
    BY <2>2
  <2> QED
    BY <1>2, <1>4, <2>1, <2>2, <2>3, GenerationsAssumption DEF Init, Typed, Phases
<1>8. StoresKnown
  <2> SUFFICES ASSUME NEW l \in Loaders
               PROVE  IF store[l].status = "down"
                      THEN store[l].manifest = {} /\ store[l].read = <<>>
                      ELSE \E g \in Generations : HoldsOf(l, g)
    BY DEF StoresKnown
  <2>1. CASE store[l] = Unloaded
    BY <2>1 DEF Unloaded
  <2>2. CASE store[l] = [status |-> "ready", manifest |-> {Manifest(First, Dir(l))},
                         read |-> Snapshots[First]]
    <3>1. HoldsOf(l, First)
      BY <2>2 DEF HoldsOf
    <3> QED
      BY <1>1, <2>2, <3>1
  <2> QED
    BY <1>5, <2>1, <2>2
<1>9. \A l \in Loaders : store[l].status # "loading"
  <2> SUFFICES ASSUME NEW l \in Loaders PROVE store[l].status # "loading"
    OBVIOUS
  <2>1. \/ store[l] = [status |-> "ready", manifest |-> {Manifest(First, Dir(l))},
                       read |-> Snapshots[First]]
        \/ store[l] = Unloaded
    BY <1>5
  <2>2. Unloaded.status = "down"
    BY DEF Unloaded
  <2> QED
    BY <2>1, <2>2
<1>10. DiskInv
  <2>1. \A e \in Parties, f \in Files : disk[e][f] = {Value(First, e, f)}
    BY <1>1
  <2>2. DiskKnown /\ CleanIsWhole
    BY <1>1, <2>1 DEF DiskKnown, CleanIsWhole
  <2>3. WriterProgress
    BY <1>4 DEF Init, WriterProgress
  <2>4. UndisturbedIsCurrent
    BY <1>9 DEF UndisturbedIsCurrent
  <2> QED
    BY <2>2, <2>3, <2>4 DEF DiskInv
<1> QED
  BY <1>7, <1>8, <1>10

(* A step that leaves files and stores alone leaves what is known of them.    *)
LEMMA DiskFrame ==
  ASSUME DiskInv, StoresKnown, UNCHANGED <<disk, writer, dirty, store, disturbed>>
  PROVE  DiskInv' /\ StoresKnown'
BY DEF DiskInv, StoresKnown, DiskKnown, WriterProgress, CleanIsWhole, UndisturbedIsCurrent,
   HoldsOf, Target

LEMMA BeginExportKeeps ==
  ASSUME Typed, DiskInv, StoresKnown, NEW g \in Generations, BeginExport(g)
  PROVE  Typed' /\ DiskInv' /\ StoresKnown'
<1>1. /\ writer' = [NotWriting EXCEPT !.generation = g]
      /\ UNCHANGED <<disk, dirty, store, disturbed, deployment, client>>
  BY DEF BeginExport
<1>2. /\ writer'.generation = g /\ writer'.file = 1 /\ ~writer'.open /\ writer'.party = 0
      /\ writer' \in [generation : Generations \cup {0}, party : Parties, file : Files,
                      open : BOOLEAN]
      /\ g # 0
  <2>1. 0 \in Parties
    BY GenerationsAssumption DEF Parties
  <2>2. 1 \in Files
    BY <2>1, ValueFacts DEF Files
  <2> QED
    BY <1>1, <2>1, <2>2, GenerationsAssumption DEF NotWriting
<1>3. Typed'
  BY <1>1, <1>2 DEF Typed
<1>4. StoresKnown'
  BY <1>1 DEF StoresKnown, HoldsOf
<1>5. WriterProgress'
  <2>1. \A f \in Files : ~(f < 1)
    BY DEF Files
  <2> QED
    BY <1>2, <2>1 DEF WriterProgress
<1> QED
  BY <1>1, <1>3, <1>4, <1>5 DEF DiskInv, DiskKnown, CleanIsWhole, UndisturbedIsCurrent

(* The file an export is at loses its text: its store is dirty from then on.  *)
LEMMA TruncateKeeps ==
  ASSUME Typed, DiskInv, StoresKnown, Truncate
  PROVE  Typed' /\ DiskInv' /\ StoresKnown'
<1>1. /\ writer.generation # 0 /\ writer' = [writer EXCEPT !.open = TRUE]
      /\ disk' = [disk EXCEPT ![Target][writer.file] = {}]
      /\ dirty' = dirty \cup {Target}
      /\ disturbed' = disturbed \cup {l \in Loaders : Dir(l) = Target /\ store[l].status = "loading"}
      /\ UNCHANGED <<store, deployment, client>>
  BY DEF Truncate
<1>2. Target \in Parties /\ writer.generation \in Generations /\ writer.file \in Files
  BY <1>1, TargetFacts
<1>3. /\ writer' \in [generation : Generations \cup {0}, party : Parties, file : Files,
                      open : BOOLEAN]
      /\ writer'.generation = writer.generation /\ writer'.party = writer.party
      /\ writer'.file = writer.file /\ writer'.open
  BY <1>1 DEF Typed
<1>4. Target' = Target
  BY <1>3, GenerationsAssumption DEF Target
<1>5. \A e \in Parties, f \in Files :
        disk'[e][f] = IF e = Target /\ f = writer.file THEN {} ELSE disk[e][f]
  BY <1>1, <1>2 DEF Typed
<1>6. disk' \in [Parties -> [Files -> SUBSET (Manifests \cup AllSnapshots)]]
  BY <1>1, <1>2 DEF Typed
<1>7. Typed'
  BY <1>1, <1>2, <1>3, <1>6 DEF Typed
<1>8. StoresKnown'
  BY <1>1 DEF StoresKnown, HoldsOf
<1>9. DiskKnown'
  BY <1>5 DEF DiskInv, DiskKnown
<1>10. WriterProgress'
  <2>1. \A f \in Files : f < writer.file => f # writer.file
    BY <1>2 DEF Files
  <2> QED
    BY <1>1, <1>2, <1>3, <1>4, <1>5, <2>1 DEF DiskInv, WriterProgress
<1>11. CleanIsWhole'
  BY <1>1, <1>5 DEF DiskInv, CleanIsWhole
<1>12. UndisturbedIsCurrent'
  <2> SUFFICES ASSUME NEW l \in Loaders, store[l].status = "loading", l \notin disturbed'
               PROVE  /\ Dir(l) \notin dirty'
                      /\ disk'[Dir(l)][ManifestFile] = store[l].manifest
    BY <1>1 DEF UndisturbedIsCurrent
  <2>1. Dir(l) # Target /\ l \notin disturbed
    BY <1>1
  <2>2. ManifestFile \in Files
    BY <1>2, ValueFacts
  <2> QED
    BY <1>1, <1>5, <2>1, <2>2, Loading DEF DiskInv, UndisturbedIsCurrent
<1> QED
  BY <1>7, <1>8, <1>9, <1>10, <1>11, <1>12 DEF DiskInv

(* The file gets its new text; with the last one the store is whole again.    *)
LEMMA FillKeeps ==
  ASSUME Typed, DiskInv, StoresKnown, Fill
  PROVE  Typed' /\ DiskInv' /\ StoresKnown'
<1>1. /\ writer.open
      /\ disk' = [disk EXCEPT ![Target][writer.file] =
                    {Value(writer.generation, Target, writer.file)}]
      /\ writer' = NextFile(writer)
      /\ dirty' = IF writer.file = ManifestFile THEN dirty \ {Target} ELSE dirty
      /\ UNCHANGED <<store, disturbed, deployment, client>>
  BY DEF Fill
<1>2. writer.generation # 0
  BY <1>1 DEF Typed, NotWriting
<1>3. /\ Target \in Parties /\ writer.generation \in Generations /\ writer.file \in Files
      /\ writer.party \in Parties
  BY <1>2, TargetFacts
<1>4. ManifestFile \in Nat /\ ManifestFile \in Files /\ 1 \in Files /\ PartyCount \in Nat \ {0}
  BY <1>3, ValueFacts, GenerationsAssumption DEF Files
<1>5. Target \in dirty
  BY <1>1, <1>2 DEF DiskInv, WriterProgress
<1>6. \A e \in Parties, f \in Files :
        disk'[e][f] = IF e = Target /\ f = writer.file
                      THEN {Value(writer.generation, Target, writer.file)} ELSE disk[e][f]
  BY <1>1, <1>3 DEF Typed
<1>7. disk' \in [Parties -> [Files -> SUBSET (Manifests \cup AllSnapshots)]]
  <2>1. Value(writer.generation, Target, writer.file) \in Manifests \cup AllSnapshots
    BY <1>3, ValueKnown
  <2> QED
    BY <1>1, <1>3, <2>1 DEF Typed
<1>8. \/ /\ writer.file < ManifestFile
         /\ writer' = [writer EXCEPT !.file = @ + 1, !.open = FALSE]
      \/ /\ writer.file = ManifestFile /\ writer.party < PartyCount - 1
         /\ writer' = [writer EXCEPT !.party = @ + 1, !.file = 1, !.open = FALSE]
      \/ writer.file = ManifestFile /\ writer' = NotWriting
  <2>1. writer.file < ManifestFile \/ writer.file = ManifestFile
    BY <1>3, <1>4 DEF Files
  <2>2. CASE writer.file < ManifestFile
    BY <1>1, <2>2 DEF NextFile
  <2>3. CASE writer.file = ManifestFile /\ writer.party < PartyCount - 1
    <3>1. ~(writer.file < ManifestFile)
      BY <1>4, <2>3
    <3> QED
      BY <1>1, <2>3, <3>1 DEF NextFile
  <2>4. CASE writer.file = ManifestFile /\ ~(writer.party < PartyCount - 1)
    <3>1. ~(writer.file < ManifestFile)
      BY <1>4, <2>4
    <3> QED
      BY <1>1, <2>4, <3>1 DEF NextFile
  <2> QED
    BY <2>1, <2>2, <2>3, <2>4
<1>9. /\ writer' \in [generation : Generations \cup {0}, party : Parties, file : Files,
                      open : BOOLEAN]
      /\ writer'.generation = 0 => writer' = NotWriting
      /\ ~writer'.open
  <2>1. CASE writer.file < ManifestFile /\ writer' = [writer EXCEPT !.file = @ + 1, !.open = FALSE]
    <3>1. writer.file + 1 \in Files
      BY <1>3, <1>4, <2>1 DEF Files
    <3> QED
      BY <1>2, <2>1, <3>1 DEF Typed
  <2>2. CASE /\ writer.party < PartyCount - 1
             /\ writer' = [writer EXCEPT !.party = @ + 1, !.file = 1, !.open = FALSE]
    <3>1. writer.party + 1 \in Parties
      BY <1>3, <1>4, <2>2 DEF Parties
    <3> QED
      BY <1>2, <1>4, <2>2, <3>1 DEF Typed
  <2>3. CASE writer' = NotWriting
    <3>1. 0 \in Parties
      BY <1>4 DEF Parties
    <3> QED
      BY <1>4, <2>3, <3>1 DEF NotWriting
  <2> QED
    BY <1>8, <2>1, <2>2, <2>3
<1>10. Typed'
  BY <1>1, <1>3, <1>7, <1>9 DEF Typed
<1>11. StoresKnown'
  BY <1>1 DEF StoresKnown, HoldsOf
<1>12. DiskKnown'
  <2> SUFFICES ASSUME NEW e \in Parties, NEW f \in Files
               PROVE  disk'[e][f] = {} \/ \E g \in Generations : disk'[e][f] = {Value(g, e, f)}
    BY DEF DiskKnown
  <2>1. CASE e = Target /\ f = writer.file
    BY <1>3, <1>6, <2>1
  <2>2. CASE ~(e = Target /\ f = writer.file)
    BY <1>6, <2>2 DEF DiskInv, DiskKnown
  <2> QED
    BY <2>1, <2>2
<1>13. WriterProgress'
  <2>1. CASE writer.file < ManifestFile /\ writer' = [writer EXCEPT !.file = @ + 1, !.open = FALSE]
    <3>1. /\ writer'.generation = writer.generation /\ writer'.party = writer.party
          /\ writer'.file = writer.file + 1
      BY <2>1 DEF Typed
    <3>2. Target' = Target
      BY <3>1, GenerationsAssumption DEF Target
    <3>3. \A f \in Files : f < writer.file + 1 => f < writer.file \/ f = writer.file
      BY <1>3 DEF Files
    <3>4. \A f \in Files : f < writer.file => f # writer.file
      BY <1>3 DEF Files
    <3>5. \A f \in Files : f < writer.file =>
            disk[Target][f] = {Value(writer.generation, Target, f)}
      BY <1>2 DEF DiskInv, WriterProgress
    <3>6. \A f \in Files : f < writer'.file =>
            disk'[Target][f] = {Value(writer.generation, Target, f)}
      BY <1>3, <1>6, <3>1, <3>3, <3>4, <3>5
    <3>7. dirty' = dirty
      BY <1>1, <1>3, <1>4, <2>1
    <3> QED
      BY <1>5, <3>1, <3>2, <3>6, <3>7 DEF WriterProgress, Value
  <2>2. CASE /\ writer.party < PartyCount - 1
             /\ writer' = [writer EXCEPT !.party = @ + 1, !.file = 1, !.open = FALSE]
    <3>1. writer'.file = 1
      BY <2>2 DEF Typed
    <3>2. \A f \in Files : ~(f < 1)
      BY <1>4 DEF Files
    <3> QED
      BY <1>9, <3>1, <3>2 DEF WriterProgress
  <2>3. CASE writer' = NotWriting
    BY <2>3 DEF WriterProgress, NotWriting
  <2> QED
    BY <1>8, <2>1, <2>2, <2>3
<1>14. CleanIsWhole'
  <2> SUFFICES ASSUME NEW e \in Parties \ dirty'
               PROVE  \E g \in Generations : \A f \in Files : disk'[e][f] = {Value(g, e, f)}
    BY DEF CleanIsWhole
  <2>1. CASE e = Target
    <3>1. writer.file = ManifestFile
      BY <1>1, <1>5, <2>1
    <3>2. \A f \in Files : f < writer.file \/ f = writer.file
      BY <1>4, <3>1 DEF Files
    <3>3. \A f \in Files : disk'[e][f] = {Value(writer.generation, e, f)}
      BY <1>2, <1>3, <1>6, <2>1, <3>2 DEF DiskInv, WriterProgress
    <3> QED
      BY <1>3, <3>3
  <2>2. CASE e # Target
    <3>1. e \notin dirty
      BY <1>1, <2>2
    <3> QED
      BY <1>6, <2>2, <3>1 DEF DiskInv, CleanIsWhole
  <2> QED
    BY <2>1, <2>2
<1>15. UndisturbedIsCurrent'
  <2> SUFFICES ASSUME NEW l \in Loaders, store[l].status = "loading", l \notin disturbed
               PROVE  /\ Dir(l) \notin dirty'
                      /\ disk'[Dir(l)][ManifestFile] = store[l].manifest
    BY <1>1 DEF UndisturbedIsCurrent
  <2>1. /\ Dir(l) \notin dirty /\ Dir(l) \in Parties
        /\ disk[Dir(l)][ManifestFile] = store[l].manifest
    BY Loading DEF DiskInv, UndisturbedIsCurrent
  <2> QED
    BY <1>1, <1>4, <1>5, <1>6, <2>1
<1> QED
  BY <1>10, <1>11, <1>12, <1>13, <1>14, <1>15 DEF DiskInv

LEMMA KillExportKeeps ==
  ASSUME Typed, DiskInv, StoresKnown, KillExport
  PROVE  Typed' /\ DiskInv' /\ StoresKnown'
<1>1. /\ writer' = NotWriting
      /\ UNCHANGED <<disk, dirty, store, disturbed, deployment, client>>
  BY DEF KillExport
<1>2. 0 \in Parties /\ 1 \in Files
  BY GenerationsAssumption, ValueFacts DEF Parties, Files
<1>3. /\ NotWriting \in [generation : Generations \cup {0}, party : Parties, file : Files,
                         open : BOOLEAN]
      /\ NotWriting.generation = 0
  BY <1>2 DEF NotWriting
<1>4. Typed'
  BY <1>1, <1>3 DEF Typed
<1>5. StoresKnown'
  BY <1>1 DEF StoresKnown, HoldsOf
<1>6. WriterProgress'
  BY <1>1, <1>3 DEF WriterProgress
<1> QED
  BY <1>1, <1>4, <1>5, <1>6 DEF DiskInv, DiskKnown, CleanIsWhole, UndisturbedIsCurrent

----------------------------------------------------------------------------
(* A step of one loader: what it holds afterwards settles the invariant.      *)
LEMMA LoaderStep ==
  ASSUME DiskInv, StoresKnown, NEW l \in Loaders, UNCHANGED <<disk, writer, dirty>>,
         \A m \in Loaders \ {l} : store'[m] = store[m] /\ (m \in disturbed' <=> m \in disturbed),
         IF store'[l].status = "down"
         THEN store'[l].manifest = {} /\ store'[l].read = <<>>
         ELSE \E g \in Generations : HoldsOf(l, g)',
         store'[l].status = "loading" /\ l \notin disturbed' =>
           Dir(l) \notin dirty /\ disk[Dir(l)][ManifestFile] = store'[l].manifest
  PROVE  DiskInv' /\ StoresKnown'
<1>1. DiskKnown' /\ WriterProgress' /\ CleanIsWhole'
  BY DEF DiskInv, DiskKnown, WriterProgress, CleanIsWhole, Target
<1>2. UndisturbedIsCurrent'
  BY DEF DiskInv, UndisturbedIsCurrent
<1>3. StoresKnown'
  <2> SUFFICES ASSUME NEW m \in Loaders
               PROVE  IF store'[m].status = "down"
                      THEN store'[m].manifest = {} /\ store'[m].read = <<>>
                      ELSE \E g \in Generations : HoldsOf(m, g)'
    BY DEF StoresKnown
  <2>1. CASE m = l
    BY <2>1
  <2>2. CASE m # l
    BY <2>2 DEF StoresKnown, HoldsOf
  <2> QED
    BY <2>1, <2>2
<1> QED
  BY <1>1, <1>2, <1>3 DEF DiskInv

LEMMA ReadManifestKeeps ==
  ASSUME Typed, DiskInv, StoresKnown, NEW l \in Loaders, ReadManifest(l)
  PROVE  Typed' /\ DiskInv' /\ StoresKnown'
<1>1. /\ store[l].status = "down" /\ Readable(l)
      /\ store' = [store EXCEPT ![l] = [status |-> "loading", manifest |-> File(l), read |-> <<>>]]
      /\ disturbed' = IF Dir(l) \in dirty THEN disturbed \cup {l} ELSE disturbed \ {l}
      /\ UNCHANGED <<disk, writer, dirty, deployment, client>>
  BY DEF ReadManifest
<1>2. Dir(l) \in Parties
  BY Loading
<1>3. File(l) = disk[Dir(l)][ManifestFile] /\ File(l) # {}
  BY <1>1 DEF File, Readable
<1>4. ManifestFile \in Files
  BY GenerationsAssumption, <1>2, ValueFacts
<1>5. PICK g \in Generations : File(l) = {Value(g, Dir(l), ManifestFile)}
  BY <1>2, <1>3, <1>4 DEF DiskInv, DiskKnown
<1>6. /\ File(l) = {Manifest(g, Dir(l))} /\ Manifest(g, Dir(l)) \in Manifests
      /\ Len(Snapshots[g]) \in Nat /\ 0 < Len(Snapshots[g])
  BY <1>2, <1>5, ValueFacts
<1>7. /\ store'[l].status = "loading" /\ store'[l].manifest = File(l) /\ store'[l].read = <<>>
      /\ \A m \in Loaders \ {l} : store'[m] = store[m]
  BY <1>1 DEF Typed
<1>8. HoldsOf(l, g)'
  BY <1>6, <1>7 DEF HoldsOf, Dir
<1>9. Typed'
  <2>1. [status |-> "loading", manifest |-> File(l), read |-> <<>>] \in Stores
    BY <1>6 DEF Stores
  <2>2. store' \in [Loaders -> Stores]
    BY <1>1, <2>1 DEF Typed
  <2>3. disturbed' \subseteq Loaders
    BY <1>1 DEF Typed
  <2> QED
    BY <1>1, <2>2, <2>3 DEF Typed
<1>10. \A m \in Loaders \ {l} : store'[m] = store[m] /\ (m \in disturbed' <=> m \in disturbed)
  BY <1>1, <1>7
<1>11. store'[l].status = "loading" /\ l \notin disturbed' =>
         Dir(l) \notin dirty /\ disk[Dir(l)][ManifestFile] = store'[l].manifest
  BY <1>1, <1>3, <1>7
<1>12. DiskInv' /\ StoresKnown'
  BY <1>1, <1>7, <1>8, <1>10, <1>11, LoaderStep
<1> QED
  BY <1>9, <1>12

LEMMA ReadSnapshotKeeps ==
  ASSUME Typed, DiskInv, StoresKnown, NEW l \in Loaders, ReadSnapshot(l)
  PROVE  Typed' /\ DiskInv' /\ StoresKnown'
<1> DEFINE n == Len(store[l].read)
           read == Append(store[l].read, CHOOSE s \in File(l) : TRUE)
           whole == Len(read) = Len(ManifestOf(l).snapshots)
<1>1. /\ store[l].status = "loading" /\ Readable(l)
      /\ store' = [store EXCEPT ![l].read = read,
                                ![l].status = IF whole THEN "ready" ELSE "loading"]
      /\ disturbed' = IF whole THEN disturbed \ {l} ELSE disturbed
      /\ UNCHANGED <<disk, writer, dirty, deployment, client>>
  BY DEF ReadSnapshot
<1>2. Dir(l) \in Parties
  BY Loading
<1>3. PICK g \in Generations : HoldsOf(l, g)
  BY <1>1 DEF StoresKnown
<1>4. ManifestOf(l) = Manifest(g, Dir(l)) /\ ManifestOf(l).snapshots = Snapshots[g]
  BY <1>2, <1>3, ManifestHeld, ValueFacts
<1>5. /\ store[l].read \in Seq(AllSnapshots) /\ n \in Nat /\ n < Len(Snapshots[g])
      /\ Len(Snapshots[g]) \in Nat /\ n + 1 \in 1 .. Len(Snapshots[g])
      /\ Snapshots[g][n + 1] \in AllSnapshots
  <2>1. store[l].read \in Seq(AllSnapshots) /\ n \in Nat /\ n < Len(Snapshots[g])
    BY <1>1, <1>3 DEF Typed, Stores, HoldsOf
  <2>2. Len(Snapshots[g]) \in Nat
    BY <1>2, ValueFacts
  <2>3. n + 1 \in 1 .. Len(Snapshots[g])
    BY <2>1, <2>2
  <2> QED
    BY <1>2, <2>1, <2>2, <2>3, ValueFacts
<1>6. read = Append(store[l].read, Snapshots[g][n + 1])
  <2>1. File(l) = {Snapshots[g][n + 1]}
    BY <1>1, <1>4 DEF Readable
  <2> QED
    BY <2>1
<1>7. /\ read \in Seq(AllSnapshots) /\ Len(read) = n + 1
      /\ \A k \in 1 .. n : read[k] = store[l].read[k]
      /\ read[n + 1] = Snapshots[g][n + 1]
  BY <1>5, <1>6
<1> HIDE DEF read
<1>8. \A k \in 1 .. Len(read) : read[k] = Snapshots[g][k]
  <2>1. \A k \in 1 .. n + 1 : k \in 1 .. n \/ k = n + 1
    BY <1>5
  <2> QED
    BY <1>3, <1>7, <2>1 DEF HoldsOf
<1>9. whole <=> n + 1 = Len(Snapshots[g])
  BY <1>4, <1>7
<1>10. /\ store'[l].read = read /\ store'[l].manifest = store[l].manifest
       /\ store'[l].status = IF whole THEN "ready" ELSE "loading"
       /\ \A m \in Loaders \ {l} : store'[m] = store[m]
       /\ store' \in [Loaders -> Stores]
  <2> DEFINE status == IF whole THEN "ready" ELSE "loading"
  <2>1. /\ status \in {"down", "loading", "ready"}
        /\ store' = [store EXCEPT ![l].read = read, ![l].status = status]
    BY <1>1
  <2> HIDE DEF status
  <2>2. /\ store'[l].read = read /\ store'[l].manifest = store[l].manifest
        /\ store'[l].status = status
        /\ \A m \in Loaders \ {l} : store'[m] = store[m]
    BY <2>1 DEF Typed, Stores
  <2>3. store' \in [Loaders -> Stores]
    <3>1. store'[l] = [status |-> status, manifest |-> store[l].manifest, read |-> read]
      BY <2>1 DEF Typed, Stores
    <3>2. store'[l] \in Stores
      BY <1>7, <2>1, <3>1 DEF Typed, Stores
    <3>3. store' = [m \in Loaders |-> store'[m]]
      BY <2>1 DEF Typed
    <3>4. \A m \in Loaders : store'[m] \in Stores
      BY <2>2, <3>2 DEF Typed
    <3> QED
      BY <3>3, <3>4
  <2> QED
    BY <2>2, <2>3 DEF status
<1>11. HoldsOf(l, g)'
  <2>1. store'[l].manifest = {Manifest(g, Dir(l))}
    BY <1>3, <1>10 DEF HoldsOf
  <2>2. store'[l].status = "loading" => Len(store'[l].read) < Len(Snapshots[g])
    BY <1>5, <1>7, <1>9, <1>10
  <2>3. store'[l].status = "ready" => Len(store'[l].read) = Len(Snapshots[g])
    BY <1>7, <1>9, <1>10
  <2> QED
    BY <1>8, <1>10, <2>1, <2>2, <2>3 DEF HoldsOf, Dir
<1>12. Typed'
  BY <1>1, <1>10 DEF Typed
<1>13. \A m \in Loaders \ {l} : store'[m] = store[m] /\ (m \in disturbed' <=> m \in disturbed)
  BY <1>1, <1>10
<1>14. store'[l].status # "down"
  BY <1>10
<1>15. store'[l].status = "loading" /\ l \notin disturbed' =>
         Dir(l) \notin dirty /\ disk[Dir(l)][ManifestFile] = store'[l].manifest
  BY <1>1, <1>10 DEF DiskInv, UndisturbedIsCurrent
<1>16. DiskInv' /\ StoresKnown'
  BY <1>1, <1>11, <1>13, <1>14, <1>15, LoaderStep
<1> QED
  BY <1>12, <1>16

LEMMA UnloadKeeps ==
  ASSUME Typed, DiskInv, StoresKnown, NEW l \in Loaders,
         store' = [store EXCEPT ![l] = Unloaded], disturbed' \in {disturbed, disturbed \ {l}},
         UNCHANGED <<disk, writer, dirty, deployment>>,
         client'.phase \in Phases, client'.replies = [e \in Parties |-> client'.replies[e]]
  PROVE  Typed' /\ DiskInv' /\ StoresKnown'
<1>1. Unloaded \in Stores /\ Unloaded.status = "down" /\ Unloaded.manifest = {}
      /\ Unloaded.read = <<>>
  BY DEF Unloaded, Stores
<1>2. /\ store' \in [Loaders -> Stores] /\ store'[l] = Unloaded
      /\ \A m \in Loaders \ {l} : store'[m] = store[m]
  BY <1>1 DEF Typed
<1>3. Typed'
  BY <1>2 DEF Typed
<1>4. \A m \in Loaders \ {l} : store'[m] = store[m] /\ (m \in disturbed' <=> m \in disturbed)
  BY <1>2
<1>5. DiskInv' /\ StoresKnown'
  BY <1>1, <1>2, <1>4, LoaderStep
<1> QED
  BY <1>3, <1>5

----------------------------------------------------------------------------
(* Every step keeps the invariant.                                            *)
Known == Typed /\ DiskInv /\ StoresKnown

LEMMA ClientOnlyKeeps ==
  ASSUME Known, UNCHANGED <<disk, writer, dirty, store, disturbed, deployment>>,
         client'.phase \in Phases, client'.replies = [e \in Parties |-> client'.replies[e]]
  PROVE  Known'
<1>1. Typed'
  BY DEF Known, Typed
<1> QED
  BY <1>1, DiskFrame DEF Known

LEMMA ClientFields ==
  ASSUME NEW phase \in Phases, NEW lookup,
         lookup.replies = [e \in Parties |-> lookup.replies[e]]
  PROVE  /\ Client(phase, lookup).phase \in Phases
         /\ Client(phase, lookup).replies = [e \in Parties |-> Client(phase, lookup).replies[e]]
BY DEF Client

LEMMA NewClientKeeps ==
  ASSUME Known, NewClient
  PROVE  Known'
<1>1. /\ store' = [l \in Loaders |-> IF l[1] = "client" THEN Unloaded ELSE store[l]]
      /\ client' = Client("load", NoLookup)
      /\ UNCHANGED <<disk, writer, dirty, disturbed, deployment>>
  BY DEF NewClient
<1>2. Unloaded \in Stores /\ Unloaded.status = "down" /\ Unloaded.manifest = {}
      /\ Unloaded.read = <<>>
  BY DEF Unloaded, Stores
<1>3. \A l \in Loaders : store'[l] = Unloaded \/ store'[l] = store[l]
  BY <1>1
<1>4. store' \in [Loaders -> Stores]
  BY <1>1, <1>2 DEF Known, Typed
<1>5. client'.phase = "load" /\ client'.replies = [e \in Parties |-> client'.replies[e]]
  BY <1>1 DEF Client, NoLookup
<1>6. Typed'
  BY <1>1, <1>4, <1>5 DEF Known, Typed, Phases
<1>7. DiskKnown' /\ WriterProgress' /\ CleanIsWhole'
  BY <1>1 DEF Known, DiskInv, DiskKnown, WriterProgress, CleanIsWhole, Target
<1>8. UndisturbedIsCurrent'
  BY <1>1, <1>2, <1>3 DEF Known, DiskInv, UndisturbedIsCurrent
<1>9. StoresKnown'
  <2> SUFFICES ASSUME NEW l \in Loaders
               PROVE  IF store'[l].status = "down"
                      THEN store'[l].manifest = {} /\ store'[l].read = <<>>
                      ELSE \E g \in Generations : HoldsOf(l, g)'
    BY DEF StoresKnown
  <2>1. CASE store'[l] = Unloaded
    BY <1>2, <2>1
  <2>2. CASE store'[l] = store[l]
    BY <2>2 DEF Known, StoresKnown, HoldsOf, Dir
  <2> QED
    BY <1>3, <2>1, <2>2
<1> QED
  BY <1>6, <1>7, <1>8, <1>9 DEF Known, DiskInv

LEMMA StepKeeps ==
  ASSUME Known, Next
  PROVE  Known'
<1> USE DEF Known
<1>1. CASE \E g \in Generations : BeginExport(g)
  BY <1>1, BeginExportKeeps
<1>2. CASE Truncate
  BY <1>2, TruncateKeeps
<1>3. CASE Fill
  BY <1>3, FillKeeps
<1>4. CASE KillExport
  BY <1>4, KillExportKeeps
<1>5. ASSUME NEW l \in Loaders, ReadManifest(l) PROVE Known'
  BY <1>5, ReadManifestKeeps
<1>6. ASSUME NEW l \in Loaders, ReadSnapshot(l) PROVE Known'
  BY <1>6, ReadSnapshotKeeps
<1>7. ASSUME NEW l \in Loaders, RefuseLoad(l) PROVE Known'
  <2>1. /\ store' = [store EXCEPT ![l] = Unloaded] /\ disturbed' = disturbed \ {l}
        /\ client' = IF l[1] = "client" THEN [client EXCEPT !.phase = "refused"] ELSE client
        /\ UNCHANGED <<disk, writer, dirty, deployment>>
    BY <1>7 DEF RefuseLoad
  <2>2. client'.phase \in Phases /\ client'.replies = [e \in Parties |-> client'.replies[e]]
    BY <2>1 DEF Typed, Phases
  <2> QED
    BY <2>1, <2>2, UnloadKeeps
<1>8. ASSUME NEW e \in Parties, KillServer(e) PROVE Known'
  <2>1. /\ store' = [store EXCEPT ![<<"server", e>>] = Unloaded]
        /\ UNCHANGED <<disk, writer, dirty, disturbed, deployment, client>>
    BY <1>8 DEF KillServer
  <2>2. <<"server", e>> \in Loaders
    BY DEF Loaders
  <2>3. client'.phase \in Phases /\ client'.replies = [i \in Parties |-> client'.replies[i]]
    BY <2>1 DEF Typed
  <2> QED
    BY <2>1, <2>2, <2>3, UnloadKeeps
<1>9. ASSUME NEW e \in Parties, Answer(e) PROVE Known'
  <2>1. /\ client' = [client EXCEPT !.replies[e] = Response(<<"server", e>>)]
        /\ UNCHANGED <<disk, writer, dirty, store, disturbed, deployment>>
    BY <1>9 DEF Answer
  <2>2. client'.phase = client.phase
    BY <2>1
  <2>3. client'.replies = [client.replies EXCEPT ![e] = Response(<<"server", e>>)]
    BY <2>1
  <2>4. client'.replies = [i \in Parties |-> client'.replies[i]]
    BY <2>3 DEF Typed
  <2> QED
    BY <2>1, <2>2, <2>4, ClientOnlyKeeps DEF Typed
<1>10. ASSUME NEW e \in Parties, GiveUp(e) PROVE Known'
  <2>1. /\ client' = [client EXCEPT !.replies[e] = NoReply]
        /\ UNCHANGED <<disk, writer, dirty, store, disturbed, deployment>>
    BY <1>10 DEF GiveUp
  <2>2. client'.phase \in Phases /\ client'.replies = [i \in Parties |-> client'.replies[i]]
    BY <2>1 DEF Typed
  <2> QED
    BY <2>1, <2>2, ClientOnlyKeeps
<1>11. CASE FinishLoading \/ NextLookup
  <2>1. /\ client' = Client("ready", NoLookup)
        /\ UNCHANGED <<disk, writer, dirty, store, disturbed, deployment>>
    BY <1>11 DEF FinishLoading, NextLookup
  <2>2. NoLookup.replies = [e \in Parties |-> NoLookup.replies[e]]
    BY DEF NoLookup
  <2>3. client'.phase \in Phases /\ client'.replies = [e \in Parties |-> client'.replies[e]]
    BY <2>1, <2>2, ClientFields DEF Phases
  <2> QED
    BY <2>1, <2>3, ClientOnlyKeeps
<1>12. CASE Combine
  <2>1. /\ \/ \E f : client' = [client EXCEPT !.phase = "answered", !.found = f]
           \/ client' = [client EXCEPT !.phase = "refused"]
        /\ UNCHANGED <<disk, writer, dirty, store, disturbed, deployment>>
    BY <1>12 DEF Combine
  <2>2. client'.replies = client.replies /\ client'.phase \in {client.phase, "answered", "refused"}
    <3>1. ASSUME NEW f, client' = [client EXCEPT !.phase = "answered", !.found = f]
          PROVE  /\ client'.replies = client.replies
                 /\ client'.phase \in {client.phase, "answered", "refused"}
      BY <3>1
    <3>2. CASE client' = [client EXCEPT !.phase = "refused"]
      BY <3>2
    <3> QED
      BY <2>1, <3>1, <3>2
  <2>3. client'.phase \in Phases /\ client'.replies = [e \in Parties |-> client'.replies[e]]
    BY <2>2 DEF Typed, Phases
  <2> QED
    BY <2>1, <2>3, ClientOnlyKeeps
<1>13. CASE NewClient
  BY <1>13, NewClientKeeps
<1>14. ASSUME NEW x \in Lookups, SendRequests(x) PROVE Known'
  <2>1. /\ client' = Client("query", [NoLookup EXCEPT !.alpha = x])
        /\ UNCHANGED <<disk, writer, dirty, store, disturbed, deployment>>
    BY <1>14 DEF SendRequests
  <2>2. [NoLookup EXCEPT !.alpha = x].replies =
          [e \in Parties |-> [NoLookup EXCEPT !.alpha = x].replies[e]]
    BY DEF NoLookup
  <2>3. client'.phase \in Phases /\ client'.replies = [e \in Parties |-> client'.replies[e]]
    BY <2>1, <2>2, ClientFields DEF Phases
  <2> QED
    BY <2>1, <2>3, ClientOnlyKeeps
<1>15. ASSUME NEW x \in Lookups, Query(x) PROVE Known'
  <2>1. UNCHANGED <<disk, writer, dirty, store, disturbed, deployment>>
    BY <1>15 DEF Query
  <2>2. \/ \E r, f : client' = Client("answered", [alpha |-> x, found |-> f,
                            replies |-> [i \in Parties |-> Response(<<"client", r[i]>>)]])
        \/ client' = Client("refused", [NoLookup EXCEPT !.alpha = x])
    <3> DEFINE service(i) == CHOOSE e \in Parties : ManifestOf(<<"client", e>>).index = i
               r == [i \in Parties |-> service(i)]
               replies == [i \in Parties |-> Response(<<"client", service(i)>>)]
               key == Key(x)
               found == IF key.zero THEN {}
                        ELSE Members(store[<<"client", service(0)>>].read,
                                     PointAt(replies[0].points, key.alpha))
    <3>1. \/ client' = Client("answered", [alpha |-> x, replies |-> replies, found |-> found])
          \/ client' = Client("refused", [NoLookup EXCEPT !.alpha = x])
      BY <1>15 DEF Query
    <3>2. replies = [i \in Parties |-> Response(<<"client", r[i]>>)]
      OBVIOUS
    <3> HIDE DEF found, r, replies
    <3> QED
      BY <3>1, <3>2
  <2>3. client'.phase \in Phases /\ client'.replies = [e \in Parties |-> client'.replies[e]]
    <3>1. ASSUME NEW r, NEW f, client' = Client("answered", [alpha |-> x, found |-> f,
                            replies |-> [i \in Parties |-> Response(<<"client", r[i]>>)]])
          PROVE  client'.phase \in Phases /\ client'.replies = [e \in Parties |-> client'.replies[e]]
      BY <3>1 DEF Client, Phases
    <3>2. CASE client' = Client("refused", [NoLookup EXCEPT !.alpha = x])
      BY <3>2 DEF Client, Phases, NoLookup
    <3> QED
      BY <2>2, <3>1, <3>2
  <2> QED
    BY <2>1, <2>3, ClientOnlyKeeps
<1> QED
  BY <1>1, <1>2, <1>3, <1>4, <1>5, <1>6, <1>7, <1>8, <1>9, <1>10, <1>11, <1>12, <1>13,
     <1>14, <1>15 DEF Next

LEMMA KnownAlways == Spec => []Known
<1>1. Init => Known
  BY DiskInitially DEF Known
<1>2. Known /\ [Next]_vars => Known'
  <2> SUFFICES ASSUME Known, UNCHANGED vars PROVE Known'
    BY StepKeeps
  <2>1. client'.phase \in Phases /\ client'.replies = [e \in Parties |-> client'.replies[e]]
    BY DEF Known, Typed, vars
  <2> QED
    BY <2>1, ClientOnlyKeeps DEF vars
<1> QED
  BY <1>1, <1>2, PTL DEF Spec

----------------------------------------------------------------------------
(* Loading.                                                                   *)
LEMMA LoadedGeneration ==
  ASSUME Known, NEW l \in Loaders, Loaded(l)
  PROVE  \E g \in Generations : ManifestOf(l) = Manifest(g, Dir(l)) /\ store[l].read = Snapshots[g]
<1>1. store[l].status = "ready"
  BY DEF Loaded
<1>2. PICK g \in Generations : HoldsOf(l, g)
  BY <1>1 DEF Known, StoresKnown
<1>3. store[l].read \in Seq(AllSnapshots) /\ Snapshots[g] \in Seq(AllSnapshots)
  BY Loading, ValueFacts DEF Known, Typed, Stores
<1>4. store[l].read = Snapshots[g]
  BY <1>1, <1>2, <1>3 DEF HoldsOf
<1> QED
  BY <1>2, <1>4, ManifestHeld

\* LoadedIsWhole, for every number of evaluators, partitions, generations,
\* exports and kills: a process that has loaded a store holds the manifest and
\* the snapshots of one export (MultipartyFssEvaluatorStore.load).
THEOREM LoadedWhole == Spec => []LoadedIsWhole
<1>1. Known => LoadedIsWhole
  BY LoadedGeneration DEF LoadedIsWhole
<1> QED
  BY <1>1, KnownAlways, PTL

LEMMA CleanLoads ==
  ASSUME Known, NEW l \in Loaders, store[l].status \in {"down", "loading"},
         Dir(l) \notin dirty, l \notin disturbed
  PROVE  Readable(l)
<1>1. PICK g \in Generations : \A f \in Files : disk[Dir(l)][f] = {Value(g, Dir(l), f)}
  BY Loading DEF Known, DiskInv, CleanIsWhole
<1>2. ManifestFile \in Files
  BY Loading, ValueFacts
<1>3. CASE store[l].status = "down"
  BY <1>1, <1>2, <1>3 DEF Readable, File
<1>4. CASE store[l].status = "loading"
  <2> DEFINE n == Len(store[l].read)
  <2>1. PICK h \in Generations : HoldsOf(l, h)
    BY <1>4 DEF Known, StoresKnown
  <2>2. store[l].manifest = {Manifest(h, Dir(l))} /\ ManifestOf(l) = Manifest(h, Dir(l))
    BY <2>1, ManifestHeld DEF HoldsOf
  <2>3. disk[Dir(l)][ManifestFile] = store[l].manifest
    BY <1>4 DEF Known, DiskInv, UndisturbedIsCurrent
  <2>4. Manifest(g, Dir(l)) = Manifest(h, Dir(l))
    <3>1. disk[Dir(l)][ManifestFile] = {Value(g, Dir(l), ManifestFile)}
      BY <1>1, <1>2
    <3>2. Value(g, Dir(l), ManifestFile) = Manifest(g, Dir(l))
      BY Loading, ValueFacts
    <3> QED
      BY <2>2, <2>3, <3>1, <3>2
  <2>5. Snapshots[g] = Snapshots[h]
    BY <2>4, Loading, ValueFacts
  <2>6. n + 1 \in 1 .. Len(Snapshots[g])
    <3>1. n \in Nat /\ n < Len(Snapshots[h])
      BY <1>4, <2>1 DEF Known, Typed, Stores, HoldsOf
    <3>2. Len(Snapshots[g]) \in Nat
      BY Loading, ValueFacts
    <3> QED
      BY <2>5, <3>1, <3>2
  <2>7. File(l) = {Snapshots[g][n + 1]}
    <3>1. File(l) = disk[Dir(l)][n + 1]
      BY <1>4 DEF File
    <3> QED
      BY <1>1, <2>6, <3>1, Loading, ValueFacts
  <2>8. ManifestOf(l).snapshots = Snapshots[g]
    BY <2>2, <2>5, Loading, ValueFacts
  <2> QED
    BY <2>7, <2>8 DEF Readable
<1> QED
  BY <1>3, <1>4

\* RefusedOnlyIfDisturbed: a store is refused only if an export is at work in
\* it, was killed there, or wrote to it during the load (what
\* MultipartyFssEvaluatorStore.load refuses: no file, or another digest).
THEOREM RefusedOnlyDisturbed == Spec => RefusedOnlyIfDisturbed
<1>1. ASSUME Known, NEW l \in Loaders, RefuseLoad(l)
      PROVE  Dir(l) \in dirty \/ l \in disturbed
  BY <1>1, CleanLoads DEF RefuseLoad
<1>2. Known => \A l \in Loaders : RefuseLoad(l) => Dir(l) \in dirty \/ l \in disturbed
  BY <1>1
<1> QED
  BY <1>2, KnownAlways, PTL DEF RefusedOnlyIfDisturbed

----------------------------------------------------------------------------
(* Lookups.                                                                   *)

(* The point at the rank of x is x.                                           *)
LEMMA RankIsInjective ==
  ASSUME NEW points \in SUBSET Nat, IsFiniteSet(points), NEW x \in points
  PROVE  PointAt(points, RankOf(points, x)) = x
<1> DEFINE below(z) == {y \in points : y < z}
<1>1. ASSUME NEW a \in points, NEW b \in points, a < b PROVE RankOf(points, a) < RankOf(points, b)
  <2>1. IsFiniteSet(below(b)) /\ below(a) \subseteq below(b)
    <3>1. below(b) \in SUBSET points
      OBVIOUS
    <3>2. IsFiniteSet(below(b))
      BY <3>1, FS_Subset
    <3>3. \A y \in points : y < a => y < b
      <4>1. points \subseteq Nat
        OBVIOUS
      <4> QED
        BY <1>1, <4>1
    <3>4. below(a) \subseteq below(b)
      BY <3>3
    <3> HIDE DEF below
    <3> QED
      BY <3>2, <3>4
  <2>2. a \in below(b) /\ a \notin below(a)
    BY <1>1
  <2>3. /\ Cardinality(below(a)) <= Cardinality(below(b))
        /\ Cardinality(below(a)) = Cardinality(below(b)) => below(a) = below(b)
    BY <2>1, FS_Subset
  <2>4. Cardinality(below(a)) # Cardinality(below(b))
    BY <2>2, <2>3
  <2>5. Cardinality(below(a)) \in Nat /\ Cardinality(below(b)) \in Nat
    BY <2>1, FS_Subset, FS_CardinalityType
  <2>6. Cardinality(below(a)) < Cardinality(below(b))
    BY <2>3, <2>4, <2>5
  <2> QED
    BY <2>6 DEF RankOf
<1>2. \A a \in points : RankOf(points, a) \in Nat
  <2>1. \A a \in points : IsFiniteSet(below(a))
    BY FS_Subset
  <2>2. \A a \in points : Cardinality(below(a)) \in Nat
    BY <2>1, FS_CardinalityType
  <2> QED
    BY <2>2 DEF RankOf
<1>3. ASSUME NEW a \in points, RankOf(points, a) = RankOf(points, x) PROVE a = x
  <2>1. ~(a < x) /\ ~(x < a)
    BY <1>1, <1>2, <1>3
  <2>2. a \in Nat /\ x \in Nat
    OBVIOUS
  <2> QED
    BY <2>1, <2>2
<1> QED
  BY <1>3 DEF PointAt

(* No candidate is listed for a point outside the universe.                   *)
LEMMA OutsideUniverse ==
  ASSUME NEW snapshots, NEW x, x \notin Points(snapshots)
  PROVE  Members(snapshots, x) = {}
<1>1. \A t \in Range(snapshots) : x \notin DOMAIN t
  BY DEF Points
<1> HIDE DEF Points
<1> QED
  BY <1>1 DEF Members

\* A client that goes on has loaded what it needs, and each server that
\* answered it swept the client's own universe.
LookupInv ==
  /\ client.phase \in {"ready", "query", "answered"} =>
       \A e \in ClientDirs : Loaded(<<"client", e>>)
  /\ client.phase = "query" =>
       /\ deployment = "sockets"
       /\ \A e \in Parties : \/ client.replies[e] \in {Pending, NoReply}
                             \/ client.replies[e].points = ClientUniverse

LookupKnown == LookupInv /\ AnswerOfOneGeneration

(* A step that is not the client's leaves its lookup alone.                   *)
LEMMA LookupFrame ==
  ASSUME LookupKnown, UNCHANGED <<client, deployment>>,
         \/ client.phase = "load" \/ client.phase = "refused"
         \/ \A e \in Parties : store'[<<"client", e>>] = store[<<"client", e>>]
  PROVE  LookupKnown'
<1>1. 0 \in Parties /\ ClientDirs \subseteq Parties
  BY GenerationsAssumption DEF Parties, ClientDirs
<1>2. AnswerOfOneGeneration'
  BY DEF LookupKnown, AnswerOfOneGeneration
<1>3. LookupInv'
  <2>1. CASE client.phase = "load" \/ client.phase = "refused"
    BY <2>1 DEF LookupInv
  <2>2. CASE \A e \in Parties : store'[<<"client", e>>] = store[<<"client", e>>]
    BY <1>1, <2>2 DEF LookupKnown, LookupInv, Loaded, ClientDirs, ClientUniverse, Universe
  <2> QED
    BY <2>1, <2>2
<1> QED
  BY <1>2, <1>3 DEF LookupKnown

(* The client's steps leave the stores alone.                                 *)
LEMMA StoresStand ==
  ASSUME UNCHANGED <<store, deployment>>
  PROVE  /\ ClientDirs' = ClientDirs /\ ClientUniverse' = ClientUniverse
         /\ \A l : Loaded(l)' <=> Loaded(l)
BY DEF ClientDirs, ClientUniverse, Universe, Loaded

LEMMA FinishLoadingKeeps ==
  ASSUME Known, LookupKnown, FinishLoading \/ NextLookup
  PROVE  LookupKnown'
<1>1. UNCHANGED <<store, deployment>> /\ client' = Client("ready", NoLookup)
  BY DEF FinishLoading, NextLookup
<1>2. client'.phase = "ready"
  BY <1>1 DEF Client
<1>3. \A e \in ClientDirs : Loaded(<<"client", e>>)
  BY DEF FinishLoading, NextLookup, LookupKnown, LookupInv
<1> QED
  BY <1>1, <1>2, <1>3, StoresStand DEF LookupKnown, LookupInv, AnswerOfOneGeneration

LEMMA SendRequestsKeeps ==
  ASSUME Known, LookupKnown, NEW x \in Lookups, SendRequests(x)
  PROVE  LookupKnown'
<1>1. /\ UNCHANGED <<store, deployment>> /\ deployment = "sockets" /\ client.phase = "ready"
      /\ client' = Client("query", [NoLookup EXCEPT !.alpha = x])
  BY DEF SendRequests
<1>2. client'.phase = "query" /\ client'.replies = [e \in Parties |-> Pending]
  BY <1>1 DEF Client, NoLookup
<1>3. \A e \in ClientDirs : Loaded(<<"client", e>>)
  BY <1>1 DEF LookupKnown, LookupInv
<1> QED
  BY <1>1, <1>2, <1>3, StoresStand DEF LookupKnown, LookupInv, AnswerOfOneGeneration

(* A reply is given once the key's universe is found to be the store's.       *)
LEMMA AnswerKeeps ==
  ASSUME Known, LookupKnown, NEW i \in Parties, Answer(i) \/ GiveUp(i)
  PROVE  LookupKnown'
<1>1. /\ UNCHANGED <<store, deployment>> /\ client.phase = "query"
      /\ \E r : /\ client' = [client EXCEPT !.replies[i] = r]
                /\ r = NoReply \/ r.points = ClientUniverse
  <2>1. CASE Answer(i)
    <3>1. Universe(<<"server", i>>) = ClientUniverse
      BY <2>1 DEF Answer, Accepts, Key
    <3>2. Response(<<"server", i>>).points = ClientUniverse
      BY <3>1 DEF Response
    <3> QED
      BY <2>1, <3>2 DEF Answer
  <2>2. CASE GiveUp(i)
    BY <2>2 DEF GiveUp
  <2> QED
    BY <2>1, <2>2
<1>2. PICK r : /\ client' = [client EXCEPT !.replies[i] = r]
               /\ r = NoReply \/ r.points = ClientUniverse
  BY <1>1
<1>3. client'.phase = client.phase
  BY <1>2
<1>4. client'.replies = [client.replies EXCEPT ![i] = r]
  BY <1>2
<1>5. \A e \in Parties : client'.replies[e] = IF e = i THEN r ELSE client.replies[e]
  BY <1>4 DEF Known, Typed
<1>6. \A e \in Parties : \/ client'.replies[e] \in {Pending, NoReply}
                         \/ client'.replies[e].points = ClientUniverse
  BY <1>1, <1>2, <1>5 DEF LookupKnown, LookupInv
<1>7. AnswerOfOneGeneration'
  BY <1>1, <1>3 DEF AnswerOfOneGeneration
<1>8. LookupInv'
  BY <1>1, <1>3, <1>6, StoresStand DEF LookupKnown, LookupInv
<1> QED
  BY <1>7, <1>8 DEF LookupKnown

LEMMA ClientZero ==
  ASSUME Known, Loaded(<<"client", 0>>)
  PROVE  \E g \in Generations : ClientUniverse = Points(Snapshots[g])
<1>1. 0 \in Parties
  BY GenerationsAssumption DEF Parties
<1>2. <<"client", 0>> \in Loaders
  BY <1>1 DEF Loaders
<1> QED
  BY <1>2, LoadedGeneration DEF ClientUniverse, Universe

LEMMA CombineKeeps ==
  ASSUME Known, LookupKnown, Combine
  PROVE  LookupKnown'
<1> DEFINE key == Key(client.alpha)
           found == IF key.zero THEN {} ELSE {PointAt(ClientUniverse, key.alpha)}
           ok == NoReply \notin Range(client.replies) /\ Combinable(client.replies)
<1>1. /\ UNCHANGED <<store, deployment>> /\ client.phase = "query" /\ AllReplied
      /\ client' = IF ok THEN [client EXCEPT !.phase = "answered", !.found = found]
                   ELSE [client EXCEPT !.phase = "refused"]
  BY DEF Combine
<1>2. 0 \in Parties
  BY GenerationsAssumption DEF Parties
<1>3. deployment = "sockets" /\ Loaded(<<"client", 0>>)
      /\ \A e \in ClientDirs : Loaded(<<"client", e>>)
  BY <1>1, <1>2 DEF LookupKnown, LookupInv, ClientDirs
<1>4. PICK g \in Generations : ClientUniverse = Points(Snapshots[g])
  BY <1>3, ClientZero
<1>5. ASSUME NEW x \in ClientUniverse
      PROVE  PointAt(ClientUniverse, RankOf(ClientUniverse, x)) = x
  <2>1. ClientUniverse \in SUBSET Nat /\ IsFiniteSet(ClientUniverse)
    BY <1>4, GenerationsAssumption
  <2> QED
    BY <1>5, <2>1, RankIsInjective
<1>6. found = {client.alpha} \cap Points(Snapshots[g])
  <2>1. CASE client.alpha \in ClientUniverse
    <3>1. ~key.zero /\ key.alpha = RankOf(ClientUniverse, client.alpha)
      BY <2>1 DEF Key
    <3> QED
      BY <1>4, <1>5, <2>1, <3>1
  <2>2. CASE client.alpha \notin ClientUniverse
    <3>1. key.zero
      BY <2>2 DEF Key
    <3> QED
      BY <1>4, <2>2, <3>1
  <2> QED
    BY <2>1, <2>2
<1>7. CASE ok
  <2>1. \A e \in Parties : client.replies[e] # NoReply
    <3>1. DOMAIN client.replies = Parties
      BY DEF Known, Typed
    <3> QED
      BY <1>7, <3>1 DEF Range
  <2>2. \A e \in Parties : client.replies[e].points = Points(Snapshots[g])
    BY <1>1, <1>4, <2>1 DEF AllReplied, LookupKnown, LookupInv
  <2> HIDE DEF found, ok
  <2>3. client' = [client EXCEPT !.phase = "answered", !.found = found]
    BY <1>1, <1>7
  <2>4. client'.phase = "answered" /\ client'.replies = client.replies
        /\ client'.alpha = client.alpha /\ client'.found = found
    BY <2>3
  <2>5. AnswerOfOneGeneration'
    BY <1>1, <1>3, <1>6, <2>2, <2>4 DEF AnswerOfOneGeneration
  <2>6. LookupInv'
    BY <1>1, <1>3, <2>4, StoresStand DEF LookupInv
  <2> QED
    BY <2>5, <2>6 DEF LookupKnown
<1>8. CASE ~ok
  <2> HIDE DEF ok, found
  <2>1. client' = [client EXCEPT !.phase = "refused"]
    BY <1>1, <1>8
  <2>2. client'.phase = "refused"
    BY <2>1
  <2> QED
    BY <2>2 DEF LookupKnown, LookupInv, AnswerOfOneGeneration
<1> QED
  BY <1>7, <1>8

(* In one process every service holds the universe of store 0, so an answer   *)
(* is that of the generation service 0 has loaded.                            *)
LEMMA QueryKeeps ==
  ASSUME Known, LookupKnown, NEW x \in Lookups, Query(x)
  PROVE  LookupKnown'
<1> DEFINE own(e) == <<"client", e>>
           service(i) == CHOOSE e \in Parties : ManifestOf(own(e)).index = i
           sameTopology == /\ {ManifestOf(own(e)).index : e \in Parties} = Parties
                           /\ \A e \in Parties : Topology(own(e)) = Topology(own(0))
           sameUniverse == \A e \in Parties : Universe(own(e)) = Universe(own(0))
           key == Key(x)
           ok == /\ sameTopology /\ sameUniverse
                 /\ \A i \in Parties : Accepts(own(service(i)), i, key)
           replies == [i \in Parties |-> Response(own(service(i)))]
           index == store[own(service(0))].read
           found == IF key.zero THEN {}
                    ELSE Members(index, PointAt(replies[0].points, key.alpha))
<1>1. /\ UNCHANGED <<store, deployment>> /\ deployment = "orchestrator"
      /\ client.phase = "ready"
      /\ client' = IF ok /\ Combinable(replies)
                   THEN Client("answered", [alpha |-> x, replies |-> replies, found |-> found])
                   ELSE Client("refused", [NoLookup EXCEPT !.alpha = x])
  BY DEF Query
<1>2. 0 \in Parties
  BY GenerationsAssumption DEF Parties
<1>3. \A e \in ClientDirs : Loaded(own(e))
  BY <1>1 DEF LookupKnown, LookupInv
<1>4. ClientDirs = Parties
  BY <1>1 DEF ClientDirs
<1>5. CASE ok /\ Combinable(replies)
  <2>1. \A i \in Parties : service(i) \in Parties
    <3>1. \A i \in Parties : \E e \in Parties : ManifestOf(own(e)).index = i
      BY <1>5
    <3> QED
      BY <3>1
  <2> HIDE DEF service
  <2>2. \A i \in Parties : Universe(own(service(i))) = ClientUniverse
    BY <1>5, <2>1 DEF ClientUniverse
  <2>3. own(service(0)) \in Loaders /\ Loaded(own(service(0)))
    BY <1>2, <1>3, <1>4, <2>1 DEF Loaders
  <2>4. PICK g \in Generations : index = Snapshots[g]
    BY <2>3, LoadedGeneration
  <2>5. ClientUniverse = Points(Snapshots[g])
    BY <1>2, <2>2, <2>4 DEF Universe
  <2>6. \A i \in Parties : replies[i].points = Points(Snapshots[g])
    BY <2>2, <2>5 DEF Response
  <2>7. found = Members(Snapshots[g], x)
    <3>1. CASE x \in ClientUniverse
      <4>1. ~key.zero /\ key.alpha = RankOf(ClientUniverse, x)
        BY <3>1 DEF Key
      <4>2. ClientUniverse \in SUBSET Nat /\ IsFiniteSet(ClientUniverse)
        BY <2>5, GenerationsAssumption
      <4>3. PointAt(ClientUniverse, RankOf(ClientUniverse, x)) = x
        BY <3>1, <4>2, RankIsInjective
      <4>4. replies[0].points = ClientUniverse
        BY <1>2, <2>5, <2>6
      <4> QED
        BY <2>4, <4>1, <4>3, <4>4
    <3>2. CASE x \notin ClientUniverse
      <4>1. key.zero
        BY <3>2 DEF Key
      <4> QED
        BY <2>5, <3>2, <4>1, OutsideUniverse
    <3> QED
      BY <3>1, <3>2
  <2> HIDE DEF replies, found, ok, index
  <2>8. client' = Client("answered", [alpha |-> x, replies |-> replies, found |-> found])
    BY <1>1, <1>5
  <2>9. /\ client'.phase = "answered" /\ client'.alpha = x /\ client'.replies = replies
        /\ client'.found = found
    BY <2>8 DEF Client
  <2>10. AnswerOfOneGeneration'
    BY <1>1, <2>6, <2>7, <2>9 DEF AnswerOfOneGeneration
  <2>11. LookupInv'
    BY <1>1, <1>3, <2>9, StoresStand DEF LookupInv
  <2> QED
    BY <2>10, <2>11 DEF LookupKnown
<1>6. CASE ~(ok /\ Combinable(replies))
  <2> HIDE DEF ok, found, replies, index, service
  <2>1. client' = Client("refused", [NoLookup EXCEPT !.alpha = x])
    BY <1>1, <1>6
  <2>2. client'.phase = "refused"
    BY <2>1 DEF Client
  <2> QED
    BY <2>2 DEF LookupKnown, LookupInv, AnswerOfOneGeneration
<1> QED
  BY <1>5, <1>6

LEMMA LookupStepKeeps ==
  ASSUME Known, LookupKnown, Next
  PROVE  LookupKnown'
<1>1. CASE (\E g \in Generations : BeginExport(g)) \/ Truncate \/ Fill \/ KillExport
  BY <1>1, LookupFrame DEF BeginExport, Truncate, Fill, KillExport
<1>2. ASSUME NEW l \in Loaders, ReadManifest(l) \/ ReadSnapshot(l) PROVE LookupKnown'
  <2>1. /\ UNCHANGED <<client, deployment>> /\ MayLoad(l)
        /\ \A m \in Loaders \ {l} : store'[m] = store[m]
    BY <1>2 DEF ReadManifest, ReadSnapshot, Known, Typed
  <2>2. CASE l[1] = "client"
    BY <2>1, <2>2, LookupFrame DEF MayLoad
  <2>3. CASE l[1] = "server"
    <3>1. \A e \in Parties : <<"client", e>> \in Loaders \ {l}
      BY <2>3 DEF Loaders
    <3> QED
      BY <2>1, <3>1, LookupFrame
  <2> QED
    BY <2>2, <2>3, Loading
<1>3. ASSUME NEW l \in Loaders, RefuseLoad(l) PROVE LookupKnown'
  <2>1. /\ store' = [store EXCEPT ![l] = Unloaded] /\ UNCHANGED deployment
        /\ client' = IF l[1] = "client" THEN [client EXCEPT !.phase = "refused"] ELSE client
    BY <1>3 DEF RefuseLoad
  <2>2. CASE l[1] = "client"
    <3>1. client'.phase = "refused"
      BY <2>1, <2>2
    <3> QED
      BY <3>1 DEF LookupKnown, LookupInv, AnswerOfOneGeneration
  <2>3. CASE l[1] = "server"
    <3>1. \A e \in Parties : <<"client", e>> \in Loaders /\ <<"client", e>> # l
      BY <2>3 DEF Loaders
    <3>2. \A e \in Parties : store'[<<"client", e>>] = store[<<"client", e>>]
      BY <2>1, <3>1 DEF Known, Typed
    <3> QED
      BY <2>1, <2>3, <3>2, LookupFrame
  <2> QED
    BY <2>2, <2>3, Loading
<1>4. ASSUME NEW i \in Parties, KillServer(i) PROVE LookupKnown'
  <2>1. /\ store' = [store EXCEPT ![<<"server", i>>] = Unloaded]
        /\ UNCHANGED <<client, deployment>>
    BY <1>4 DEF KillServer
  <2>2. \A e \in Parties : <<"client", e>> \in Loaders /\ <<"client", e>> # <<"server", i>>
    BY DEF Loaders
  <2>3. \A e \in Parties : store'[<<"client", e>>] = store[<<"client", e>>]
    BY <2>1, <2>2 DEF Known, Typed
  <2> QED
    BY <2>1, <2>3, LookupFrame
<1>5. CASE \E i \in Parties : Answer(i) \/ GiveUp(i)
  BY <1>5, AnswerKeeps
<1>6. CASE FinishLoading \/ NextLookup
  BY <1>6, FinishLoadingKeeps
<1>7. CASE Combine
  BY <1>7, CombineKeeps
<1>8. CASE NewClient
  <2>1. client'.phase = "load"
    BY <1>8 DEF NewClient, Client
  <2> QED
    BY <2>1 DEF LookupKnown, LookupInv, AnswerOfOneGeneration
<1>9. CASE \E x \in Lookups : SendRequests(x) \/ Query(x)
  BY <1>9, SendRequestsKeeps, QueryKeeps
<1> QED
  BY <1>1, <1>2, <1>3, <1>4, <1>5, <1>6, <1>7, <1>8, <1>9 DEF Next

LEMMA LookupAlways == Spec => [](Known /\ LookupKnown)
<1>1. Init => LookupKnown
  BY DEF Init, Client, LookupKnown, LookupInv, AnswerOfOneGeneration
<1>2. Known /\ LookupKnown /\ [Next]_vars => LookupKnown'
  BY LookupStepKeeps, LookupFrame DEF vars
<1> QED
  BY <1>1, <1>2, KnownAlways, PTL DEF Spec

\* AnswerOfOneGeneration, for every number of evaluators, partitions and
\* generations, in both deployments: an answer is the one some generation
\* gives, and every evaluator swept that generation's universe
\* (eval_datasets.py, DatasetHarness._lookup_once, and
\* MultipartyFssQueryOrchestrator.query).
THEOREM AnswerOneGeneration == Spec => []AnswerOfOneGeneration
<1>1. LookupKnown => AnswerOfOneGeneration
  BY DEF LookupKnown
<1> QED
  BY <1>1, LookupAlways, PTL

\* TypeOK, for all values of the constants: files hold what an export writes,
\* a loader never holds more than its manifest lists, and nobody looks up
\* before everything the client needs is loaded.
THEOREM TypeCorrect == Spec => []TypeOK
<1>1. ASSUME Known, LookupKnown PROVE TypeOK
  <2>1. \A e \in Parties, f \in 1 .. ManifestFile :
          disk[e][f] \subseteq {Value(g, e, f) : g \in Generations}
    BY <1>1 DEF Known, DiskInv, DiskKnown, Files
  <2>2. /\ writer.generation \in Generations \cup {0} /\ writer.party \in Parties
        /\ writer.file \in 1 .. ManifestFile /\ writer.open \in BOOLEAN
        /\ dirty \subseteq Parties /\ disturbed \subseteq Loaders
        /\ client.phase \in {"load", "ready", "query", "answered", "refused"}
    BY <1>1 DEF Known, Typed, Files, Phases
  <2>3. ASSUME NEW l \in Loaders
        PROVE  /\ store[l].status \in {"down", "loading", "ready"}
               /\ (store[l].status = "down") = (store[l].manifest = {})
               /\ store[l].status = "loading" =>
                    Len(store[l].read) < Len(ManifestOf(l).snapshots)
    <3>1. store[l].status \in {"down", "loading", "ready"}
      BY <1>1 DEF Known, Typed, Stores
    <3>2. CASE store[l].status = "down"
      BY <1>1, <3>1, <3>2 DEF Known, StoresKnown
    <3>3. CASE store[l].status # "down"
      <4>1. PICK g \in Generations : HoldsOf(l, g)
        BY <1>1, <3>3 DEF Known, StoresKnown
      <4>2. ManifestOf(l).snapshots = Snapshots[g]
        BY <4>1, ManifestHeld, Loading, ValueFacts
      <4>3. store[l].manifest # {}
        BY <4>1 DEF HoldsOf
      <4>4. store[l].status = "loading" => Len(store[l].read) < Len(Snapshots[g])
        BY <4>1 DEF HoldsOf
      <4> QED
        BY <3>1, <3>3, <4>2, <4>3, <4>4
    <3> QED
      BY <3>2, <3>3
  <2>4. client.phase \in {"ready", "query", "answered"} =>
          \A e \in ClientDirs : Loaded(<<"client", e>>)
    BY <1>1 DEF LookupKnown, LookupInv
  <2> QED
    BY <2>1, <2>2, <2>3, <2>4 DEF TypeOK
<1> QED
  BY <1>1, LookupAlways, PTL


----------------------------------------------------------------------------
(* Naturals, powers of two and the grid.                                      *)

(* Every non-empty set of naturals has a least element.                       *)
LEMMA LeastNatural ==
  ASSUME NEW S \in SUBSET Nat, S # {}
  PROVE  \E m \in S : \A k \in S : m <= k
<1> DEFINE R == OpToRel(<, Nat)
<1>1. IsWellFoundedOn(R, Nat)
  BY NatLessThanWellFounded
<1>2. PICK m \in S : \A k \in S : <<k, m>> \notin R
  <2> HIDE DEF R
  <2> QED
    BY <1>1, WFMin
<1>3. \A k \in S : ~ (k < m)
  BY <1>2 DEF OpToRel
<1> QED
  BY <1>3

(* A power of two counts the subsets of an interval, singletons among them.   *)
LEMMA PowersOfTwo ==
  ASSUME NEW n \in Nat
  PROVE  2 ^ n \in Nat \ {0} /\ n <= 2 ^ n
<1> DEFINE S == 1 .. n
           f == [i \in S |-> {i}]
<1>1. IsFiniteSet(S) /\ Cardinality(S) = n
  BY FS_Interval
<1>2. IsFiniteSet(SUBSET S) /\ Cardinality(SUBSET S) = 2 ^ n
  BY <1>1, FS_SUBSET
<1>3. Cardinality(SUBSET S) \in Nat
  BY <1>2, FS_CardinalityType
<1>4. SUBSET S # {}
  OBVIOUS
<1>5. 2 ^ n # 0
  BY <1>2, <1>4, FS_EmptySet
<1>6. f \in Injection(S, SUBSET S)
  <2>1. f \in [S -> SUBSET S]
    OBVIOUS
  <2>2. \A i, j \in S : f[i] = f[j] => i = j
    OBVIOUS
  <2> HIDE DEF f, S
  <2> QED
    BY <2>1, <2>2 DEF Injection, IsInjective
<1>7. Cardinality(S) <= Cardinality(SUBSET S)
  <2> HIDE DEF f, S
  <2> QED
    BY <1>2, <1>6, FS_Injection
<1> QED
  BY <1>1, <1>2, <1>3, <1>5, <1>7

(* The domain of ranks holds the universe.                                    *)
LEMMA DomainBitsHold ==
  ASSUME NEW n \in Nat \ {0}
  PROVE  /\ DomainBits(n) \in Nat \ {0}
         /\ n <= 2 ^ DomainBits(n)
<1> DEFINE Enough == {d \in 1 .. n : n <= 2 ^ d}
<1>1. n \in Enough
  BY PowersOfTwo
<1>2. PICK d \in Enough : \A k \in Enough : d <= k
  <2>1. Enough \in SUBSET Nat /\ Enough # {}
    BY <1>1
  <2> HIDE DEF Enough
  <2> QED
    BY <2>1, LeastNatural
<1>3. \A k \in 1 .. d - 1 : n > 2 ^ k
  <2> TAKE k \in 1 .. d - 1
  <2>1. k \notin Enough /\ k \in 1 .. n /\ 2 ^ k \in Nat
    BY <1>2, PowersOfTwo
  <2> QED
    BY <2>1
<1>4. \E e \in 1 .. n : n <= 2 ^ e /\ \A k \in 1 .. e - 1 : n > 2 ^ k
  BY <1>2, <1>3
<1>5. DomainBits(n) \in 1 .. n /\ n <= 2 ^ DomainBits(n)
  BY <1>4 DEF DomainBits
<1> QED
  BY <1>5

(* A row has at least one cell.                                               *)
LEMMA MuPositive ==
  ASSUME NEW bits \in Nat
  PROVE  MuFor(bits) \in Nat \ {0}
<1> DEFINE square == 2 ^ (bits + EvaluatorCount - 1)
           Wide == {m \in 1 .. square : m * m >= square}
<1>1. square \in Nat \ {0}
  <2>1. bits + EvaluatorCount - 1 \in Nat
    BY PartiesAssumption
  <2> QED
    BY <2>1, PowersOfTwo
<1> HIDE DEF square
<1>2. square \in Wide
  <2>1. square * square >= square
    BY <1>1
  <2> QED
    BY <1>1, <2>1
<1>3. PICK m \in Wide : \A k \in Wide : m <= k
  <2>1. Wide \in SUBSET Nat
    OBVIOUS
  <2> QED
    BY <1>2, <2>1, LeastNatural
<1>4. (m - 1) * (m - 1) < square
  <2>1. CASE m = 1
    BY <1>1, <2>1
  <2>2. CASE m # 1
    <3>1. m - 1 \in 1 .. square /\ m - 1 \notin Wide
      BY <1>1, <1>3, <2>2
    <3>2. (m - 1) * (m - 1) \in Int
      BY <3>1, <1>1
    <3> QED
      BY <3>1, <3>2, <1>1
  <2> QED
    BY <2>1, <2>2
<1>5. \E k \in 1 .. square : k * k >= square /\ (k - 1) * (k - 1) < square
  BY <1>3, <1>4
<1>6. MuFor(bits) \in 1 .. square
  BY <1>5 DEF MuFor, square
<1> QED
  BY <1>1, <1>6

(* Every point of the universe has a row of the grid and a column of its row, *)
(* and no two points have the same.                                           *)
LEMMA DivMod ==
  ASSUME NEW a \in Nat, NEW c \in Nat \ {0}
  PROVE  /\ (a \div c) * c + (a % c) = a
         /\ a % c \in 0 .. c - 1
         /\ a \div c \in Nat
BY SMTT(30)

LEMMA DivMonotone ==
  ASSUME NEW a \in Nat, NEW b \in Nat, NEW c \in Nat \ {0}, a <= b
  PROVE  a \div c <= b \div c
BY SMTT(30)

LEMMA DivBelowCeil ==
  ASSUME NEW a \in Nat, NEW n \in Nat, NEW c \in Nat \ {0}, a < n
  PROVE  a \div c <= ((n + c - 1) \div c) - 1
BY SMTT(30)

\* The universe and its grid are those of the key's parameters.
Grid ==
  /\ size \in UniverseSizes
  /\ params = ParamsFor(size)
  /\ alpha \in 0 .. size - 1 /\ beta \in Word

LEMMA GridFacts ==
  ASSUME Grid
  PROVE  /\ size \in Nat \ {0} /\ params.mu \in Nat \ {0}
         /\ size <= 2 ^ params.domainBits
         /\ \A x \in 0 .. size - 1 :
              Row(x) \in RowSet /\ Column(x) \in ColumnSet /\ Row(x) \in 0 .. LastRow
         /\ \A x, y \in 0 .. size - 1 : Row(x) = Row(y) /\ Column(x) = Column(y) => x = y
<1> DEFINE bits == DomainBits(size)
           mu == MuFor(bits)
<1>1. size \in Nat \ {0}
  BY SizesAssumption DEF Grid
<1>2. bits \in Nat \ {0} /\ size <= 2 ^ bits /\ 2 ^ bits \in Nat
  BY <1>1, DomainBitsHold, PowersOfTwo
<1>3. mu \in Nat \ {0}
  BY <1>2, MuPositive
<1>4. /\ params.mu = mu /\ params.domainBits = bits
      /\ params.nu = (2 ^ bits + mu - 1) \div mu
  BY DEF Grid, ParamsFor, NuFor
<1> HIDE DEF bits, mu
<1>5. \A x \in 0 .. size - 1 :
        Row(x) \in RowSet /\ Column(x) \in ColumnSet /\ Row(x) \in 0 .. LastRow
  <2> TAKE x \in 0 .. size - 1
  <2>1. x \in Nat /\ x < 2 ^ bits /\ x <= size - 1 /\ size - 1 \in Nat
    BY <1>1, <1>2
  <2>2. x \div mu \in Nat /\ x % mu \in 0 .. mu - 1
    BY <1>3, <2>1, DivMod
  <2>3. x \div mu <= params.nu - 1
    BY <1>2, <1>3, <1>4, <2>1, DivBelowCeil
  <2>4. x \div mu <= (size - 1) \div mu
    BY <1>3, <2>1, DivMonotone
  <2>5. (2 ^ bits + mu - 1) \div mu \in Int /\ (size - 1) \div mu \in Int
    BY <1>1, <1>2, <1>3
  <2> QED
    BY <1>4, <2>2, <2>3, <2>4, <2>5 DEF Row, Column, RowSet, ColumnSet, LastRow
<1>6. \A x, y \in 0 .. size - 1 : Row(x) = Row(y) /\ Column(x) = Column(y) => x = y
  <2> TAKE x, y \in 0 .. size - 1
  <2>1. x \in Nat /\ y \in Nat
    BY <1>1
  <2>2. (x \div mu) * mu + (x % mu) = x /\ (y \div mu) * mu + (y % mu) = y
    BY <1>3, <2>1, DivMod
  <2> QED
    BY <1>4, <2>2 DEF Row, Column
<1> QED
  BY <1>1, <1>2, <1>3, <1>4, <1>5, <1>6

----------------------------------------------------------------------------
(* Parities of finite sets.                                                   *)

Odd(S) == Cardinality(S) % 2 = 1

(* An element more changes the parity.                                        *)
LEMMA OddAdd ==
  ASSUME NEW S, IsFiniteSet(S), NEW x, x \notin S
  PROVE  /\ IsFiniteSet(S \cup {x})
         /\ Odd(S \cup {x}) <=> ~ Odd(S)
<1>1. IsFiniteSet(S \cup {x}) /\ Cardinality(S \cup {x}) = Cardinality(S) + 1
  BY FS_AddElement
<1>2. Cardinality(S) \in Nat
  BY FS_CardinalityType
<1> QED
  BY <1>1, <1>2 DEF Odd

LEMMA OddEmpty == IsFiniteSet({}) /\ ~ Odd({})
BY FS_EmptySet DEF Odd

(* The parity of a disjoint union is odd when one of the parities is.         *)
LEMMA OddDisjoint ==
  ASSUME NEW S, IsFiniteSet(S), NEW T, IsFiniteSet(T), S \cap T = {}
  PROVE  /\ IsFiniteSet(S \cup T)
         /\ Odd(S \cup T) <=> ~ (Odd(S) <=> Odd(T))
<1>1. /\ IsFiniteSet(S \cup T)
      /\ Cardinality(S \cup T) = Cardinality(S) + Cardinality(T) - Cardinality({})
  BY FS_Union
<1>2. Cardinality(S) \in Nat /\ Cardinality(T) \in Nat /\ Cardinality({}) = 0
  BY FS_CardinalityType, FS_EmptySet
<1> QED
  BY <1>1, <1>2 DEF Odd

(* So is that of a symmetric difference: what is common counts twice.         *)
LEMMA OddDifference ==
  ASSUME NEW S, IsFiniteSet(S), NEW T, IsFiniteSet(T)
  PROVE  Odd((S \ T) \cup (T \ S)) <=> ~ (Odd(S) <=> Odd(T))
<1>1. IsFiniteSet(S \ T) /\ IsFiniteSet(T \ S) /\ IsFiniteSet(S \cap T)
  BY FS_Subset, S \ T \in SUBSET S, T \ S \in SUBSET T, S \cap T \in SUBSET S
<1>2. S = (S \ T) \cup (S \cap T) /\ T = (T \ S) \cup (S \cap T)
  OBVIOUS
<1>3. Odd(S) <=> ~ (Odd(S \ T) <=> Odd(S \cap T))
  BY <1>1, <1>2, OddDisjoint, (S \ T) \cap (S \cap T) = {}
<1>4. Odd(T) <=> ~ (Odd(T \ S) <=> Odd(S \cap T))
  BY <1>1, <1>2, OddDisjoint, (T \ S) \cap (S \cap T) = {}
<1>5. Odd((S \ T) \cup (T \ S)) <=> ~ (Odd(S \ T) <=> Odd(T \ S))
  BY <1>1, OddDisjoint, (S \ T) \cap (T \ S) = {}
<1> QED
  BY <1>3, <1>4, <1>5

(* Induction on a set of naturals.                                            *)
LEMMA NatSetInduction ==
  ASSUME NEW S \in SUBSET Nat, 0 \in S, \A n \in S : n + 1 \in S
  PROVE  S = Nat
<1> SUFFICES ASSUME Nat \ S # {} PROVE FALSE
  OBVIOUS
<1>1. PICK m \in Nat \ S : \A k \in Nat \ S : m <= k
  BY LeastNatural
<1>2. m # 0 /\ m - 1 \in Nat /\ m - 1 \in S
  BY <1>1
<1> QED
  BY <1>1, <1>2

OddRows(A, B, R) == {a \in A : Odd({b \in B : <<a, b>> \in R})}
OddColumns(A, B, R) == {b \in B : Odd({a \in A : <<a, b>> \in R})}

(* Counting the incidences of a relation by rows or by columns gives the same *)
(* parity: XOR over the evaluators and XOR over what they hold commute.       *)
LEMMA ParityCounting ==
  ASSUME NEW A, IsFiniteSet(A), NEW B, IsFiniteSet(B), NEW R
  PROVE  Odd(OddRows(A, B, R)) <=> Odd(OddColumns(A, B, R))
<1> DEFINE Related(a) == {b \in B : <<a, b>> \in R}
           Left(C) == {a \in C : Odd(Related(a))}
           Right(C) == {b \in B : Odd({a \in C : <<a, b>> \in R})}
           Agree(C) == Odd(Left(C)) <=> Odd(Right(C))
           Good == {n \in Nat : \A C \in SUBSET A : Cardinality(C) = n => Agree(C)}
<1>1. \A C \in SUBSET A : IsFiniteSet(C) /\ Cardinality(C) \in Nat
  BY FS_Subset, FS_CardinalityType
<1>2. 0 \in Good
  <2> SUFFICES ASSUME NEW C \in SUBSET A, Cardinality(C) = 0 PROVE Agree(C)
    OBVIOUS
  <2>1. C = {}
    BY <1>1, FS_EmptySet
  <2>2. Left(C) = {}
    BY <2>1
  <2>3. \A b \in B : {a \in C : <<a, b>> \in R} = {}
    BY <2>1
  <2>4. Right(C) = {}
    BY <2>3, OddEmpty
  <2> QED
    BY <2>2, <2>4, OddEmpty
<1>3. ASSUME NEW n \in Good PROVE n + 1 \in Good
  <2> SUFFICES ASSUME NEW C \in SUBSET A, Cardinality(C) = n + 1 PROVE Agree(C)
    OBVIOUS
  <2>1. n \in Nat
    OBVIOUS
  <2>2. PICK x : x \in C
    BY <2>1, FS_EmptySet
  <2> DEFINE D == C \ {x}
  <2>3. D \in SUBSET A /\ IsFiniteSet(D) /\ x \notin D /\ C = D \cup {x}
    BY <1>1, <2>2
  <2>4. Cardinality(D) = n
    <3>1. Cardinality(D) = Cardinality(C) - 1
      BY <1>1, <2>2, FS_RemoveElement
    <3> HIDE DEF D
    <3> QED
      BY <2>1, <3>1
  <2>5. Agree(D)
    BY <2>3, <2>4
  <2> HIDE DEF D
  <2>6. IsFiniteSet(Left(D)) /\ IsFiniteSet(Right(D)) /\ IsFiniteSet(Related(x))
    BY <2>3, FS_Subset, Left(D) \in SUBSET D, Right(D) \in SUBSET B, Related(x) \in SUBSET B
  <2>7. Odd(Left(C)) <=> ~ (Odd(Left(D)) <=> Odd(Related(x)))
    <3> HIDE DEF Related
    <3>1. CASE Odd(Related(x))
      <4>1. Left(C) = Left(D) \cup {x} /\ x \notin Left(D)
        BY <2>3, <3>1
      <4> QED
        BY <2>6, <3>1, <4>1, OddAdd
    <3>2. CASE ~ Odd(Related(x))
      <4>1. Left(C) = Left(D)
        BY <2>3, <3>2
      <4> QED
        BY <3>2, <4>1
    <3> QED
      BY <3>1, <3>2
  <2>8. Right(C) = (Right(D) \ Related(x)) \cup (Related(x) \ Right(D))
    <3>1. ASSUME NEW b \in B
          PROVE  Odd({a \in C : <<a, b>> \in R}) <=>
                 ~ (Odd({a \in D : <<a, b>> \in R}) <=> <<x, b>> \in R)
      <4> DEFINE Before == {a \in D : <<a, b>> \in R}
                 After == {a \in C : <<a, b>> \in R}
      <4>1. IsFiniteSet(Before) /\ x \notin Before
        BY <2>3, FS_Subset, Before \in SUBSET D
      <4>2. CASE <<x, b>> \in R
        <5>1. After = Before \cup {x}
          BY <2>3, <4>2
        <5> HIDE DEF Before, After
        <5> QED
          BY <4>1, <4>2, <5>1, OddAdd DEF Before, After
      <4>3. CASE <<x, b>> \notin R
        <5>1. After = Before
          BY <2>3, <4>3
        <5> QED
          BY <4>3, <5>1
      <4> QED
        BY <4>2, <4>3
    <3> QED
      BY <3>1
  <2> HIDE DEF Related, Left, Right
  <2>9. Odd(Right(C)) <=> ~ (Odd(Right(D)) <=> Odd(Related(x)))
    BY <2>6, <2>8, OddDifference
  <2> QED
    BY <2>5, <2>7, <2>9
<1>4. Good = Nat
  <2> HIDE DEF Good
  <2>1. Good \in SUBSET Nat
    BY DEF Good
  <2> QED
    BY <1>2, <1>3, <2>1, NatSetInduction
<1>5. Agree(A)
  BY <1>1, <1>4
<1> QED
  BY <1>5 DEF OddRows, OddColumns

(* Two families side by side: the odd ones out are added.                     *)
LEMMA OddBeside ==
  ASSUME NEW S, IsFiniteSet(S), NEW T, IsFiniteSet(T), NEW x, NEW y, x # y
  PROVE  Odd((S \X {x}) \cup (T \X {y})) <=> ~ (Odd(S) <=> Odd(T))
<1>1. IsFiniteSet({x}) /\ Cardinality({x}) = 1 /\ IsFiniteSet({y}) /\ Cardinality({y}) = 1
  BY FS_Singleton
<1>2. /\ IsFiniteSet(S \X {x}) /\ Cardinality(S \X {x}) = Cardinality(S) * 1
      /\ IsFiniteSet(T \X {y}) /\ Cardinality(T \X {y}) = Cardinality(T) * 1
  BY <1>1, FS_Product
<1>3. Cardinality(S) \in Nat /\ Cardinality(T) \in Nat
  BY FS_CardinalityType
<1>4. (Odd(S \X {x}) <=> Odd(S)) /\ (Odd(T \X {y}) <=> Odd(T))
  BY <1>2, <1>3 DEF Odd
<1> QED
  BY <1>2, <1>4, OddDisjoint, (S \X {x}) \cap (T \X {y}) = {}

(* The XOR of three words.                                                    *)
LEMMA XorOfThree ==
  ASSUME NEW p, NEW q, NEW r, NEW b \in Bits
  PROVE  b \in Xor(<<p, q, r>>) <=> ~ (~ (b \in p <=> b \in q) <=> b \in r)
<1> DEFINE f == <<p, q, r>>
           One == {x \in {1} : b \in f[x]}
           Two == {x \in {1, 2} : b \in f[x]}
           Three == {x \in DOMAIN f : b \in f[x]}
<1>1. IsFiniteSet(One) /\ (Odd(One) <=> b \in p)
  <2>1. CASE b \in p
    <3>1. One = {} \cup {1}
      BY <2>1
    <3> QED
      BY <2>1, <3>1, OddEmpty, OddAdd, 1 \notin {}
  <2>2. CASE b \notin p
    <3>1. One = {}
      BY <2>2
    <3> QED
      BY <2>2, <3>1, OddEmpty
  <2> QED
    BY <2>1, <2>2
<1>2. IsFiniteSet(Two) /\ (Odd(Two) <=> ~ (b \in p <=> b \in q))
  <2>1. CASE b \in q
    <3>1. Two = One \cup {2} /\ 2 \notin One
      BY <2>1
    <3> HIDE DEF Two, One
    <3> QED
      BY <1>1, <2>1, <3>1, OddAdd
  <2>2. CASE b \notin q
    <3>1. Two = One
      BY <2>2
    <3> HIDE DEF Two, One
    <3> QED
      BY <1>1, <2>2, <3>1
  <2> QED
    BY <2>1, <2>2
<1>3. Odd(Three) <=> ~ (~ (b \in p <=> b \in q) <=> b \in r)
  <2>1. CASE b \in r
    <3>1. Three = Two \cup {3} /\ 3 \notin Two
      BY <2>1
    <3> HIDE DEF Three, Two, One
    <3> QED
      BY <1>2, <2>1, <3>1, OddAdd
  <2>2. CASE b \notin r
    <3>1. Three = Two
      BY <2>2
    <3> HIDE DEF Three, Two, One
    <3> QED
      BY <1>2, <2>2, <3>1
  <2> QED
    BY <2>1, <2>2
<1> QED
  BY <1>3 DEF Xor, Odd

----------------------------------------------------------------------------
(* The invariant.                                                             *)

\* Bit-wise, the words and the streams of alpha's row add up to beta in alpha's
\* column and to nothing in the others: what the last word is drawn for.
TargetIn(c) == IF c = Column(alpha) THEN beta ELSE {}
WordsOf(b, c) == {j \in SeedSet : b \in words[j][c]}
StreamsOf(row, b, c) == {j \in SeedSet : b \in Expand(seeds[row][j], c)}
Balanced ==
  \A c \in ColumnSet, b \in Bits :
    b \in TargetIn(c) <=> ~ (Odd(WordsOf(b, c)) <=> Odd(StreamsOf(Row(alpha), b, c)))

ArraysDrawn ==
  \A row \in RowSet : /\ arrays[row] \in [SeedSet -> ParityColumns(row = Row(alpha))]
                      /\ ParityColumns(row = Row(alpha)) \subseteq {arrays[row][j] : j \in SeedSet}

DpfInvariant ==
  /\ Grid
  /\ stage \in {"arrays", "seeds", "words", "shares"}
  /\ stage # "arrays" => ArraysDrawn
  /\ stage \in {"words", "shares"} => seeds \in [RowSet -> [SeedSet -> Blocks \ {ZeroBlock}]]
  /\ stage = "shares" => words \in [SeedSet -> [ColumnSet -> Word]] /\ Balanced

----------------------------------------------------------------------------
(* The invariant holds of every behaviour.                                    *)

LEMMA SeedNumbers == SeedsPerRow \in Nat \ {0} /\ IsFiniteSet(SeedSet)
<1>1. EvaluatorCount - 1 \in Nat
  BY PartiesAssumption
<1>2. SeedsPerRow \in Nat \ {0}
  BY <1>1, PowersOfTwo DEF SeedsPerRow
<1> QED
  BY <1>2, FS_Interval DEF SeedSet

LEMMA AlphaHasRow ==
  ASSUME Grid
  PROVE  Row(alpha) \in RowSet /\ Column(alpha) \in ColumnSet
BY GridFacts DEF Grid

\* The grid does not move while the key is generated.
LEMMA GridStays ==
  ASSUME Grid, UNCHANGED <<size, params, alpha, beta>>
  PROVE  Grid'
BY DEF Grid

LEMMA ArraysStay ==
  ASSUME ArraysDrawn, UNCHANGED <<params, alpha, arrays>>
  PROVE  ArraysDrawn'
<1>1. RowSet' = RowSet /\ Row(alpha)' = Row(alpha) /\ arrays' = arrays
  BY DEF RowSet, Row
<1> QED
  BY <1>1 DEF ArraysDrawn

LEMMA KeyInitHolds == KeyInit => DpfInvariant
<1> SUFFICES ASSUME KeyInit PROVE DpfInvariant
  OBVIOUS
<1>1. size \in Nat \ {0}
  BY SizesAssumption DEF KeyInit
<1>2. 0 \in 0 .. size - 1 /\ {} \in Word
  BY <1>1 DEF Word
<1> QED
  BY <1>2 DEF KeyInit, DpfInvariant, Grid

LEMMA SampleArraysKeeps ==
  ASSUME DpfInvariant, SampleArrays
  PROVE  DpfInvariant'
<1>1. Grid' /\ stage' = "seeds"
  BY GridStays DEF DpfInvariant, SampleArrays
<1>2. \A row \in RowSet : arrays'[row] \in Shuffles(ParityColumns(row = Row(alpha)))
  BY DEF SampleArrays
<1>3. ArraysDrawn'
  <2>1. RowSet' = RowSet /\ Row(alpha)' = Row(alpha)
    BY DEF SampleArrays, RowSet, Row
  <2>2. ASSUME NEW row \in RowSet
        PROVE  /\ arrays'[row] \in [SeedSet -> ParityColumns(row = Row(alpha))]
               /\ ParityColumns(row = Row(alpha)) \subseteq {arrays'[row][j] : j \in SeedSet}
    <3>1. (row = Row(alpha)) \in BOOLEAN
      OBVIOUS
    <3> QED
      BY <1>2, <3>1, ShufflesAssumption
  <2> QED
    BY <2>1, <2>2 DEF ArraysDrawn
<1> QED
  BY <1>1, <1>3 DEF DpfInvariant

LEMMA DrawSeedsKeeps ==
  ASSUME DpfInvariant, DrawSeeds
  PROVE  DpfInvariant'
<1>1. Grid' /\ stage' = "words"
  BY GridStays DEF DpfInvariant, DrawSeeds
<1>2. ArraysDrawn'
  BY ArraysStay DEF DpfInvariant, DrawSeeds
<1>3. seeds' \in [RowSet' -> [SeedSet -> Blocks \ {ZeroBlock}]]
  BY DEF DrawSeeds, RowSet, RandomSeed
<1> QED
  BY <1>1, <1>2, <1>3 DEF DpfInvariant

\* The last word is drawn so that the words and the streams balance.
AllWords(drawn) == [j \in SeedSet |-> IF j < SeedsPerRow - 1 THEN drawn[j] ELSE LastWord(drawn)]
LEMMA LastWordBalances ==
  ASSUME Grid,
         NEW drawn \in [0 .. SeedsPerRow - 2 -> [ColumnSet -> Word]],
         NEW c \in ColumnSet, NEW b \in Bits
  PROVE  b \in TargetIn(c) <=>
           ~ (Odd({j \in SeedSet : b \in AllWords(drawn)[j][c]}) <=> Odd(StreamsOf(Row(alpha), b, c)))
<1> DEFINE last == SeedsPerRow - 1
           all == AllWords(drawn)
           streams == Xor([j \in SeedSet |-> Expand(seeds[Row(alpha)][j], c)])
           partial == Xor([j \in DOMAIN drawn |-> drawn[j][c]])
           Early == {j \in DOMAIN drawn : b \in drawn[j][c]}
           All == {j \in SeedSet : b \in all[j][c]}
<1>1. last \in SeedSet /\ SeedSet = 0 .. last /\ DOMAIN drawn = 0 .. last - 1
  BY SeedNumbers DEF SeedSet
<1>2. IsFiniteSet(Early) /\ last \notin Early
  <2>1. IsFiniteSet(0 .. last - 1) /\ last \notin 0 .. last - 1
    BY SeedNumbers, FS_Interval
  <2> QED
    BY <1>1, <2>1, FS_Subset, Early \in SUBSET (0 .. last - 1)
<1>3. b \in streams <=> Odd(StreamsOf(Row(alpha), b, c))
  BY DEF Xor, Odd, StreamsOf
<1>4. b \in partial <=> Odd(Early)
  BY DEF Xor, Odd
<1>5. all[last] = LastWord(drawn) /\ \A j \in DOMAIN drawn : all[j] = drawn[j] /\ j \in SeedSet /\ j # last
  BY <1>1, SeedNumbers DEF SeedSet, AllWords
<1>6. all[last][c] = Xor(<<TargetIn(c), streams, partial>>)
  BY <1>5 DEF LastWord, TargetIn
<1>7. b \in all[last][c] <=> ~ (~ (b \in TargetIn(c) <=> b \in streams) <=> b \in partial)
  <2> HIDE DEF streams, partial
  <2> QED
    BY <1>6, XorOfThree
<1>8. \A j \in SeedSet : j # last => j \in DOMAIN drawn
  BY <1>1, SeedNumbers
<1>9. Odd(All) <=> ~ (b \in all[last][c] <=> Odd(Early))
  <2>1. CASE b \in all[last][c]
    <3>1. All = Early \cup {last}
      BY <1>1, <1>5, <1>8, <2>1
    <3> HIDE DEF All, Early
    <3> QED
      BY <1>2, <2>1, <3>1, OddAdd
  <2>2. CASE b \notin all[last][c]
    <3>1. All = Early
      BY <1>1, <1>5, <1>8, <2>2
    <3> HIDE DEF All, Early
    <3> QED
      BY <2>2, <3>1
  <2> QED
    BY <2>1, <2>2
<1> HIDE DEF All, Early, streams, partial, last, all
<1>10. b \in TargetIn(c) <=> ~ (Odd(All) <=> Odd(StreamsOf(Row(alpha), b, c)))
  BY <1>3, <1>4, <1>7, <1>9
<1> QED
  BY <1>10 DEF All, all

LEMMA DrawWordsKeeps ==
  ASSUME DpfInvariant, DrawWords
  PROVE  DpfInvariant'
<1>1. Grid' /\ stage' = "shares" /\ Grid
  BY GridStays DEF DpfInvariant, DrawWords
<1>2. ArraysDrawn' /\ seeds' \in [RowSet' -> [SeedSet -> Blocks \ {ZeroBlock}]]
  BY ArraysStay DEF DpfInvariant, DrawWords, RowSet
<1>3. PICK drawn \in [0 .. SeedsPerRow - 2 -> WordVectors(params.mu)] :
        words' = [j \in SeedSet |-> IF j < SeedsPerRow - 1 THEN drawn[j] ELSE LastWord(drawn)]
  BY DEF DrawWords
<1>4. drawn \in [0 .. SeedsPerRow - 2 -> [ColumnSet -> Word]]
  <2>1. WordVectors(params.mu) \subseteq [ColumnSet -> Word]
    BY <1>1, WordsAssumption DEF Grid, ColumnSet
  <2> QED
    BY <2>1
<1>5. words' \in [SeedSet -> [ColumnSet -> Word]]
  <2>1. LastWord(drawn) \in [ColumnSet -> Word]
    BY DEF LastWord, Xor, Word
  <2>2. \A j \in SeedSet : j < SeedsPerRow - 1 => j \in 0 .. SeedsPerRow - 2
    BY SeedNumbers DEF SeedSet
  <2>3. \A j \in SeedSet : (IF j < SeedsPerRow - 1 THEN drawn[j] ELSE LastWord(drawn)) \in [ColumnSet -> Word]
    BY <1>4, <2>1, <2>2
  <2> QED
    BY <1>3, <2>3
<1>6. ASSUME NEW c \in ColumnSet, NEW b \in Bits
      PROVE  b \in TargetIn(c) <=>
               ~ (Odd({j \in SeedSet : b \in words'[j][c]}) <=> Odd(StreamsOf(Row(alpha), b, c)))
  <2>1. words' = AllWords(drawn)
    BY <1>3 DEF AllWords
  <2>2. b \in TargetIn(c) <=>
          ~ (Odd({j \in SeedSet : b \in AllWords(drawn)[j][c]}) <=> Odd(StreamsOf(Row(alpha), b, c)))
    BY <1>1, <1>4, LastWordBalances
  <2> QED
    BY <2>1, <2>2
<1>7. ColumnSet' = ColumnSet /\ \A c \in ColumnSet : TargetIn(c)' = TargetIn(c)
  BY DEF DrawWords, ColumnSet, TargetIn, Column
<1>8. \A c \in ColumnSet, b \in Bits : StreamsOf(Row(alpha), b, c)' = StreamsOf(Row(alpha), b, c)
  BY DEF DrawWords, StreamsOf, Row
<1>9. Balanced'
  BY <1>6, <1>7, <1>8 DEF Balanced, WordsOf
<1> QED
  BY <1>1, <1>2, <1>5, <1>7, <1>9 DEF DpfInvariant

THEOREM KeyInvariance == KeySpec => []DpfInvariant
<1>1. DpfInvariant /\ [KeyNext]_keyVars => DpfInvariant'
  <2> SUFFICES ASSUME DpfInvariant, [KeyNext]_keyVars PROVE DpfInvariant'
    OBVIOUS
  <2>1. CASE UNCHANGED keyVars
    <3>1. /\ UNCHANGED <<size, params, alpha, beta, stage, arrays, seeds, words>>
          /\ RowSet' = RowSet /\ ColumnSet' = ColumnSet
      BY <2>1 DEF keyVars, RowSet, ColumnSet
    <3>2. Grid' /\ (ArraysDrawn => ArraysDrawn') /\ (Balanced => Balanced')
      <4>1. Balanced => Balanced'
        BY <3>1 DEF Balanced, TargetIn, WordsOf, StreamsOf, Row, Column
      <4> QED
        BY <3>1, <4>1, GridStays, ArraysStay DEF DpfInvariant
    <3> QED
      BY <3>1, <3>2 DEF DpfInvariant
  <2>2. CASE KeyNext
    BY <2>1, <2>2, SampleArraysKeeps, DrawSeedsKeeps, DrawWordsKeeps DEF KeyNext, Done
  <2> QED
    BY <2>1, <2>2
<1> QED
  BY <1>1, KeyInitHolds, PTL DEF KeySpec

----------------------------------------------------------------------------
(* The type invariant.                                                        *)

LEMMA TypesFollow == DpfInvariant => KeyTypeOK
<1> SUFFICES ASSUME DpfInvariant PROVE KeyTypeOK
  OBVIOUS
<1>1. Grid
  BY DEF DpfInvariant
<1>2. stage # "arrays" =>
        \A row \in RowSet : {arrays[row][j] : j \in SeedSet} = ParityColumns(row = Row(alpha))
  BY DEF DpfInvariant, ArraysDrawn
<1>3. stage \in {"words", "shares"} => seeds \in [RowSet -> [SeedSet -> Blocks]]
  BY DEF DpfInvariant
<1>4. \A x, y \in 0 .. size - 1 :
        Row(x) \in RowSet /\ (<<Row(x), Column(x)>> = <<Row(y), Column(y)>> => x = y)
  BY <1>1, GridFacts
<1> QED
  BY <1>1, <1>2, <1>3, <1>4, GridFacts DEF DpfInvariant, KeyTypeOK, Grid

(* The key that generate returns is well formed for every universe and every  *)
(* number of evaluators: the arrays hold every column of their parity, and no *)
(* two points share a cell of the grid (keygen.py, parity.py, params.py).     *)
THEOREM KeysTyped == KeySpec => []KeyTypeOK
BY KeyInvariance, TypesFollow, PTL

----------------------------------------------------------------------------
(* The evaluators' shares.                                                    *)

\* An evaluator holds the seeds of its columns: a seed is never the zero block.
LEMMA HeldSeedsAre ==
  ASSUME DpfInvariant, stage = "shares", NEW i \in Evaluators, NEW row \in RowSet
  PROVE  /\ HeldSeeds(i, row) = {j \in SeedSet : i \in arrays[row][j]}
         /\ \A j \in HeldSeeds(i, row) : Sigma(i)[row][j] = seeds[row][j]
<1>1. \A j \in SeedSet : seeds[row][j] # ZeroBlock
  BY DEF DpfInvariant
<1>2. \A j \in SeedSet : Sigma(i)[row][j] = IF i \in arrays[row][j] THEN seeds[row][j] ELSE ZeroBlock
  BY DEF Sigma, PartyHolds
<1> QED
  BY <1>1, <1>2 DEF HeldSeeds

Terms == SeedSet \X {"word", "stream"}
\* Whether a word or a stream of the row has bit b in column c.
TermHas(t, row, b, c) ==
  b \in IF t[2] = "word" THEN words[t[1]][c] ELSE Expand(seeds[row][t[1]], c)
HeldTerms(i, row, b, c) == {t \in Terms : i \in arrays[row][t[1]] /\ TermHas(t, row, b, c)}

\* A bit of an evaluator's row vector.
LEMMA RowVectorBit ==
  ASSUME DpfInvariant, stage = "shares", NEW i \in Evaluators, NEW row \in RowSet,
         NEW c \in ColumnSet, NEW b \in Bits
  PROVE  b \in RowVector(i, row)[c] <=>
           Odd(HeldTerms(i, row, b, c))
<1> DEFINE f == [t \in HeldSeeds(i, row) \X {"word", "stream"} |->
                   IF t[2] = "word" THEN words[t[1]][c] ELSE Expand(Sigma(i)[row][t[1]], c)]
<1>1. RowVector(i, row)[c] = Xor(f)
  BY DEF RowVector
<1>2. {t \in DOMAIN f : b \in f[t]} = HeldTerms(i, row, b, c)
  BY HeldSeedsAre DEF Terms, TermHas, HeldTerms
<1>3. b \in Xor(f) <=> Odd({t \in DOMAIN f : b \in f[t]})
  BY DEF Xor, Odd
<1> QED
  BY <1>1, <1>2, <1>3

LEMMA TermsFinite == IsFiniteSet(Terms)
<1>1. IsFiniteSet({"word", "stream"})
  <2>1. IsFiniteSet({"word"})
    BY FS_Singleton
  <2>2. IsFiniteSet({"word"} \cup {"stream"})
    BY <2>1, FS_AddElement
  <2> QED
    BY <2>2
<1> QED
  BY <1>1, SeedNumbers, FS_Product DEF Terms

LEMMA PartiesFinite == IsFiniteSet(Evaluators) /\ 0 \in Evaluators
<1>1. IsFiniteSet(Evaluators)
  BY PartiesAssumption, FS_Interval DEF Evaluators
<1> QED
  BY <1>1, PartiesAssumption DEF Evaluators

\* The words and the streams of alpha's row, counted together, balance.
LEMMA TermsBalance ==
  ASSUME DpfInvariant, stage = "shares", NEW c \in ColumnSet, NEW b \in Bits
  PROVE  Odd({t \in Terms : TermHas(t, Row(alpha), b, c)}) <=> b \in TargetIn(c)
<1> DEFINE W == WordsOf(b, c)
           S == StreamsOf(Row(alpha), b, c)
<1>1. {t \in Terms : TermHas(t, Row(alpha), b, c)} = (W \X {"word"}) \cup (S \X {"stream"})
  BY DEF Terms, TermHas, WordsOf, StreamsOf
<1>2. IsFiniteSet(W) /\ IsFiniteSet(S)
  BY SeedNumbers, FS_Subset, W \in SUBSET SeedSet, S \in SUBSET SeedSet DEF WordsOf, StreamsOf
<1>3. b \in TargetIn(c) <=> ~ (Odd(W) <=> Odd(S))
  BY DEF DpfInvariant, Balanced
<1> HIDE DEF W, S
<1>4. Odd((W \X {"word"}) \cup (S \X {"stream"})) <=> ~ (Odd(W) <=> Odd(S))
  BY <1>2, OddBeside, "word" # "stream"
<1> QED
  BY <1>1, <1>3, <1>4

\* An array's column is held by an odd number of evaluators in alpha's row only.
LEMMA ColumnParity ==
  ASSUME DpfInvariant, stage = "shares", NEW row \in RowSet, NEW j \in SeedSet
  PROVE  /\ arrays[row][j] \subseteq Evaluators
         /\ Odd(arrays[row][j]) <=> row = Row(alpha)
<1>1. arrays[row][j] \in ParityColumns(row = Row(alpha))
  BY DEF DpfInvariant, ArraysDrawn
<1> QED
  BY <1>1 DEF ParityColumns, Odd

\* The evaluators' row vectors add up to the target in alpha's row and to
\* nothing in the others: counting by evaluators is counting by terms.
LEMMA RowsAddUp ==
  ASSUME DpfInvariant, stage = "shares", NEW row \in RowSet, NEW c \in ColumnSet, NEW b \in Bits
  PROVE  Odd({i \in Evaluators : b \in RowVector(i, row)[c]}) <=>
           (row = Row(alpha) /\ b \in TargetIn(c))
<1> DEFINE Holds == {p \in Evaluators \X Terms : p[1] \in arrays[row][p[2][1]] /\ TermHas(p[2], row, b, c)}
<1>1. ASSUME NEW i \in Evaluators
      PROVE  b \in RowVector(i, row)[c] <=> Odd({t \in Terms : <<i, t>> \in Holds})
  <2>1. {t \in Terms : <<i, t>> \in Holds} = HeldTerms(i, row, b, c)
    BY DEF HeldTerms
  <2> HIDE DEF Holds
  <2> QED
    BY <2>1, RowVectorBit
<1>2. {i \in Evaluators : b \in RowVector(i, row)[c]} = OddRows(Evaluators, Terms, Holds)
  BY <1>1 DEF OddRows
<1>3. ASSUME NEW t \in Terms
      PROVE  Odd({i \in Evaluators : <<i, t>> \in Holds}) <=> (row = Row(alpha) /\ TermHas(t, row, b, c))
  <2>1. t[1] \in SeedSet
    BY DEF Terms
  <2>2. CASE TermHas(t, row, b, c)
    <3>1. {i \in Evaluators : <<i, t>> \in Holds} = arrays[row][t[1]]
      BY <2>1, <2>2, ColumnParity
    <3> QED
      BY <2>1, <2>2, <3>1, ColumnParity
  <2>3. CASE ~ TermHas(t, row, b, c)
    <3>1. {i \in Evaluators : <<i, t>> \in Holds} = {}
      BY <2>3
    <3> QED
      BY <2>3, <3>1, OddEmpty
  <2> QED
    BY <2>2, <2>3
<1> HIDE DEF Holds
<1>4. Odd(OddRows(Evaluators, Terms, Holds)) <=> Odd(OddColumns(Evaluators, Terms, Holds))
  BY TermsFinite, PartiesFinite, ParityCounting
<1>5. OddColumns(Evaluators, Terms, Holds) = {t \in Terms : row = Row(alpha) /\ TermHas(t, row, b, c)}
  BY <1>3 DEF OddColumns
<1>6. CASE row = Row(alpha)
  <2>1. {t \in Terms : row = Row(alpha) /\ TermHas(t, row, b, c)} =
          {t \in Terms : TermHas(t, Row(alpha), b, c)}
    BY <1>6
  <2> QED
    BY <1>2, <1>4, <1>5, <1>6, <2>1, TermsBalance
<1>7. CASE row # Row(alpha)
  <2>1. {t \in Terms : row = Row(alpha) /\ TermHas(t, row, b, c)} = {}
    BY <1>7
  <2> QED
    BY <1>2, <1>4, <1>5, <1>7, <2>1, OddEmpty
<1> QED
  BY <1>6, <1>7

\* The sum of the answers for a point.
LEMMA PointsAddUp ==
  ASSUME DpfInvariant, stage = "shares", NEW x \in 0 .. size - 1, NEW b \in Bits
  PROVE  Odd({i \in Evaluators : b \in EvaluateUniverse(i)[x]}) <=> (x = alpha /\ b \in beta)
<1>1. Grid
  BY DEF DpfInvariant
<1>2. Row(x) \in RowSet /\ Column(x) \in ColumnSet /\ Row(x) \in 0 .. LastRow
  BY <1>1, GridFacts
<1>3. \A i \in Evaluators : EvaluateUniverse(i)[x] = RowVector(i, Row(x))[Column(x)]
  BY <1>2 DEF EvaluateUniverse
<1>4. {i \in Evaluators : b \in EvaluateUniverse(i)[x]} =
        {i \in Evaluators : b \in RowVector(i, Row(x))[Column(x)]}
  BY <1>3
<1>5. Odd({i \in Evaluators : b \in RowVector(i, Row(x))[Column(x)]}) <=>
        (Row(x) = Row(alpha) /\ b \in TargetIn(Column(x)))
  BY <1>2, RowsAddUp
<1>6. alpha \in 0 .. size - 1
  BY <1>1 DEF Grid
<1>7. Row(x) = Row(alpha) /\ Column(x) = Column(alpha) <=> x = alpha
  BY <1>1, <1>6, GridFacts
<1> QED
  BY <1>4, <1>5, <1>7 DEF TargetIn

LEMMA PointFunctionFollows == DpfInvariant => PointFunction
<1> SUFFICES ASSUME DpfInvariant, stage = "shares"
             PROVE  CombineShares([i \in Evaluators |-> EvaluateUniverse(i)]) =
                      [x \in 0 .. size - 1 |-> IF x = alpha THEN beta ELSE {}]
  BY DEF PointFunction
<1> DEFINE shares == [i \in Evaluators |-> EvaluateUniverse(i)]
<1>1. DOMAIN shares[0] = 0 .. size - 1
  BY PartiesFinite DEF EvaluateUniverse
<1>2. ASSUME NEW x \in 0 .. size - 1
      PROVE  Xor([i \in Evaluators |-> shares[i][x]]) = IF x = alpha THEN beta ELSE {}
  <2>1. \A b \in Bits : b \in Xor([i \in Evaluators |-> shares[i][x]]) <=> (x = alpha /\ b \in beta)
    <3> TAKE b \in Bits
    <3>1. {i \in Evaluators : b \in shares[i][x]} = {i \in Evaluators : b \in EvaluateUniverse(i)[x]}
      OBVIOUS
    <3>2. b \in Xor([i \in Evaluators |-> shares[i][x]]) <=> Odd({i \in Evaluators : b \in shares[i][x]})
      BY DEF Xor, Odd
    <3> QED
      BY <3>1, <3>2, PointsAddUp
  <2>2. Xor([i \in Evaluators |-> shares[i][x]]) \subseteq Bits /\ beta \subseteq Bits
    BY DEF Xor, DpfInvariant, Grid, Word
  <2> QED
    BY <2>1, <2>2
<1> HIDE DEF shares
<1>3. CombineShares(shares) = [x \in 0 .. size - 1 |-> IF x = alpha THEN beta ELSE {}]
  BY <1>1, <1>2 DEF CombineShares
<1> QED
  BY <1>3 DEF shares

(* For any number of evaluators, any universe, looked-up rank and value, and  *)
(* whatever arrays, seeds and words are drawn, the evaluators' answers add up *)
(* to the value at the rank and to nothing elsewhere (evaluate_universe,      *)
(* MpFssCoordinator.combine).                                                 *)
THEOREM SharesAreThePointFunction == KeySpec => []PointFunction
BY KeyInvariance, PointFunctionFollows, PTL

----------------------------------------------------------------------------
(* The projection to slots.                                                   *)

RoutedTo(s) == {x \in 0 .. size - 1 : s \in Routed(x)}

\* A bit of an evaluator's answer for a slot.
LEMMA ProjectBit ==
  ASSUME NEW i \in Evaluators, NEW s \in Slots, NEW b \in Bits
  PROVE  b \in Project(EvaluateUniverse(i))[s] <=>
           Odd({x \in RoutedTo(s) : b \in EvaluateUniverse(i)[x]})
<1> DEFINE shares == EvaluateUniverse(i)
           f == [x \in RoutedTo(s) |-> shares[x]]
<1>1. DOMAIN shares = 0 .. size - 1
  BY DEF EvaluateUniverse
<1> HIDE DEF shares
<1>2. Project(shares)[s] = Xor(f)
  BY <1>1 DEF Project, RoutedTo
<1>3. {x \in RoutedTo(s) : b \in f[x]} = {x \in RoutedTo(s) : b \in shares[x]}
  OBVIOUS
<1>4. b \in Xor(f) <=> Odd({x \in RoutedTo(s) : b \in f[x]})
  BY DEF Xor, Odd
<1>5. b \in Project(shares)[s] <=> Odd({x \in RoutedTo(s) : b \in shares[x]})
  BY <1>2, <1>3, <1>4
<1> QED
  BY <1>5 DEF shares

\* The sum of the answers for a slot: the points routed to it add up.
LEMMA SlotsAddUp ==
  ASSUME DpfInvariant, stage = "shares", NEW s \in Slots, NEW b \in Bits
  PROVE  Odd({i \in Evaluators : b \in Project(EvaluateUniverse(i))[s]}) <=>
           (s \in Routed(alpha) /\ b \in beta)
<1> DEFINE X == RoutedTo(s)
           Holds == {p \in Evaluators \X X : b \in EvaluateUniverse(p[1])[p[2]]}
<1>1. size \in Nat \ {0} /\ alpha \in 0 .. size - 1
  BY GridFacts DEF DpfInvariant, Grid
<1>2. X \in SUBSET (0 .. size - 1) /\ IsFiniteSet(X)
  <2>1. X \in SUBSET (0 .. size - 1)
    BY DEF RoutedTo
  <2>2. IsFiniteSet(0 .. size - 1)
    BY <1>1, FS_Interval
  <2> HIDE DEF X
  <2> QED
    BY <2>1, <2>2, FS_Subset
<1>3. ASSUME NEW i \in Evaluators
      PROVE  b \in Project(EvaluateUniverse(i))[s] <=> Odd({x \in X : <<i, x>> \in Holds})
  <2>1. {x \in X : <<i, x>> \in Holds} = {x \in RoutedTo(s) : b \in EvaluateUniverse(i)[x]}
    OBVIOUS
  <2> HIDE DEF Holds
  <2> QED
    BY <2>1, ProjectBit
<1>4. {i \in Evaluators : b \in Project(EvaluateUniverse(i))[s]} = OddRows(Evaluators, X, Holds)
  BY <1>3 DEF OddRows
<1>5. ASSUME NEW x \in X
      PROVE  Odd({i \in Evaluators : <<i, x>> \in Holds}) <=> (x = alpha /\ b \in beta)
  <2>1. {i \in Evaluators : <<i, x>> \in Holds} = {i \in Evaluators : b \in EvaluateUniverse(i)[x]}
    OBVIOUS
  <2> HIDE DEF Holds
  <2> QED
    BY <1>2, <2>1, PointsAddUp
<1> HIDE DEF Holds
<1>6. Odd(OddRows(Evaluators, X, Holds)) <=> Odd(OddColumns(Evaluators, X, Holds))
  BY <1>2, PartiesFinite, ParityCounting
<1>7. OddColumns(Evaluators, X, Holds) = {x \in X : x = alpha /\ b \in beta}
  BY <1>5 DEF OddColumns
<1>8. CASE alpha \in X /\ b \in beta
  <2>1. {x \in X : x = alpha /\ b \in beta} = {} \cup {alpha}
    BY <1>8
  <2>2. Odd({} \cup {alpha})
    BY OddEmpty, OddAdd, alpha \notin {}
  <2> QED
    BY <1>4, <1>6, <1>7, <1>8, <2>1, <2>2 DEF RoutedTo
<1>9. CASE ~ (alpha \in X /\ b \in beta)
  <2>1. {x \in X : x = alpha /\ b \in beta} = {}
    BY <1>9
  <2>2. ~ (s \in Routed(alpha) /\ b \in beta)
    BY <1>1, <1>9 DEF RoutedTo
  <2> QED
    BY <1>4, <1>6, <1>7, <2>1, <2>2, OddEmpty
<1> QED
  BY <1>8, <1>9

LEMMA SlotsFollow == DpfInvariant => SlotsExact
<1> SUFFICES ASSUME DpfInvariant, stage = "shares"
             PROVE  CombineShares([i \in Evaluators |-> Project(EvaluateUniverse(i))]) =
                      [s \in Slots |-> IF s \in Routed(alpha) THEN beta ELSE {}]
  BY DEF SlotsExact
<1> DEFINE shares == [i \in Evaluators |-> Project(EvaluateUniverse(i))]
<1>1. DOMAIN shares[0] = Slots
  BY PartiesFinite DEF Project
<1>2. ASSUME NEW s \in Slots
      PROVE  Xor([i \in Evaluators |-> shares[i][s]]) = IF s \in Routed(alpha) THEN beta ELSE {}
  <2>1. \A b \in Bits : b \in Xor([i \in Evaluators |-> shares[i][s]]) <=>
                          (s \in Routed(alpha) /\ b \in beta)
    <3> TAKE b \in Bits
    <3>1. {i \in Evaluators : b \in shares[i][s]} =
            {i \in Evaluators : b \in Project(EvaluateUniverse(i))[s]}
      OBVIOUS
    <3>2. b \in Xor([i \in Evaluators |-> shares[i][s]]) <=> Odd({i \in Evaluators : b \in shares[i][s]})
      BY DEF Xor, Odd
    <3> QED
      BY <3>1, <3>2, SlotsAddUp
  <2>2. Xor([i \in Evaluators |-> shares[i][s]]) \subseteq Bits /\ beta \subseteq Bits
    BY DEF Xor, DpfInvariant, Grid, Word
  <2> QED
    BY <2>1, <2>2
<1> HIDE DEF shares
<1>3. CombineShares(shares) = [s \in Slots |-> IF s \in Routed(alpha) THEN beta ELSE {}]
  BY <1>1, <1>2 DEF CombineShares
<1> QED
  BY <1>3 DEF shares

(* For any routing of points to candidate slots the projected answers add up  *)
(* to the value in exactly the slots of the looked-up point                   *)
(* (XorCandidateProjection.project, MpFssCoordinator.combine).                *)
THEOREM ProjectionExact == KeySpec => []SlotsExact
BY KeyInvariance, SlotsFollow, PTL
=============================================================================
