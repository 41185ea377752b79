----------------------- MODULE EpochPreparation_proofs -----------------------
(***************************************************************************)
(* Proofs that one preparer, failed, killed and started again however      *)
(* often and with whichever program, never replaces an input, never mixes  *)
(* two sharings and leaves no manifest that describes other inputs, for    *)
(* any number of owners, runs and faults.                                  *)
(***************************************************************************)
EXTENDS EpochPreparation, TLAPS

\* One process works in the directory.  With two the properties are false.
OnePreparer == \A p, q \in Preparers : p = q

\* The input and the manifest a preparation is to write.
Whole(r) == Assembled(r, [o \in 0 .. OwnerCount |-> r])

\* What exists was written by the preparer's last run, and completely.
OfLastRun ==
    \A p \in Preparers :
        /\ \A s \in Servers : Exists(input[s]) => input[s] = Whole(run[p])
        /\ Exists(manifest) =>
               /\ pc[p] \in {"idle", "fill"}
               /\ manifest \in {Partial(run[p]), Whole(run[p])}
               /\ \A s \in Servers : Exists(input[s])

\* Where the preparer is says which inputs are there.
InputsInOrder ==
    \A p \in Preparers :
        /\ pc[p] \in {"segments", "check"} => \A s \in Servers : ~Exists(input[s])
        /\ pc[p] \in {"open", "write", "rename"} =>
               \A s \in Servers : Exists(input[s]) <=> s < server[p]
        /\ pc[p] \in {"cleanup", "unlink", "manifest", "fill"} =>
               \A s \in Servers : Exists(input[s])

\* The segments it has written are there, whatever earlier runs left.
SegmentsWritten ==
    \A p \in Preparers :
        /\ pc[p] = "segments" =>
               \A o \in Owners, s \in Servers :
                   o < owner[p] \/ (o = owner[p] /\ s < server[p]) =>
                       segment[program[p]][o][s] = run[p]
        /\ pc[p] \in {"check", "open", "write", "rename"} =>
               \A o \in Owners, s \in Servers : segment[program[p]][o][s] = run[p]

TemporaryOwn ==
    \A p \in Preparers :
        /\ pc[p] = "write" => temporary[server[p]] = Partial(run[p])
        /\ pc[p] = "rename" => temporary[server[p]] = Whole(run[p])

IInv ==
    /\ TypeOK
    /\ runs \in 0 .. MaxRuns
    /\ \A p \in Preparers : IF pc[p] = "idle"
                            THEN owner[p] = 1 /\ server[p] = 0
                            ELSE run[p] # Absent
    /\ OfLastRun
    /\ InputsInOrder
    /\ SegmentsWritten
    /\ TemporaryOwn

-----------------------------------------------------------------------------
(* Missing, partial and whole files are told apart.                        *)
LEMMA FileFacts ==
    ASSUME NEW r \in 0 .. MaxRuns
    PROVE  /\ NoFile \in Files /\ Partial(r) \in Files /\ Whole(r) \in Files
           /\ ~Exists(NoFile) /\ Exists(Whole(r))
           /\ r # Absent => Exists(Partial(r))
           /\ Whole(r).complete /\ ~Partial(r).complete /\ ~NoFile.complete
           /\ Partial(r).by = r
           /\ Whole(r).parts = [o \in 0 .. OwnerCount |-> r]
<1>1. 0 \in 0 .. MaxRuns /\ OwnerCount \in Nat
    BY PreparationAssumption
<1>2. [o \in 0 .. OwnerCount |-> 0] \in [0 .. OwnerCount -> 0 .. MaxRuns]
    BY <1>1
<1>3. NoFile = [by |-> 0, parts |-> [o \in 0 .. OwnerCount |-> 0], complete |-> FALSE]
    BY DEF NoFile, NoParts, Absent
<1>4. Partial(r) = [by |-> r, parts |-> [o \in 0 .. OwnerCount |-> 0], complete |-> FALSE]
    BY DEF Partial, NoParts, Absent
<1>5. Whole(r) = [by |-> r, parts |-> [o \in 0 .. OwnerCount |-> r], complete |-> TRUE]
    BY DEF Whole, Assembled
<1>6. [o \in 0 .. OwnerCount |-> r] \in [0 .. OwnerCount -> 0 .. MaxRuns]
    OBVIOUS
<1>7. NoFile \in Files /\ Partial(r) \in Files /\ Whole(r) \in Files
    BY <1>1, <1>2, <1>3, <1>4, <1>5, <1>6 DEF Files
<1>8. /\ NoFile.by = 0 /\ ~NoFile.complete
      /\ Partial(r).by = r /\ ~Partial(r).complete
      /\ Whole(r).complete /\ Whole(r).parts = [o \in 0 .. OwnerCount |-> r]
    BY <1>3, <1>4, <1>5
<1>9. Whole(r) # NoFile /\ (r # 0 => Partial(r) # NoFile)
    BY <1>8
<1> QED
    BY <1>7, <1>8, <1>9 DEF Exists, Absent

(* An empty directory.                                                     *)
LEMMA InitiallyInvariant == Init => IInv
<1> SUFFICES ASSUME Init PROVE IInv
    OBVIOUS
<1>1. 0 \in 0 .. MaxRuns /\ 0 \in Servers /\ 1 \in Owners
    BY PreparationAssumption DEF Servers, Owners
<1>2. NoFile \in Files /\ ~Exists(NoFile)
    BY <1>1, FileFacts
<1>3. TypeOK
    <2>1. NoSegments \in [Owners -> [Servers -> 0 .. MaxRuns]]
        BY <1>1 DEF NoSegments, Absent
    <2> QED
        BY <1>1, <1>2, <2>1 DEF Init, TypeOK, Labels, Absent
<1>4. /\ runs \in 0 .. MaxRuns
      /\ \A p \in Preparers : pc[p] = "idle" /\ owner[p] = 1 /\ server[p] = 0
      /\ \A s \in Servers : ~Exists(input[s])
      /\ ~Exists(manifest)
    BY <1>1, <1>2 DEF Init
<1> QED
    BY <1>3, <1>4 DEF IInv, OfLastRun, InputsInOrder, SegmentsWritten, TemporaryOwn

(* Going to a label changes the control state and nothing else.            *)
LEMMA GotoEffect ==
    ASSUME TypeOK, NEW p \in Preparers, NEW label \in Labels, Goto(p, label)
    PROVE  /\ pc'[p] = label /\ owner'[p] = 1 /\ server'[p] = 0
           /\ run' = run /\ program' = program
           /\ pc' \in [Preparers -> Labels]
           /\ owner' \in [Preparers -> Owners]
           /\ server' \in [Preparers -> Servers]
BY PreparationAssumption DEF TypeOK, Goto, Owners, Servers

(* An error or a kill leaves every file as it is.                          *)
LEMMA FaultKeeps ==
    ASSUME OnePreparer, IInv, NEW p \in Preparers, Error(p) \/ Crash(p)
    PROVE  IInv'
<1>1. PICK label \in {"failed", "idle"} :
          /\ pc[p] # "idle" /\ Goto(p, label)
          /\ label = "failed" => pc[p] \in {"open", "write", "rename"}
          /\ UNCHANGED <<files, runs>>
    BY DEF Error, Crash
<1>2. /\ pc'[p] = label /\ run' = run /\ program' = program
      /\ owner'[p] = 1 /\ server'[p] = 0
      /\ pc' \in [Preparers -> Labels]
      /\ owner' \in [Preparers -> Owners] /\ server' \in [Preparers -> Servers]
    BY <1>1, GotoEffect DEF IInv, Labels
<1>3. TypeOK'
    BY <1>1, <1>2 DEF IInv, TypeOK, files
<1>4. \A q \in Preparers : q = p
    BY DEF OnePreparer
<1>5. OfLastRun'
    BY <1>1, <1>2, <1>4 DEF IInv, OfLastRun, files
<1>6. InputsInOrder' /\ SegmentsWritten' /\ TemporaryOwn'
    BY <1>1, <1>2, <1>4 DEF InputsInOrder, SegmentsWritten, TemporaryOwn
<1> QED
    BY <1>1, <1>2, <1>3, <1>4, <1>5, <1>6 DEF IInv

(* A preparation begins where there is no input, hence no manifest.        *)
LEMMA BeginKeeps ==
    ASSUME OnePreparer, IInv, NEW p \in Preparers, NEW v \in Programs, Begin(p, v)
    PROVE  IInv'
<1>1. /\ runs' = runs + 1 /\ runs \in Nat /\ runs' \in 1 .. MaxRuns
      /\ pc' = [pc EXCEPT ![p] = "segments"]
      /\ run' = [run EXCEPT ![p] = runs + 1]
      /\ program' = [program EXCEPT ![p] = v]
      /\ owner' = owner /\ server' = server
      /\ segment' = segment /\ temporary' = temporary
      /\ input' = input /\ manifest' = manifest
      /\ pc[p] = "idle"
    BY PreparationAssumption DEF Begin, IInv, files
<1>2. \A q \in Preparers : q = p
    BY DEF OnePreparer
<1>3. \A s \in Servers : ~Exists(input[s])
    BY DEF Begin, Protected, InputExists
<1>4. ~Exists(manifest)
    <2>1. 0 \in Servers
        BY DEF Servers
    <2> QED
        BY <1>3, <2>1 DEF IInv, OfLastRun
<1>5. TypeOK'
    BY <1>1, <1>3 DEF IInv, TypeOK, Labels
<1>6. OfLastRun'
    BY <1>1, <1>3, <1>4 DEF OfLastRun
<1>7. /\ pc'[p] = "segments" /\ run'[p] # Absent
    BY <1>1 DEF IInv, TypeOK, Absent
<1>8. InputsInOrder' /\ TemporaryOwn'
    BY <1>1, <1>2, <1>3, <1>7 DEF InputsInOrder, TemporaryOwn
<1>9. SegmentsWritten'
    <2>1. owner'[p] = 1 /\ server'[p] = 0
        BY <1>1 DEF IInv
    <2>2. \A o \in Owners, s \in Servers : ~(o < 1 \/ (o = 1 /\ s < 0))
        BY DEF Owners, Servers
    <2> QED
        BY <1>2, <1>7, <2>1, <2>2 DEF SegmentsWritten
<1> QED
    BY <1>1, <1>2, <1>5, <1>6, <1>7, <1>8, <1>9 DEF IInv

(* The next segment, or the label after the last one.                      *)
LEMMA NextSegmentEffect ==
    ASSUME TypeOK, NEW p \in Preparers, NEW label \in Labels, NextSegment(p, label)
    PROVE  /\ run' = run /\ program' = program
           /\ pc' \in [Preparers -> Labels]
           /\ owner' \in [Preparers -> Owners] /\ server' \in [Preparers -> Servers]
           /\ \/ /\ pc'[p] = pc[p]
                 /\ \A o \in Owners, s \in Servers :
                        o < owner'[p] \/ (o = owner'[p] /\ s < server'[p]) =>
                            \/ o < owner[p] \/ (o = owner[p] /\ s < server[p])
                            \/ o = owner[p] /\ s = server[p]
              \/ /\ pc'[p] = label /\ server'[p] = 0
                 /\ \A o \in Owners, s \in Servers :
                        \/ o < owner[p] \/ (o = owner[p] /\ s < server[p])
                        \/ o = owner[p] /\ s = server[p]
<1>1. owner[p] \in Owners /\ server[p] \in Servers /\ OwnerCount \in Nat
    BY PreparationAssumption DEF TypeOK
<1>2. CASE server[p] < 2
    <2>1. /\ server' = [server EXCEPT ![p] = @ + 1]
          /\ UNCHANGED <<pc, run, program, owner>>
        BY <1>2 DEF NextSegment
    <2>2. server'[p] = server[p] + 1 /\ server[p] + 1 \in Servers
        BY <1>1, <1>2, <2>1 DEF TypeOK, Servers
    <2>3. server' \in [Preparers -> Servers]
        BY <2>1, <2>2 DEF TypeOK
    <2>4. pc'[p] = pc[p] /\ owner'[p] = owner[p]
        BY <2>1
    <2>5. \A o \in Owners, s \in Servers :
              o < owner'[p] \/ (o = owner'[p] /\ s < server'[p]) =>
                  \/ o < owner[p] \/ (o = owner[p] /\ s < server[p])
                  \/ o = owner[p] /\ s = server[p]
        BY <1>1, <2>2, <2>4 DEF Owners, Servers
    <2> QED
        BY <2>1, <2>3, <2>4, <2>5 DEF TypeOK
<1>3. CASE server[p] >= 2 /\ owner[p] < OwnerCount
    <2>1. /\ server' = [server EXCEPT ![p] = 0]
          /\ owner' = [owner EXCEPT ![p] = @ + 1]
          /\ UNCHANGED <<pc, run, program>>
        BY <1>1, <1>3 DEF NextSegment, Servers
    <2>2. /\ server'[p] = 0 /\ 0 \in Servers
          /\ owner'[p] = owner[p] + 1 /\ owner[p] + 1 \in Owners
        BY <1>1, <1>3, <2>1 DEF TypeOK, Owners, Servers
    <2>3. server' \in [Preparers -> Servers] /\ owner' \in [Preparers -> Owners]
        BY <2>1, <2>2 DEF TypeOK
    <2>4. pc'[p] = pc[p]
        BY <2>1
    <2>5. \A o \in Owners, s \in Servers :
              o < owner'[p] \/ (o = owner'[p] /\ s < server'[p]) =>
                  \/ o < owner[p] \/ (o = owner[p] /\ s < server[p])
                  \/ o = owner[p] /\ s = server[p]
        BY <1>1, <1>3, <2>2 DEF Owners, Servers
    <2> QED
        BY <2>1, <2>3, <2>4, <2>5 DEF TypeOK
<1>4. CASE server[p] >= 2 /\ owner[p] >= OwnerCount
    <2>1. Goto(p, label)
        BY <1>1, <1>4 DEF NextSegment, Owners, Servers
    <2> QED
        BY <1>1, <1>4, <2>1, GotoEffect DEF Owners, Servers
<1> QED
    BY <1>1, <1>2, <1>3, <1>4 DEF Owners, Servers

(* When the loop over the segments ends all of them are this run's.        *)
LEMMA ReplaceKeeps ==
    ASSUME OnePreparer, IInv, NEW p \in Preparers, NEW label \in {"check", "open"},
           pc[p] = "segments", program[p] \in Programs,
           segment' = [segment EXCEPT ![program[p]][owner[p]][server[p]] = run[p]],
           NextSegment(p, label),
           UNCHANGED <<temporary, input, manifest, runs>>
    PROVE  IInv'
<1>1. \A q \in Preparers : q = p
    BY DEF OnePreparer
<1>2. TypeOK /\ label \in Labels /\ label # "idle"
    BY DEF IInv, Labels
<1>3. segment' \in [Programs -> [Owners -> [Servers -> 0 .. MaxRuns]]]
    BY <1>2 DEF TypeOK
<1>4. \A o \in Owners, s \in Servers :
          segment'[program[p]][o][s] =
              IF o = owner[p] /\ s = server[p] THEN run[p] ELSE segment[program[p]][o][s]
    BY <1>2 DEF TypeOK
<1>5. /\ run' = run /\ program' = program
      /\ pc' \in [Preparers -> Labels]
      /\ owner' \in [Preparers -> Owners] /\ server' \in [Preparers -> Servers]
      /\ pc'[p] \in {"segments", label}
    BY <1>2, NextSegmentEffect
<1>6. TypeOK'
    BY <1>2, <1>3, <1>5 DEF TypeOK
<1>7. OfLastRun' /\ TemporaryOwn'
    BY <1>1, <1>5 DEF IInv, OfLastRun, TemporaryOwn
<1>8. SegmentsWritten'
    <2>1. CASE pc'[p] = "segments"
        BY <1>1, <1>2, <1>4, <1>5, <2>1, NextSegmentEffect DEF IInv, SegmentsWritten
    <2>2. CASE pc'[p] = label
        BY <1>1, <1>2, <1>4, <1>5, <2>2, NextSegmentEffect DEF IInv, SegmentsWritten
    <2> QED
        BY <1>5, <2>1, <2>2
<1>9. InputsInOrder'
    <2>1. /\ pc'[p] = "segments" \/ (pc'[p] = label /\ server'[p] = 0)
          /\ \A s \in Servers : ~Exists(input[s])
        BY <1>2, NextSegmentEffect DEF IInv, InputsInOrder
    <2>2. \A s \in Servers : ~(s < 0)
        BY DEF Servers
    <2> QED
        BY <1>1, <2>1, <2>2 DEF InputsInOrder
<1> QED
    BY <1>1, <1>5, <1>6, <1>7, <1>8, <1>9 DEF IInv

(* The temporary of the server at hand: opened, filled from the segments   *)
(* of this run, renamed to an input that was not there.                    *)
LEMMA AssemblyKeeps ==
    ASSUME OnePreparer, IInv, NEW p \in Preparers,
           OpenTemporary(p) \/ WriteTemporary(p) \/ RenameTemporary(p)
    PROVE  IInv'
<1> DEFINE s == server[p]
<1> DEFINE r == run[p]
<1>1. \A q \in Preparers : q = p
    BY DEF OnePreparer
<1>2. /\ TypeOK /\ pc[p] \in {"open", "write", "rename"}
      /\ r \in 0 .. MaxRuns /\ r # Absent /\ s \in Servers /\ program[p] \in Programs
      /\ UNCHANGED <<segment, manifest, runs>>
    BY DEF IInv, TypeOK, OpenTemporary, WriteTemporary, RenameTemporary
<1>3. /\ \A t \in Servers : Exists(input[t]) <=> t < s
      /\ \A t \in Servers : Exists(input[t]) => input[t] = Whole(r)
      /\ ~Exists(manifest)
    BY <1>2 DEF IInv, OfLastRun, InputsInOrder
<1>4. \A o \in Owners, t \in Servers : segment[program[p]][o][t] = r
    BY <1>2 DEF IInv, SegmentsWritten
<1>5. /\ NoFile \in Files /\ Partial(r) \in Files /\ Whole(r) \in Files
      /\ ~Exists(NoFile) /\ Exists(Whole(r)) /\ Exists(Partial(r))
      /\ Whole(r).complete /\ Partial(r).by = r
    BY <1>2, FileFacts
<1> HIDE DEF s, r
<1>6. CASE /\ Goto(p, "failed")
           /\ temporary' = temporary /\ input' = input
    <2>1. /\ pc'[p] = "failed" /\ run' = run /\ program' = program
          /\ pc' \in [Preparers -> Labels]
          /\ owner' \in [Preparers -> Owners] /\ server' \in [Preparers -> Servers]
        BY <1>2, <1>6, GotoEffect DEF Labels
    <2>2. TypeOK'
        BY <1>2, <1>6, <2>1 DEF TypeOK
    <2>3. OfLastRun' /\ InputsInOrder' /\ SegmentsWritten' /\ TemporaryOwn'
        BY <1>1, <1>2, <1>3, <1>6, <2>1
           DEF OfLastRun, InputsInOrder, SegmentsWritten, TemporaryOwn, r
    <2> QED
        BY <1>1, <1>2, <2>1, <2>2, <2>3 DEF IInv, r
<1>7. CASE /\ pc[p] = "open" /\ pc' = [pc EXCEPT ![p] = "write"]
           /\ temporary' = [temporary EXCEPT ![s] = Partial(r)] /\ input' = input
           /\ UNCHANGED <<run, program, owner, server>>
    <2>1. TypeOK'
        BY <1>2, <1>5, <1>7 DEF TypeOK, Labels
    <2>2. pc'[p] = "write" /\ temporary'[s] = Partial(r)
        BY <1>2, <1>7 DEF TypeOK
    <2>3. OfLastRun' /\ InputsInOrder' /\ SegmentsWritten' /\ TemporaryOwn'
        BY <1>1, <1>2, <1>3, <1>4, <1>7, <2>2
           DEF OfLastRun, InputsInOrder, SegmentsWritten, TemporaryOwn, r, s
    <2> QED
        BY <1>1, <1>2, <1>7, <2>1, <2>2, <2>3 DEF IInv, r
<1>8. CASE /\ pc[p] = "write" /\ pc' = [pc EXCEPT ![p] = "rename"]
           /\ temporary' = [temporary EXCEPT ![s] = Whole(r)] /\ input' = input
           /\ UNCHANGED <<run, program, owner, server>>
    <2>1. TypeOK'
        BY <1>2, <1>5, <1>8 DEF TypeOK, Labels
    <2>2. pc'[p] = "rename" /\ temporary'[s] = Whole(r)
        BY <1>2, <1>8 DEF TypeOK
    <2>3. OfLastRun' /\ InputsInOrder' /\ SegmentsWritten' /\ TemporaryOwn'
        BY <1>1, <1>2, <1>3, <1>4, <1>8, <2>2
           DEF OfLastRun, InputsInOrder, SegmentsWritten, TemporaryOwn, r, s
    <2> QED
        BY <1>1, <1>2, <1>8, <2>1, <2>2, <2>3 DEF IInv, r
<1>9. CASE /\ pc[p] = "rename"
           /\ input' = [input EXCEPT ![s] = Whole(r)]
           /\ temporary' = [temporary EXCEPT ![s] = NoFile]
           /\ IF s = 2
              THEN Goto(p, "cleanup")
              ELSE /\ server' = [server EXCEPT ![p] = s + 1]
                   /\ pc' = [pc EXCEPT ![p] = "open"]
                   /\ UNCHANGED <<run, program, owner>>
    <2>1. /\ run' = run /\ program' = program
          /\ pc' \in [Preparers -> Labels]
          /\ owner' \in [Preparers -> Owners] /\ server' \in [Preparers -> Servers]
          /\ \/ s = 2 /\ pc'[p] = "cleanup"
             \/ s # 2 /\ pc'[p] = "open" /\ server'[p] = s + 1
        <3>1. CASE s = 2
            BY <1>2, <1>9, <3>1, GotoEffect DEF Labels
        <3>2. CASE s # 2
            <4>1. s + 1 \in Servers
                BY <1>2, <3>2 DEF Servers
            <4> QED
                BY <1>2, <1>9, <3>2, <4>1 DEF TypeOK, Labels
        <3> QED
            BY <3>1, <3>2
    <2>2. /\ temporary' \in [Servers -> Files] /\ input' \in [Servers -> Files]
          /\ \A t \in Servers : input'[t] = IF t = s THEN Whole(r) ELSE input[t]
        BY <1>2, <1>5, <1>9 DEF TypeOK
    <2>3. /\ \A t \in Servers : Exists(input'[t]) => input'[t] = Whole(r)
          /\ \A t \in Servers : Exists(input'[t]) <=> t < s + 1
        BY <1>2, <1>3, <1>5, <2>2 DEF Servers
    <2>4. TypeOK'
        BY <1>2, <1>5, <2>1, <2>2, <2>3 DEF TypeOK
    <2>5. s = 2 => \A t \in Servers : Exists(input'[t])
        BY <2>3 DEF Servers
    <2>6. OfLastRun'
        BY <1>1, <1>2, <1>3, <2>1, <2>3 DEF OfLastRun, r
    <2>7. InputsInOrder'
        BY <1>1, <2>1, <2>3, <2>5 DEF InputsInOrder
    <2>8. SegmentsWritten' /\ TemporaryOwn'
        BY <1>1, <1>2, <1>4, <2>1 DEF SegmentsWritten, TemporaryOwn, r
    <2> QED
        BY <1>1, <1>2, <2>1, <2>4, <2>6, <2>7, <2>8 DEF IInv, r
<1>10. CASE OpenTemporary(p)
    BY <1>6, <1>7, <1>10 DEF OpenTemporary, s, r
<1>11. CASE WriteTemporary(p)
    <2>1. pc[p] = "write" /\ temporary[s] = Partial(r)
        BY <1>11 DEF WriteTemporary, IInv, TemporaryOwn, s, r
    <2>2. \A o \in Owners : segment[program[p]][o][s] # Absent
        BY <1>2, <1>4
    <2>3. [o \in 0 .. OwnerCount |-> IF o = 0 THEN r ELSE segment[program[p]][o][s]]
              = [o \in 0 .. OwnerCount |-> r]
        BY <1>2, <1>4, PreparationAssumption DEF Owners
    <2>4. /\ temporary' = [temporary EXCEPT ![s] = Whole(r)] /\ input' = input
          /\ pc' = [pc EXCEPT ![p] = "rename"]
          /\ UNCHANGED <<run, program, owner, server>>
        BY <1>5, <1>11, <2>1, <2>2, <2>3 DEF WriteTemporary, Whole, s, r
    <2> QED
        BY <1>8, <2>1, <2>4
<1>12. CASE RenameTemporary(p)
    <2>1. pc[p] = "rename" /\ temporary[s] = Whole(r)
        BY <1>12 DEF RenameTemporary, IInv, TemporaryOwn, s, r
    <2> QED
        BY <1>5, <1>9, <1>12, <2>1 DEF RenameTemporary, s, r
<1> QED
    BY <1>10, <1>11, <1>12

(* What follows the renames, or an error, touches no input, and a manifest *)
(* is written only when all inputs are there.                              *)
LEMMA FinishKeeps ==
    ASSUME OnePreparer, IInv, NEW p \in Preparers,
           \/ CheckBound(p)
           \/ UnlinkSegments(p)
           \/ UnlinkTemporaries(p)
           \/ OpenManifest(p)
           \/ FillManifest(p)
    PROVE  IInv'
<1>1. \A q \in Preparers : q = p
    BY DEF OnePreparer
<1>2. /\ TypeOK /\ input' = input /\ runs' = runs
      /\ run[p] \in 0 .. MaxRuns /\ program[p] \in Programs
    BY DEF IInv, TypeOK, CheckBound, UnlinkSegments, UnlinkTemporaries, OpenManifest,
       FillManifest, files
<1>3. PICK label \in Labels : Goto(p, label)
    BY DEF CheckBound, UnlinkSegments, UnlinkTemporaries, OpenManifest, FillManifest,
       Labels
<1>4. /\ pc'[p] = label /\ run' = run /\ program' = program
      /\ owner'[p] = 1 /\ server'[p] = 0
      /\ pc' \in [Preparers -> Labels]
      /\ owner' \in [Preparers -> Owners] /\ server' \in [Preparers -> Servers]
    BY <1>2, <1>3, GotoEffect
<1>5. /\ Partial(run[p]) \in Files /\ Whole(run[p]) \in Files /\ NoFile \in Files
    BY <1>2, FileFacts
<1>6. CASE CheckBound(p)
    <2>1. pc[p] = "check" /\ pc'[p] = "open" /\ UNCHANGED <<segment, temporary, manifest>>
        BY <1>2, <1>6, GotoEffect DEF CheckBound, Labels, files
    <2>2. TypeOK'
        BY <1>2, <1>4, <2>1 DEF TypeOK
    <2>3. \A t \in Servers : ~(t < 0)
        BY DEF Servers
    <2>4. OfLastRun' /\ InputsInOrder' /\ SegmentsWritten' /\ TemporaryOwn'
        BY <1>1, <1>2, <1>4, <2>1, <2>3
           DEF IInv, OfLastRun, InputsInOrder, SegmentsWritten, TemporaryOwn
    <2> QED
        BY <1>1, <1>2, <1>4, <2>1, <2>2, <2>4 DEF IInv
<1>7. CASE UnlinkSegments(p) \/ UnlinkTemporaries(p)
    <2>1. /\ pc[p] \in {"cleanup", "failed", "unlink", "unlinkFailed"}
          /\ pc'[p] \in {"unlink", "unlinkFailed", "manifest", "idle"}
          /\ pc'[p] \in {"unlink", "manifest"} => pc[p] \in {"cleanup", "unlink"}
          /\ manifest' = manifest
        BY <1>2, <1>7, GotoEffect DEF UnlinkSegments, UnlinkTemporaries, Labels
    <2>2. /\ segment' \in [Programs -> [Owners -> [Servers -> 0 .. MaxRuns]]]
          /\ temporary' \in [Servers -> Files]
        <3>1. NoSegments \in [Owners -> [Servers -> 0 .. MaxRuns]]
            BY PreparationAssumption DEF NoSegments, Absent
        <3>2. CASE UnlinkSegments(p)
            BY <1>2, <3>1, <3>2 DEF UnlinkSegments, TypeOK
        <3>3. CASE UnlinkTemporaries(p)
            <4>1. temporary' = [s \in Servers |-> NoFile] /\ segment' = segment
                BY <3>3 DEF UnlinkTemporaries
            <4> QED
                BY <1>2, <1>5, <4>1 DEF TypeOK
        <3> QED
            BY <1>7, <3>2, <3>3
    <2>3. TypeOK'
        BY <1>2, <1>4, <2>1, <2>2 DEF TypeOK
    <2>4. OfLastRun' /\ InputsInOrder' /\ SegmentsWritten' /\ TemporaryOwn'
        BY <1>1, <1>2, <1>4, <2>1
           DEF IInv, OfLastRun, InputsInOrder, SegmentsWritten, TemporaryOwn
    <2> QED
        BY <1>1, <1>2, <1>4, <2>1, <2>3, <2>4 DEF IInv
<1>8. CASE OpenManifest(p) \/ FillManifest(p)
    <2>1. /\ pc[p] \in {"manifest", "fill"} /\ pc'[p] \in {"fill", "idle"}
          /\ UNCHANGED <<segment, temporary>>
        BY <1>2, <1>8, GotoEffect DEF OpenManifest, FillManifest, Labels
    <2>2. manifest' \in {Partial(run[p]), Whole(run[p])}
        BY <1>8 DEF OpenManifest, FillManifest, Whole
    <2>3. TypeOK'
        BY <1>2, <1>4, <1>5, <2>1, <2>2 DEF TypeOK
    <2>4. \A s \in Servers : Exists(input[s])
        BY <2>1 DEF IInv, InputsInOrder
    <2>5. OfLastRun'
        BY <1>1, <1>2, <1>4, <2>1, <2>2, <2>4 DEF IInv, OfLastRun
    <2>6. InputsInOrder' /\ SegmentsWritten' /\ TemporaryOwn'
        BY <1>1, <1>2, <2>1, <2>4 DEF InputsInOrder, SegmentsWritten, TemporaryOwn
    <2> QED
        BY <1>1, <1>2, <1>4, <2>1, <2>3, <2>5, <2>6 DEF IInv
<1> QED
    BY <1>6, <1>7, <1>8

-----------------------------------------------------------------------------
LEMMA StepKeeps ==
    ASSUME OnePreparer, IInv, [Next]_vars
    PROVE  IInv'
<1>1. ASSUME NEW p \in Preparers, NEW v \in Programs, Begin(p, v) PROVE IInv'
    BY <1>1, BeginKeeps
<1>2. ASSUME NEW p \in Preparers, DualStep(p) PROVE IInv'
    <2>1. CASE ReplaceSegment(p)
        <3>1. program[p] = "dual" /\ "dual" \in Programs
            BY <1>2 DEF DualStep, IInv, TypeOK
        <3> QED
            BY <2>1, <3>1, ReplaceKeeps DEF ReplaceSegment
    <2> QED
        BY <1>2, <2>1, AssemblyKeeps, FinishKeeps DEF DualStep, Assemble
<1>3. ASSUME NEW p \in Preparers, KgStep(p) PROVE IInv'
    <2>1. CASE ReplaceKgSegment(p)
        <3>1. program[p] = "kg" /\ "kg" \in Programs
            BY <1>3 DEF KgStep, IInv, TypeOK
        <3> QED
            BY <2>1, <3>1, ReplaceKeeps DEF ReplaceKgSegment
    <2> QED
        BY <1>3, <2>1, AssemblyKeeps, FinishKeeps DEF KgStep, Assemble
<1>4. ASSUME NEW p \in Preparers, Error(p) \/ Crash(p) PROVE IInv'
    BY <1>4, FaultKeeps
<1>5. CASE UNCHANGED vars
    BY <1>5 DEF vars, local, files, IInv, TypeOK, OfLastRun, InputsInOrder,
       SegmentsWritten, TemporaryOwn
<1> QED
    BY <1>1, <1>2, <1>3, <1>4, <1>5 DEF Next, Step

(* One preparer, however often it fails and starts again.                  *)
THEOREM Invariant ==
    ASSUME OnePreparer
    PROVE  Spec => []IInv
<1>1. IInv /\ [Next]_vars => IInv'
    BY StepKeeps
<1> QED
    BY <1>1, InitiallyInvariant, PTL DEF Spec

(* Control state and files keep their types, inputs are complete files.    *)
THEOREM TypeCorrect ==
    ASSUME OnePreparer
    PROVE  Spec => []TypeOK
<1>1. IInv => TypeOK
    BY DEF IInv
<1> QED
    BY <1>1, Invariant, PTL

(* Inputs that lie in the directory together come from one sharing.        *)
THEOREM OneSharing ==
    ASSUME OnePreparer, Preparers # {}
    PROVE  Spec => []InputsOfOneRun
<1>1. IInv => InputsOfOneRun
    <2> SUFFICES ASSUME IInv, NEW s \in Servers, NEW t \in Servers,
                        Exists(input[s]), Exists(input[t])
                 PROVE  input[s].parts = input[t].parts
        BY DEF InputsOfOneRun
    <2>1. PICK p \in Preparers : TRUE
        OBVIOUS
    <2> QED
        BY <2>1 DEF IInv, OfLastRun
<1> QED
    BY <1>1, Invariant, PTL

(* A complete manifest describes the three inputs that are there.          *)
THEOREM ManifestTrue ==
    ASSUME OnePreparer, Preparers # {}
    PROVE  Spec => []ManifestDescribesInputs
<1>1. IInv => ManifestDescribesInputs
    <2> SUFFICES ASSUME IInv, manifest.complete, NEW s \in Servers
                 PROVE  input[s].complete /\ input[s].parts = manifest.parts
        BY DEF ManifestDescribesInputs
    <2>1. PICK p \in Preparers : TRUE
        OBVIOUS
    <2>2. run[p] \in 0 .. MaxRuns
        BY DEF IInv, TypeOK
    <2>3. /\ Whole(run[p]).complete /\ ~Partial(run[p]).complete /\ ~NoFile.complete
        BY <2>2, FileFacts
    <2>4. Exists(manifest)
        BY <2>3 DEF Exists
    <2>5. manifest = Whole(run[p]) /\ input[s] = Whole(run[p])
        BY <2>3, <2>4 DEF IInv, OfLastRun
    <2> QED
        BY <2>3, <2>5
<1> QED
    BY <1>1, Invariant, PTL

(* An input that exists is never replaced.                                 *)
THEOREM InputsStand ==
    ASSUME OnePreparer
    PROVE  Spec => NoOverwrite
<1> DEFINE Stands == \A s \in Servers : Exists(input[s]) => input'[s] = input[s]
<1>1. IInv /\ [Next]_vars => [Stands]_vars
    <2> SUFFICES ASSUME IInv, NEW p \in Preparers,
                        \/ \E v \in Programs : Begin(p, v)
                        \/ Step(p)
                        \/ Error(p)
                        \/ Crash(p)
                 PROVE  Stands
        BY DEF Next
    <2>1. CASE RenameTemporary(p)
        <3>1. \A s \in Servers : Exists(input[s]) => s < server[p]
            BY <2>1 DEF RenameTemporary, IInv, InputsInOrder
        <3>2. \A s \in Servers : s # server[p] => input'[s] = input[s]
            BY <2>1 DEF RenameTemporary, IInv, TypeOK
        <3> QED
            BY <3>1, <3>2 DEF Servers
    <2>2. CASE input' = input
        BY <2>2
    <2> QED
        BY <2>1, <2>2 DEF Begin, Step, DualStep, KgStep, Assemble, Error, Crash,
           ReplaceSegment, ReplaceKgSegment, CheckBound, OpenTemporary, WriteTemporary,
           UnlinkSegments, UnlinkTemporaries, OpenManifest, FillManifest, files
<1> QED
    BY <1>1, Invariant, PTL DEF Spec, NoOverwrite
=============================================================================
