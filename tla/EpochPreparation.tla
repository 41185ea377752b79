-------------------------- MODULE EpochPreparation --------------------------
(***************************************************************************)
(* Preparing one epoch in an output directory.  A preparer refuses a       *)
(* directory that already holds an input, writes a fresh three-way sharing *)
(* of every owner into segment files, assembles for each server the        *)
(* segments and the query shares in a temporary file that it renames to    *)
(* the server's input, removes segments and temporaries, and writes the    *)
(* manifest last.                                                          *)
(*                                                                         *)
(* Two programs do that, for the dual and for the one-stack ORAM.  They    *)
(* use the same names for everything but the segments; only the dual one   *)
(* refuses a lone manifest and compares the federation with its bound.     *)
(*                                                                         *)
(* The names of all these files are fixed, so what a killed preparer left  *)
(* behind, or what another preparer is doing, meets this one.  The shares  *)
(* of one run add up to the data; shares of different runs add up to       *)
(* noise, so a file is described by the runs its parts come from.          *)
(***************************************************************************)
EXTENDS Integers, FiniteSets

CONSTANTS
    Preparers,    \* processes that may prepare the directory
    Programs,     \* what they run: "dual", "kg" or either
    OwnerCount,
    MaxRuns,      \* bound on the preparations started
    MaxFaults     \* bound on the preparers killed and on the errors met

ASSUME PreparationAssumption ==
    /\ Programs \subseteq {"dual", "kg"}
    /\ OwnerCount \in Nat \ {0}
    /\ {MaxRuns, MaxFaults} \subseteq Nat

Owners == 1 .. OwnerCount
Servers == 0 .. 2
Absent == 0

VARIABLES
    pc,         \* pc[p]: what preparer p does next
    run,        \* run[p]: the number of its run
    program,    \* program[p]: the program it runs
    owner,      \* owner[p], server[p]: where its loops are
    server,
    segment,    \* segment[v][o][s]: the run that wrote v's segment, or Absent
    temporary,  \* temporary[s]: the assembled file before its renaming
    input,      \* input[s]: the private input of server s
    manifest,   \* the manifest
    runs,       \* preparations started
    faults      \* kills and errors so far

local == <<pc, run, program, owner, server>>
files == <<segment, temporary, input, manifest>>
vars == <<local, files, runs, faults>>

NoParts == [o \in 0 .. OwnerCount |-> Absent]
NoFile == [by |-> Absent, parts |-> NoParts, complete |-> FALSE]

\* The file that holds owner o's part from parts[o], the queries as part 0.
Assembled(r, parts) == [by |-> r, parts |-> parts, complete |-> TRUE]
Partial(r) == [by |-> r, parts |-> NoParts, complete |-> FALSE]

Exists(file) == file # NoFile

NoSegments == [o \in Owners |-> [s \in Servers |-> Absent]]

Init ==
    /\ pc = [p \in Preparers |-> "idle"]
    /\ run = [p \in Preparers |-> Absent]
    /\ program \in [Preparers -> Programs]
    /\ owner = [p \in Preparers |-> 1]
    /\ server = [p \in Preparers |-> 0]
    /\ segment = [v \in Programs |-> NoSegments]
    /\ temporary = [s \in Servers |-> NoFile]
    /\ input = [s \in Servers |-> NoFile]
    /\ manifest = NoFile
    /\ runs = 0
    /\ faults = 0

Goto(p, label) ==
    /\ pc' = [pc EXCEPT ![p] = label]
    /\ owner' = [owner EXCEPT ![p] = 1]
    /\ server' = [server EXCEPT ![p] = 0]
    /\ UNCHANGED <<run, program>>

-----------------------------------------------------------------------------
\* Mutant: only the manifest protects a directory.
ProtectedByManifest(v) == Exists(manifest)

\* What the one-stack program refuses to overwrite.
InputExists == \E s \in Servers : Exists(input[s])

Protected(v) == InputExists \/ (v = "dual" /\ Exists(manifest))

Begin(p, v) ==
    /\ pc[p] = "idle"
    /\ runs < MaxRuns
    /\ ~Protected(v)
    /\ program' = [program EXCEPT ![p] = v]
    /\ runs' = runs + 1
    /\ run' = [run EXCEPT ![p] = runs']
    /\ pc' = [pc EXCEPT ![p] = "segments"]
    /\ UNCHANGED <<owner, server, files, faults>>

\* The next server, then the next owner, then the label.
NextSegment(p, label) ==
    IF server[p] < 2
    THEN /\ server' = [server EXCEPT ![p] = @ + 1]
         /\ UNCHANGED <<pc, run, program, owner>>
    ELSE IF owner[p] < OwnerCount
    THEN /\ server' = [server EXCEPT ![p] = 0]
         /\ owner' = [owner EXCEPT ![p] = @ + 1]
         /\ UNCHANGED <<pc, run, program>>
    ELSE Goto(p, label)

\* The three files of a sharing are complete before the first is renamed,
\* but they are renamed one at a time.
ReplaceSegment(p) ==
    /\ pc[p] = "segments"
    /\ segment' = [segment EXCEPT !["dual"][owner[p]][server[p]] = run[p]]
    /\ NextSegment(p, "check")
    /\ UNCHANGED <<temporary, input, manifest, runs, faults>>

ReplaceKgSegment(p) ==
    /\ pc[p] = "segments"
    /\ segment' = [segment EXCEPT !["kg"][owner[p]][server[p]] = run[p]]
    /\ NextSegment(p, "open")
    /\ UNCHANGED <<temporary, input, manifest, runs, faults>>

CheckBound(p) ==
    /\ pc[p] = "check"
    /\ Goto(p, "open")
    /\ UNCHANGED <<files, runs, faults>>

\* Mutant: the temporary gets its final name before it is written.
OpenAndRename(p) ==
    /\ pc[p] = "open"
    /\ IF Exists(temporary[server[p]])
       THEN UNCHANGED temporary /\ Goto(p, "failed")
       ELSE /\ temporary' = [temporary EXCEPT ![server[p]] = Partial(run[p])]
            /\ pc' = [pc EXCEPT ![p] = "rename"]
            /\ UNCHANGED <<run, program, owner, server>>
    /\ UNCHANGED <<segment, input, manifest, runs, faults>>

\* The temporary is created exclusively: one that is left over is an error.
OpenTemporary(p) ==
    /\ pc[p] = "open"
    /\ IF Exists(temporary[server[p]])
       THEN UNCHANGED temporary /\ Goto(p, "failed")
       ELSE /\ temporary' = [temporary EXCEPT ![server[p]] = Partial(run[p])]
            /\ pc' = [pc EXCEPT ![p] = "write"]
            /\ UNCHANGED <<run, program, owner, server>>
    /\ UNCHANGED <<segment, input, manifest, runs, faults>>

\* Segments and query shares are copied; a segment that is gone is an error.
\* A file that was unlinked meanwhile is written all the same, to no avail.
WriteTemporary(p) ==
    /\ pc[p] = "write"
    /\ LET s == server[p]
           own == segment[program[p]]
       IN  IF \E o \in Owners : own[o][s] = Absent
           THEN UNCHANGED temporary /\ Goto(p, "failed")
           ELSE /\ temporary' =
                     IF temporary[s].by = run[p]
                     THEN [temporary EXCEPT ![s] = Assembled(run[p],
                             [o \in 0 .. OwnerCount |->
                                IF o = 0 THEN run[p] ELSE own[o][s]])]
                     ELSE temporary
                /\ pc' = [pc EXCEPT ![p] = "rename"]
                /\ UNCHANGED <<run, program, owner, server>>
    /\ UNCHANGED <<segment, input, manifest, runs, faults>>

\* Whatever has the name of the temporary becomes the input.
RenameTemporary(p) ==
    /\ pc[p] = "rename"
    /\ LET s == server[p]
       IN  IF ~Exists(temporary[s])
           THEN UNCHANGED <<temporary, input>> /\ Goto(p, "failed")
           ELSE /\ input' = [input EXCEPT ![s] = temporary[s]]
                /\ temporary' = [temporary EXCEPT ![s] = NoFile]
                /\ IF s = 2
                   THEN Goto(p, "cleanup")
                   ELSE /\ server' = [server EXCEPT ![p] = @ + 1]
                        /\ pc' = [pc EXCEPT ![p] = "open"]
                        /\ UNCHANGED <<run, program, owner>>
    /\ UNCHANGED <<segment, manifest, runs, faults>>

\* The finally clause: the program's segments first, then temporaries, also
\* after an error.
UnlinkSegments(p) ==
    /\ pc[p] \in {"cleanup", "failed"}
    /\ segment' = [segment EXCEPT ![program[p]] = NoSegments]
    /\ Goto(p, IF pc[p] = "cleanup" THEN "unlink" ELSE "unlinkFailed")
    /\ UNCHANGED <<temporary, input, manifest, runs, faults>>

\* Mutant: the finally clause forgets the temporaries.
KeepTemporaries(p) ==
    /\ pc[p] \in {"unlink", "unlinkFailed"}
    /\ Goto(p, IF pc[p] = "unlink" THEN "manifest" ELSE "idle")
    /\ UNCHANGED <<files, runs, faults>>

\* Mutant: the error that brought the run here is swallowed.
UnlinkAndGoOn(p) ==
    /\ pc[p] \in {"unlink", "unlinkFailed"}
    /\ temporary' = [s \in Servers |-> NoFile]
    /\ Goto(p, "manifest")
    /\ UNCHANGED <<segment, input, manifest, runs, faults>>

UnlinkTemporaries(p) ==
    /\ pc[p] \in {"unlink", "unlinkFailed"}
    /\ temporary' = [s \in Servers |-> NoFile]
    /\ Goto(p, IF pc[p] = "unlink" THEN "manifest" ELSE "idle")
    /\ UNCHANGED <<segment, input, manifest, runs, faults>>

\* The manifest is written in place, after the sizes of the inputs are read.
OpenManifest(p) ==
    /\ pc[p] = "manifest"
    /\ manifest' = Partial(run[p])
    /\ Goto(p, "fill")
    /\ UNCHANGED <<segment, temporary, input, runs, faults>>

FillManifest(p) ==
    /\ pc[p] = "fill"
    /\ manifest' = Assembled(run[p], [o \in 0 .. OwnerCount |-> run[p]])
    /\ Goto(p, "idle")
    /\ UNCHANGED <<segment, temporary, input, runs, faults>>

\* An error, of the disk or of the bound check, runs the finally clause only
\* when it strikes during assembly; before, the segments stay.
Error(p) ==
    /\ pc[p] # "idle"
    /\ faults < MaxFaults
    /\ faults' = faults + 1
    /\ Goto(p, IF pc[p] \in {"open", "write", "rename"} THEN "failed" ELSE "idle")
    /\ UNCHANGED <<files, runs>>

\* A killed preparer cleans up nothing.
Crash(p) ==
    /\ pc[p] # "idle"
    /\ faults < MaxFaults
    /\ faults' = faults + 1
    /\ Goto(p, "idle")
    /\ UNCHANGED <<files, runs>>

Assemble(p) ==
    \/ OpenTemporary(p)
    \/ WriteTemporary(p)
    \/ RenameTemporary(p)
    \/ UnlinkSegments(p)
    \/ UnlinkTemporaries(p)
    \/ OpenManifest(p)
    \/ FillManifest(p)

DualStep(p) ==
    /\ program[p] = "dual"
    /\ ReplaceSegment(p) \/ CheckBound(p) \/ Assemble(p)

KgStep(p) ==
    /\ program[p] = "kg"
    /\ ReplaceKgSegment(p) \/ Assemble(p)

Step(p) == DualStep(p) \/ KgStep(p)

Next ==
    \E p \in Preparers :
        \/ \E v \in Programs : Begin(p, v)
        \/ Step(p)
        \/ Error(p)
        \/ Crash(p)

Spec == Init /\ [][Next]_vars

\* A preparation is a sequential program that never waits; the operator
\* starts it again as long as the directory is not refused.
FairSpec ==
    Spec /\ \A p \in Preparers :
                /\ WF_vars(Step(p))
                /\ WF_vars(\E v \in Programs : Begin(p, v))

-----------------------------------------------------------------------------
Labels == {"idle", "segments", "check", "open", "write", "rename", "cleanup",
           "failed", "unlink", "unlinkFailed", "manifest", "fill"}

Files == [by : 0 .. MaxRuns, parts : [0 .. OwnerCount -> 0 .. MaxRuns],
          complete : BOOLEAN]

(* Control state and file descriptions keep their types, and an input is   *)
(* only ever a completely assembled file.                                  *)
TypeOK ==
    /\ pc \in [Preparers -> Labels]
    /\ run \in [Preparers -> 0 .. MaxRuns]
    /\ program \in [Preparers -> Programs]
    /\ owner \in [Preparers -> Owners]
    /\ server \in [Preparers -> Servers]
    /\ segment \in [Programs -> [Owners -> [Servers -> 0 .. MaxRuns]]]
    /\ temporary \in [Servers -> Files]
    /\ input \in [Servers -> Files]
    /\ \A s \in Servers : Exists(input[s]) => input[s].complete
    /\ manifest \in Files

(* A directory with a complete manifest can be run: all three inputs are   *)
(* there, every part of every input comes from the preparation that wrote  *)
(* the manifest, so the servers' shares add up to the data.  Preparers     *)
(* killed anywhere before, and what they left behind, do not change that.  *)
ManifestDescribesInputs ==
    manifest.complete =>
        \A s \in Servers :
            /\ input[s].complete
            /\ input[s].parts = manifest.parts

(* Inputs that lie in a directory together come from one sharing, with or  *)
(* without a manifest: a retry never completes a half-renamed set.         *)
InputsOfOneRun ==
    \A s, t \in Servers :
        Exists(input[s]) /\ Exists(input[t]) => input[s].parts = input[t].parts

(* An input that exists is never replaced ("refusing to overwrite an       *)
(* existing dual-ORAM epoch").                                             *)
NoOverwrite ==
    [][\A s \in Servers : Exists(input[s]) => input'[s] = input[s]]_vars

(* With valid data and an operator who retries, leftovers of killed runs   *)
(* do not block the directory for good: a left-over temporary fails one    *)
(* retry, which removes it.  The directory ends up with an input of some   *)
(* run, complete or, when that run was killed between its renames, refused *)
(* from then on.                                                           *)
RetriesRecover == <>(\E s \in Servers : Exists(input[s]))
=============================================================================
