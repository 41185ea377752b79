----------------------------- MODULE EpochRunner -----------------------------
(***************************************************************************)
(* Running one prepared epoch of a recursive-ORAM program on MP-SPDZ.      *)
(*                                                                         *)
(* A runner compiles the program, copies the three private inputs of the   *)
(* epoch into the Player-Data directory of the MP-SPDZ home, marks the     *)
(* epoch consumed on each of the three servers by creating a marker file   *)
(* exclusively, clears old output logs, runs the protocol and returns the  *)
(* three logs.  Player-Data and the logs belong to the home, not to the    *)
(* epoch, so runners that use one home share them; the markers belong to   *)
(* the instance, whatever home it is run from.  A runner can fail or be    *)
(* killed between any two of these steps.                                  *)
(*                                                                         *)
(* Variant "dual" is the relation-paged runner, which consumes before it   *)
(* clears the logs; variant "kg" is the runner of the one-stack program,   *)
(* which clears first.                                                     *)
(***************************************************************************)
EXTENDS Integers, FiniteSets

CONSTANTS
    Runners,     \* processes that may run at the same time
    HomeOf,      \* HomeOf[r]: the MP-SPDZ home runner r uses
    Epochs,      \* prepared instances, one epoch each
    Variant,     \* "dual" or "kg"
    MaxRuns      \* bound on the runs started

ASSUME RunnerAssumption ==
    /\ Variant \in {"dual", "kg"}
    /\ MaxRuns \in Nat
    /\ "none" \notin Epochs

Homes == {HomeOf[r] : r \in Runners}
Servers == 0 .. 2
NoRun == 0
Runs == 1 .. MaxRuns
NoEpoch == "none"
NoLog == [run |-> NoRun, done |-> FALSE]

VARIABLES
    pc,          \* pc[r]: what runner r does next
    server,      \* server[r]: the server its current loop has reached
    epoch,       \* epoch[r]: the instance it was started on
    run,         \* run[r]: the number of its run
    started,     \* runs started so far
    compiled,    \* runs whose program was compiled
    playerData,  \* playerData[h][s]: the epoch whose shares lie in home h
    markers,     \* markers[e][s]: the run that created the marker, or NoRun
    logs,        \* logs[h][s]: the run that wrote the log of server s
    executions,  \* every protocol execution, with the shares it read
    returned     \* every run that returned, with the logs it returned

local == <<pc, server, epoch, run>>
vars == <<pc, server, epoch, run, started, compiled, playerData, markers,
          logs, executions, returned>>

Init ==
    /\ pc = [r \in Runners |-> "idle"]
    /\ server = [r \in Runners |-> 0]
    /\ epoch = [r \in Runners |-> NoEpoch]
    /\ run = [r \in Runners |-> NoRun]
    /\ started = 0
    /\ compiled = {}
    /\ playerData = [h \in Homes |-> [s \in Servers |-> NoEpoch]]
    /\ markers = [e \in Epochs |-> [s \in Servers |-> NoRun]]
    /\ logs = [h \in Homes |-> [s \in Servers |-> NoLog]]
    /\ executions = {}
    /\ returned = {}

Goto(r, label) ==
    /\ pc' = [pc EXCEPT ![r] = label]
    /\ server' = [server EXCEPT ![r] = 0]
    /\ UNCHANGED <<epoch, run>>

\* Mutant: the loop runs over one server too many.
NextServerOfFour(r, label) ==
    IF server[r] = 3
    THEN Goto(r, label)
    ELSE /\ server' = [server EXCEPT ![r] = @ + 1]
         /\ UNCHANGED <<pc, epoch, run>>

\* One turn of a loop over the servers; the last one leads to the label.
NextServer(r, label) ==
    IF server[r] = 2
    THEN Goto(r, label)
    ELSE /\ server' = [server EXCEPT ![r] = @ + 1]
         /\ UNCHANGED <<pc, epoch, run>>

\* The runner returns or is gone, and its locals with it.
Leave(r) ==
    /\ pc' = [pc EXCEPT ![r] = "idle"]
    /\ server' = [server EXCEPT ![r] = 0]
    /\ epoch' = [epoch EXCEPT ![r] = NoEpoch]
    /\ run' = [run EXCEPT ![r] = NoRun]

-----------------------------------------------------------------------------
\* Manifest, shape, program name and input sizes of a prepared instance match.
Start(r, e) ==
    /\ pc[r] = "idle"
    /\ started < MaxRuns
    /\ started' = started + 1
    /\ run' = [run EXCEPT ![r] = started']
    /\ epoch' = [epoch EXCEPT ![r] = e]
    /\ pc' = [pc EXCEPT ![r] = "compile"]
    /\ server' = [server EXCEPT ![r] = 0]
    /\ UNCHANGED <<compiled, playerData, markers, logs, executions, returned>>

\* Mutant: the exit status of the compiler is ignored.
CompileUnchecked(r) ==
    /\ pc[r] = "compile"
    /\ \/ compiled' = compiled \cup {run[r]}
       \/ UNCHANGED compiled
    /\ Goto(r, "copy")
    /\ UNCHANGED <<started, playerData, markers, logs, executions, returned>>

Compile(r) ==
    /\ pc[r] = "compile"
    /\ \/ compiled' = compiled \cup {run[r]} /\ Goto(r, "copy")
       \/ UNCHANGED compiled /\ Leave(r)
    /\ UNCHANGED <<started, playerData, markers, logs, executions, returned>>

\* Mutant: an input that is already there is kept.
CopyMissingInput(r) ==
    /\ pc[r] = "copy"
    /\ playerData' = [playerData EXCEPT ![HomeOf[r]][server[r]] =
                         IF @ = NoEpoch THEN epoch[r] ELSE @]
    /\ NextServer(r, IF Variant = "kg" THEN "clear" ELSE "consume")
    /\ UNCHANGED <<started, compiled, markers, logs, executions, returned>>

\* Mutant: the relation-paged runner clears the logs before it consumes.
CopyThenClear(r) ==
    /\ pc[r] = "copy"
    /\ playerData' = [playerData EXCEPT ![HomeOf[r]][server[r]] = epoch[r]]
    /\ NextServer(r, "clear")
    /\ UNCHANGED <<started, compiled, markers, logs, executions, returned>>

CopyInput(r) ==
    /\ pc[r] = "copy"
    /\ playerData' = [playerData EXCEPT ![HomeOf[r]][server[r]] = epoch[r]]
    /\ NextServer(r, IF Variant = "kg" THEN "clear" ELSE "consume")
    /\ UNCHANGED <<started, compiled, markers, logs, executions, returned>>

\* Mutant: a marker that exists is overwritten.
OverwriteMarker(r) ==
    /\ pc[r] = "consume"
    /\ markers' = [markers EXCEPT ![epoch[r]][server[r]] = run[r]]
    /\ pc' = [pc EXCEPT ![r] = "write"]
    /\ UNCHANGED <<server, epoch, run, started, compiled, playerData, logs,
                   executions, returned>>

\* Exclusive creation of a marker file: whoever comes second fails.
CreateMarker(r) ==
    /\ pc[r] = "consume"
    /\ IF markers[epoch[r]][server[r]] = NoRun
       THEN /\ markers' = [markers EXCEPT ![epoch[r]][server[r]] = run[r]]
            /\ pc' = [pc EXCEPT ![r] = "write"]
            /\ UNCHANGED <<server, epoch, run>>
       ELSE UNCHANGED markers /\ Leave(r)
    /\ UNCHANGED <<started, compiled, playerData, logs, executions, returned>>

\* The marker is written and synced, or removed again when that fails; the
\* markers of the servers before it stay.
WriteMarker(r) ==
    /\ pc[r] = "write"
    /\ \/ /\ IF server[r] = 2
             THEN Goto(r, IF Variant = "kg" THEN "launch" ELSE "clear")
             ELSE /\ server' = [server EXCEPT ![r] = @ + 1]
                  /\ pc' = [pc EXCEPT ![r] = "consume"]
                  /\ UNCHANGED <<epoch, run>>
          /\ UNCHANGED markers
       \/ /\ markers' = [markers EXCEPT ![epoch[r]][server[r]] = NoRun]
          /\ Leave(r)
    /\ UNCHANGED <<started, compiled, playerData, logs, executions, returned>>

ClearLog(r) ==
    /\ pc[r] = "clear"
    /\ logs' = [logs EXCEPT ![HomeOf[r]][server[r]] = NoLog]
    /\ NextServer(r, IF Variant = "kg" THEN "consume" ELSE "launch")
    /\ UNCHANGED <<started, compiled, playerData, markers, executions, returned>>

\* The three parties start: each opens its log and reads its input.
Launch(r) ==
    /\ pc[r] = "launch"
    /\ executions' = executions \cup
          {[run |-> run[r], epoch |-> epoch[r], inputs |-> playerData[HomeOf[r]]]}
    /\ logs' = [logs EXCEPT ![HomeOf[r]] =
                   [s \in Servers |-> [run |-> run[r], done |-> FALSE]]]
    /\ Goto(r, "protocol")
    /\ UNCHANGED <<started, compiled, playerData, markers, returned>>

\* The parties of a run finish the logs that are still theirs.
FinishLogs(r) ==
    logs' = [logs EXCEPT ![HomeOf[r]] =
               [s \in Servers |-> IF @[s].run = run[r]
                                  THEN [@[s] EXCEPT !.done = TRUE]
                                  ELSE @[s]]]

\* Mutant: the exit status of the protocol is ignored.
ProtocolUnchecked(r) ==
    /\ pc[r] = "protocol"
    /\ FinishLogs(r) \/ UNCHANGED logs
    /\ Goto(r, "collect")
    /\ UNCHANGED <<started, compiled, playerData, markers, executions, returned>>

\* The protocol ends, or fails leaving its logs as they are.
Protocol(r) ==
    /\ pc[r] = "protocol"
    /\ \/ FinishLogs(r) /\ Goto(r, "collect")
       \/ UNCHANGED logs /\ Leave(r)
    /\ UNCHANGED <<started, compiled, playerData, markers, executions, returned>>

\* The runner returns the three logs when all of them exist.
Collect(r) ==
    /\ pc[r] = "collect"
    /\ IF \A s \in Servers : logs[HomeOf[r]][s] # NoLog
       THEN returned' = returned \cup {[run |-> run[r], logs |-> logs[HomeOf[r]]]}
       ELSE UNCHANGED returned
    /\ Leave(r)
    /\ UNCHANGED <<started, compiled, playerData, markers, logs, executions>>

\* The runner is killed: nothing it left behind is cleaned up.
Crash(r) ==
    /\ pc[r] # "idle"
    /\ Leave(r)
    /\ UNCHANGED <<started, compiled, playerData, markers, logs, executions,
                   returned>>

\* Where a runner waits for another program, which may never end.
Waiting == {"compile", "protocol"}

\* Mutant: the protocol is started without a timeout.
TimeOutOfCompiler(r) ==
    /\ pc[r] = "compile"
    /\ Leave(r)
    /\ UNCHANGED <<started, compiled, playerData, markers, logs, executions,
                   returned>>

\* The runner has waited too long: it kills the child process and fails.
TimeOut(r) ==
    /\ pc[r] \in Waiting
    /\ Leave(r)
    /\ UNCHANGED <<started, compiled, playerData, markers, logs, executions,
                   returned>>

Step(r) ==
    \/ Compile(r)
    \/ CopyInput(r)
    \/ CreateMarker(r)
    \/ WriteMarker(r)
    \/ ClearLog(r)
    \/ Launch(r)
    \/ Protocol(r)
    \/ Collect(r)

Next ==
    \E r \in Runners :
        \/ \E e \in Epochs : Start(r, e)
        \/ Step(r)
        \/ TimeOut(r)
        \/ Crash(r)

Spec == Init /\ [][Next]_vars

\* A runner goes on with its own files, and a timeout fires.  The compiler
\* owes nobody an end, and neither do the parties, which wait for each other.
FairSpec ==
    /\ Spec
    /\ \A r \in Runners :
           /\ WF_vars(pc[r] \notin Waiting /\ Step(r))
           /\ WF_vars(TimeOut(r))

-----------------------------------------------------------------------------
Logs == [run : 0 .. MaxRuns, done : BOOLEAN]

Labels == {"idle", "compile", "copy", "consume", "write", "clear", "launch",
           "protocol", "collect"}

(* The runners' control state and the files of the home keep their types.  *)
TypeOK ==
    /\ pc \in [Runners -> Labels]
    /\ server \in [Runners -> Servers]
    /\ epoch \in [Runners -> Epochs \cup {NoEpoch}]
    /\ \A r \in Runners : pc[r] # "idle" => run[r] # NoRun /\ epoch[r] # NoEpoch
    /\ run \in [Runners -> 0 .. MaxRuns]
    /\ started \in 0 .. MaxRuns
    /\ compiled \subseteq Runs
    /\ playerData \in [Homes -> [Servers -> Epochs \cup {NoEpoch}]]
    /\ markers \in [Epochs -> [Servers -> 0 .. MaxRuns]]
    /\ logs \in [Homes -> [Servers -> Logs]]

(* An epoch is executed by at most one run, and that run created all three *)
(* of its markers: crashes, failed marker writes, replays and runners that *)
(* race for the epoch included.  A run that lost its way between two       *)
(* markers burns the epoch, it never opens it to a second run.             *)
EpochOnce ==
    \A x \in executions :
        /\ \A s \in Servers : markers[x.epoch][s] = x.run
        /\ \A y \in executions : x.epoch = y.epoch => x = y

(* A program that does not compile leaves the epoch usable: no marker is   *)
(* created before the run that creates it has compiled its program.        *)
ConsumedIsCompiled ==
    \A e \in Epochs, s \in Servers :
        markers[e][s] # NoRun => markers[e][s] \in compiled

(* No two executions read the same shares: what an execution finds in      *)
(* Player-Data is the epoch it consumed, on all three servers.             *)
SharesUsedOnce ==
    \A x, y \in executions :
        x # y => {x.inputs[s] : s \in Servers} \cap
                 {y.inputs[s] : s \in Servers} = {}

(* A run that returns hands out the logs of its own execution, finished.   *)
LogsAreOwn ==
    \A x \in returned :
        \A s \in Servers : x.logs[s] = [run |-> x.run, done |-> TRUE]

Holds(r) == \A s \in Servers : markers[epoch[r]][s] = run[r]

(* A finished log disappears only by the hand of a run that holds its own  *)
(* epoch on all three servers: a replay fails without touching it.         *)
EvidenceSurvivesReplay ==
    [][\A h \in Homes, s \in Servers :
          logs[h][s].done /\ logs'[h][s] # logs[h][s] =>
              \E r \in Runners :
                  /\ HomeOf[r] = h
                  /\ pc[r] \in {"clear", "launch"}
                  /\ Holds(r)]_vars

(* A run that was started ends, even if the compiler or a party hangs: no  *)
(* wait of a runner is without a timeout (run_relation_paged_oram_mpspdz). *)
RunEnds == \A r \in Runners : pc[r] # "idle" ~> pc[r] = "idle"
=============================================================================
