--------------------------- MODULE EpochRunner_proofs ---------------------------
(***************************************************************************)
(* Proofs that an epoch is executed by one run, whichever runners race for *)
(* it on whichever homes, and that no marker precedes its compilation, for *)
(* any runners, homes, epochs and runs and for both runners of the code.   *)
(***************************************************************************)
EXTENDS EpochRunner, TLAPS

Unlaunched == {"compile", "copy", "consume", "write", "clear", "launch"}

\* Runs are numbered once: runners that are busy have runs of their own, and
\* no execution is known of a run that has not launched.
RunsDistinct ==
    /\ \A r \in Runners : pc[r] # "idle" => run[r] \in 1 .. started
    /\ \A r, q \in Runners :
           pc[r] # "idle" /\ pc[q] # "idle" /\ r # q => run[r] # run[q]
    /\ \A x \in executions : x.run \in 1 .. started /\ x.epoch \in Epochs
    /\ \A r \in Runners : pc[r] \in Unlaunched =>
           \A x \in executions : x.run # run[r]

\* The markers a runner has created are still there and name its run.
MarkersHeld ==
    \A r \in Runners :
        /\ pc[r] = "consume" => \A s \in Servers :
               s < server[r] => markers[epoch[r]][s] = run[r]
        /\ pc[r] = "write" => \A s \in Servers :
               s <= server[r] => markers[epoch[r]][s] = run[r]
        /\ (pc[r] = "launch" \/ (pc[r] = "clear" /\ Variant = "dual")) =>
               \A s \in Servers : markers[epoch[r]][s] = run[r]

\* Past the compiler a run has compiled, and only such runs left markers.
CompiledFirst ==
    /\ \A r \in Runners : pc[r] \notin {"idle", "compile"} => run[r] \in compiled
    /\ ConsumedIsCompiled

IInv ==
    /\ TypeOK
    /\ RunsDistinct
    /\ MarkersHeld
    /\ EpochOnce
    /\ CompiledFirst

-----------------------------------------------------------------------------
(* Nothing has been marked, compiled or executed at the start.             *)
LEMMA InitiallyInvariant == Init => IInv
<1> SUFFICES ASSUME Init PROVE IInv
    OBVIOUS
<1>1. TypeOK
    <2>1. 0 \in 0 .. MaxRuns /\ 0 \in Servers
        BY RunnerAssumption DEF Servers
    <2>2. NoLog \in Logs
        BY <2>1 DEF NoLog, Logs, NoRun
    <2> QED
        BY <2>1, <2>2 DEF Init, TypeOK, NoRun, Labels
<1>2. RunsDistinct /\ MarkersHeld
    BY DEF Init, RunsDistinct, MarkersHeld, Unlaunched
<1>3. EpochOnce
    BY DEF Init, EpochOnce
<1>4. CompiledFirst
    BY DEF Init, CompiledFirst, ConsumedIsCompiled
<1> QED
    BY <1>1, <1>2, <1>3, <1>4 DEF IInv

(* A runner that returns or dies leaves the others and the files alone.    *)
LEMMA LeaveEffect ==
    ASSUME TypeOK, NEW r \in Runners, Leave(r)
    PROVE  /\ \A q \in Runners :
                  /\ pc'[q] = IF q = r THEN "idle" ELSE pc[q]
                  /\ server'[q] = IF q = r THEN 0 ELSE server[q]
                  /\ epoch'[q] = IF q = r THEN NoEpoch ELSE epoch[q]
                  /\ run'[q] = IF q = r THEN NoRun ELSE run[q]
           /\ pc' \in [Runners -> Labels]
           /\ server' \in [Runners -> Servers]
           /\ epoch' \in [Runners -> Epochs \cup {NoEpoch}]
           /\ run' \in [Runners -> 0 .. MaxRuns]
           /\ \A q \in Runners : pc'[q] # "idle" => run'[q] # NoRun /\ epoch'[q] # NoEpoch
BY RunnerAssumption DEF TypeOK, Leave, Labels, Servers, NoRun

LEMMA GotoEffect ==
    ASSUME TypeOK, NEW r \in Runners, NEW label \in Labels \ {"idle"},
           pc[r] # "idle", Goto(r, label)
    PROVE  /\ \A q \in Runners :
                  /\ pc'[q] = IF q = r THEN label ELSE pc[q]
                  /\ server'[q] = IF q = r THEN 0 ELSE server[q]
           /\ run' = run /\ epoch' = epoch
           /\ pc' \in [Runners -> Labels]
           /\ server' \in [Runners -> Servers]
           /\ \A q \in Runners : pc'[q] # "idle" => run'[q] # NoRun /\ epoch'[q] # NoEpoch
BY DEF TypeOK, Goto, Servers

LEMMA NextServerEffect ==
    ASSUME TypeOK, NEW r \in Runners, NEW label \in Labels \ {"idle"},
           pc[r] # "idle", NextServer(r, label)
    PROVE  /\ \/ /\ server[r] = 2
                 /\ \A q \in Runners :
                        /\ pc'[q] = IF q = r THEN label ELSE pc[q]
                        /\ server'[q] = IF q = r THEN 0 ELSE server[q]
              \/ /\ server[r] # 2
                 /\ pc' = pc
                 /\ \A q \in Runners :
                        server'[q] = IF q = r THEN server[q] + 1 ELSE server[q]
           /\ run' = run /\ epoch' = epoch
           /\ pc' \in [Runners -> Labels]
           /\ server' \in [Runners -> Servers]
           /\ \A q \in Runners : pc'[q] # "idle" => run'[q] # NoRun /\ epoch'[q] # NoEpoch
<1>1. CASE server[r] = 2
    BY <1>1, GotoEffect DEF NextServer
<1>2. CASE server[r] # 2
    BY <1>2 DEF TypeOK, NextServer, Servers
<1> QED
    BY <1>1, <1>2

-----------------------------------------------------------------------------
(* Leaving, alone, keeps the invariant: what was created stays created.    *)
LEMMA LeaveKeeps ==
    ASSUME IInv, NEW r \in Runners, Leave(r),
           UNCHANGED <<started, compiled, playerData, markers, executions>>,
           logs' \in [Homes -> [Servers -> Logs]]
    PROVE  IInv'
<1> USE DEF IInv
<1>1. TypeOK'
    BY LeaveEffect DEF TypeOK
<1>2. RunsDistinct'
    BY LeaveEffect DEF RunsDistinct, Unlaunched
<1>3. MarkersHeld'
    BY LeaveEffect DEF MarkersHeld, Holds
<1>4. EpochOnce'
    BY DEF EpochOnce
<1>5. CompiledFirst'
    BY LeaveEffect DEF CompiledFirst, ConsumedIsCompiled
<1> QED
    BY <1>1, <1>2, <1>3, <1>4, <1>5

(* A new run has the next number, which no marker and no execution has.    *)
LEMMA StartKeeps ==
    ASSUME IInv, NEW r \in Runners, NEW e \in Epochs, Start(r, e)
    PROVE  IInv'
<1> USE DEF IInv
<1>1. /\ started \in Nat /\ started' = started + 1 /\ started' \in 0 .. MaxRuns
      /\ pc[r] = "idle"
    BY RunnerAssumption DEF Start, TypeOK
<1>2. \A q \in Runners :
          /\ pc'[q] = IF q = r THEN "compile" ELSE pc[q]
          /\ server'[q] = IF q = r THEN 0 ELSE server[q]
          /\ epoch'[q] = IF q = r THEN e ELSE epoch[q]
          /\ run'[q] = IF q = r THEN started + 1 ELSE run[q]
    BY DEF Start, TypeOK
<1>3. TypeOK'
    <2>1. pc' \in [Runners -> Labels] /\ server' \in [Runners -> Servers]
        BY DEF Start, TypeOK, Labels, Servers
    <2>2. epoch' \in [Runners -> Epochs \cup {NoEpoch}]
        BY DEF Start, TypeOK
    <2>3. run' \in [Runners -> 0 .. MaxRuns]
        BY <1>1 DEF Start, TypeOK
    <2>4. \A q \in Runners : pc'[q] # "idle" => run'[q] # NoRun /\ epoch'[q] # NoEpoch
        BY <1>1, <1>2, RunnerAssumption DEF TypeOK, NoRun, NoEpoch
    <2> QED
        BY <1>1, <2>1, <2>2, <2>3, <2>4 DEF Start, TypeOK
<1>4. RunsDistinct'
    BY <1>1, <1>2 DEF RunsDistinct, Start, Unlaunched
<1>5. MarkersHeld'
    BY <1>2 DEF MarkersHeld, Holds, Start
<1>6. EpochOnce'
    BY DEF EpochOnce, Start
<1>7. CompiledFirst'
    BY <1>2 DEF CompiledFirst, ConsumedIsCompiled, Start
<1> QED
    BY <1>3, <1>4, <1>5, <1>6, <1>7

LEMMA CompileKeeps ==
    ASSUME IInv, NEW r \in Runners, Compile(r)
    PROVE  IInv'
<1> USE DEF IInv
<1>1. CASE UNCHANGED compiled /\ Leave(r)
    BY <1>1, LeaveKeeps DEF Compile, TypeOK
<1>2. CASE compiled' = compiled \cup {run[r]} /\ Goto(r, "copy")
    <2>1. pc[r] = "compile" /\ run[r] \in Runs
        BY RunnerAssumption DEF Compile, TypeOK, NoRun, Runs
    <2>2. /\ \A q \in Runners : /\ pc'[q] = IF q = r THEN "copy" ELSE pc[q]
                                /\ server'[q] = IF q = r THEN 0 ELSE server[q]
          /\ run' = run /\ epoch' = epoch
          /\ pc' \in [Runners -> Labels] /\ server' \in [Runners -> Servers]
          /\ \A q \in Runners : pc'[q] # "idle" => run'[q] # NoRun /\ epoch'[q] # NoEpoch
        BY <1>2, <2>1, GotoEffect DEF Labels
    <2>3. TypeOK'
        BY <1>2, <2>1, <2>2 DEF TypeOK, Compile
    <2>4. RunsDistinct'
        BY <2>1, <2>2 DEF RunsDistinct, Unlaunched, Compile
    <2>5. MarkersHeld' /\ EpochOnce'
        BY <2>2 DEF MarkersHeld, Holds, EpochOnce, Compile
    <2>6. CompiledFirst'
        BY <1>2, <2>2 DEF CompiledFirst, ConsumedIsCompiled, Compile
    <2> QED
        BY <2>3, <2>4, <2>5, <2>6
<1> QED
    BY <1>1, <1>2 DEF Compile

LEMMA CopyInputKeeps ==
    ASSUME IInv, NEW r \in Runners, CopyInput(r)
    PROVE  IInv'
<1> USE DEF IInv
<1> DEFINE label == IF Variant = "kg" THEN "clear" ELSE "consume"
<1>1. pc[r] = "copy" /\ label \in Labels \ {"idle"} /\ NextServer(r, label)
    BY DEF CopyInput, Labels
<1>2. /\ \A q \in Runners : q # r => pc'[q] = pc[q] /\ server'[q] = server[q]
      /\ \/ pc'[r] = label /\ server'[r] = 0
         \/ pc'[r] = "copy"
      /\ run' = run /\ epoch' = epoch
      /\ pc' \in [Runners -> Labels] /\ server' \in [Runners -> Servers]
      /\ \A q \in Runners : pc'[q] # "idle" => run'[q] # NoRun /\ epoch'[q] # NoEpoch
    BY <1>1, NextServerEffect
<1>3. playerData' \in [Homes -> [Servers -> Epochs \cup {NoEpoch}]]
    BY DEF CopyInput, TypeOK
<1>4. TypeOK'
    BY <1>2, <1>3 DEF TypeOK, CopyInput
<1>5. RunsDistinct'
    BY <1>1, <1>2 DEF RunsDistinct, Unlaunched, CopyInput
<1>6. MarkersHeld'
    BY <1>2 DEF MarkersHeld, Holds, CopyInput, Servers
<1>7. EpochOnce' /\ CompiledFirst'
    BY <1>1, <1>2 DEF EpochOnce, CompiledFirst, ConsumedIsCompiled, CopyInput
<1> QED
    BY <1>4, <1>5, <1>6, <1>7

LEMMA ClearLogKeeps ==
    ASSUME IInv, NEW r \in Runners, ClearLog(r)
    PROVE  IInv'
<1> USE DEF IInv
<1> DEFINE label == IF Variant = "kg" THEN "consume" ELSE "launch"
<1>1. pc[r] = "clear" /\ label \in Labels \ {"idle"} /\ NextServer(r, label)
    BY DEF ClearLog, Labels
<1>2. /\ \A q \in Runners : q # r => pc'[q] = pc[q] /\ server'[q] = server[q]
      /\ \/ pc'[r] = label /\ server'[r] = 0
         \/ pc'[r] = "clear"
      /\ run' = run /\ epoch' = epoch
      /\ pc' \in [Runners -> Labels] /\ server' \in [Runners -> Servers]
      /\ \A q \in Runners : pc'[q] # "idle" => run'[q] # NoRun /\ epoch'[q] # NoEpoch
    BY <1>1, NextServerEffect
<1>3. logs' \in [Homes -> [Servers -> Logs]]
    <2>1. NoLog \in Logs
        BY RunnerAssumption DEF NoLog, Logs, NoRun
    <2> QED
        BY <2>1 DEF ClearLog, TypeOK
<1>4. TypeOK'
    BY <1>2, <1>3 DEF TypeOK, ClearLog
<1>5. RunsDistinct'
    BY <1>1, <1>2 DEF RunsDistinct, Unlaunched, ClearLog
<1>6. MarkersHeld'
    BY <1>1, <1>2, RunnerAssumption DEF MarkersHeld, Holds, ClearLog, Servers
<1>7. EpochOnce' /\ CompiledFirst'
    BY <1>1, <1>2 DEF EpochOnce, CompiledFirst, ConsumedIsCompiled, ClearLog
<1> QED
    BY <1>4, <1>5, <1>6, <1>7

(* A marker is created only where there is none, so nobody loses one.      *)
LEMMA CreateMarkerKeeps ==
    ASSUME IInv, NEW r \in Runners, CreateMarker(r)
    PROVE  IInv'
<1> USE DEF IInv
<1>1. CASE UNCHANGED markers /\ Leave(r)
    BY <1>1, LeaveKeeps DEF CreateMarker, TypeOK
<1>2. CASE /\ markers[epoch[r]][server[r]] = NoRun
           /\ markers' = [markers EXCEPT ![epoch[r]][server[r]] = run[r]]
           /\ pc' = [pc EXCEPT ![r] = "write"]
           /\ UNCHANGED <<server, epoch, run>>
    <2>1. /\ pc[r] = "consume" /\ epoch[r] \in Epochs /\ server[r] \in Servers
          /\ run[r] \in 1 .. MaxRuns
        BY RunnerAssumption DEF CreateMarker, TypeOK, NoRun
    <2>2. \A e \in Epochs, s \in Servers : markers'[e][s] =
              IF e = epoch[r] /\ s = server[r] THEN run[r] ELSE markers[e][s]
        BY <1>2, <2>1 DEF TypeOK
    <2>3. \A q \in Runners : pc'[q] = IF q = r THEN "write" ELSE pc[q]
        BY <1>2 DEF TypeOK
    <2>4. TypeOK'
        <3>1. pc' \in [Runners -> Labels]
            BY <1>2 DEF TypeOK, Labels
        <3>2. markers' \in [Epochs -> [Servers -> 0 .. MaxRuns]]
            BY <1>2, <2>1 DEF TypeOK
        <3> QED
            BY <1>2, <2>1, <2>3, <3>1, <3>2 DEF TypeOK, CreateMarker
    <2>5. RunsDistinct'
        BY <1>2, <2>1, <2>3 DEF RunsDistinct, Unlaunched, CreateMarker
    <2>6. \A q \in Runners : pc[q] # "idle" => run[q] # NoRun /\ epoch[q] \in Epochs
        BY DEF TypeOK
    <2>7. \A e \in Epochs, s \in Servers :
              markers[e][s] # NoRun => markers'[e][s] = markers[e][s]
        BY <1>2, <2>2
    <2>8. MarkersHeld'
        <3>1. \A q \in Runners : q # r =>
                  /\ pc[q] = "consume" => \A s \in Servers :
                         s < server[q] => markers'[epoch[q]][s] = run[q]
                  /\ pc[q] = "write" => \A s \in Servers :
                         s <= server[q] => markers'[epoch[q]][s] = run[q]
                  /\ (pc[q] = "launch" \/ (pc[q] = "clear" /\ Variant = "dual")) =>
                         \A s \in Servers : markers'[epoch[q]][s] = run[q]
            BY <2>6, <2>7 DEF MarkersHeld, Holds
        <3>2. \A s \in Servers : s <= server[r] => markers'[epoch[r]][s] = run[r]
            <4> SUFFICES ASSUME NEW s \in Servers, s <= server[r]
                         PROVE  markers'[epoch[r]][s] = run[r]
                OBVIOUS
            <4>1. CASE s = server[r]
                BY <2>1, <2>2, <4>1
            <4>2. CASE s < server[r]
                BY <2>1, <2>6, <2>7, <4>2 DEF MarkersHeld
            <4> QED
                BY <2>1, <4>1, <4>2 DEF Servers
        <3>3. \A q \in Runners : q # r => pc'[q] = pc[q]
            BY <2>3
        <3>4. pc'[r] = "write" /\ server' = server /\ epoch' = epoch /\ run' = run
            BY <1>2, <2>3
        <3>5. \A q \in Runners : pc'[q] = "consume" => \A s \in Servers :
                  s < server[q] => markers'[epoch[q]][s] = run[q]
            BY <3>1, <3>3, <3>4
        <3>6. \A q \in Runners : pc'[q] = "write" => \A s \in Servers :
                  s <= server[q] => markers'[epoch[q]][s] = run[q]
            BY <3>1, <3>2, <3>3, <3>4
        <3>7. \A q \in Runners :
                  (pc'[q] = "launch" \/ (pc'[q] = "clear" /\ Variant = "dual")) =>
                      \A s \in Servers : markers'[epoch[q]][s] = run[q]
            BY <3>1, <3>3, <3>4
        <3> QED
            BY <3>4, <3>5, <3>6, <3>7 DEF MarkersHeld, Holds
    <2>9. EpochOnce'
        <3>1. \A x \in executions, s \in Servers : markers[x.epoch][s] # NoRun
            BY DEF EpochOnce, RunsDistinct, NoRun
        <3> QED
            BY <2>7, <3>1 DEF EpochOnce, RunsDistinct, CreateMarker
    <2>10. CompiledFirst'
        BY <1>2, <2>1, <2>2, <2>3 DEF CompiledFirst, ConsumedIsCompiled, CreateMarker
    <2> QED
        BY <2>4, <2>5, <2>8, <2>9, <2>10
<1> QED
    BY <1>1, <1>2 DEF CreateMarker

(* A marker is removed only by the run it names, which has executed        *)
(* nothing yet.                                                            *)
LEMMA WriteMarkerKeeps ==
    ASSUME IInv, NEW r \in Runners, WriteMarker(r)
    PROVE  IInv'
<1> USE DEF IInv
<1>1. /\ pc[r] = "write" /\ epoch[r] \in Epochs /\ server[r] \in Servers
      /\ run[r] \in 1 .. MaxRuns
      /\ UNCHANGED <<started, compiled, playerData, logs, executions, returned>>
    BY RunnerAssumption DEF WriteMarker, TypeOK, NoRun
<1>2. ASSUME UNCHANGED markers, server[r] = 2,
             Goto(r, IF Variant = "kg" THEN "launch" ELSE "clear")
      PROVE  IInv'
    <2> DEFINE label == IF Variant = "kg" THEN "launch" ELSE "clear"
    <2>1. label \in Labels \ {"idle"}
        BY DEF Labels
    <2>2. /\ \A q \in Runners : /\ pc'[q] = IF q = r THEN label ELSE pc[q]
                                /\ server'[q] = IF q = r THEN 0 ELSE server[q]
          /\ run' = run /\ epoch' = epoch
          /\ pc' \in [Runners -> Labels] /\ server' \in [Runners -> Servers]
          /\ \A q \in Runners : pc'[q] # "idle" => run'[q] # NoRun /\ epoch'[q] # NoEpoch
        BY <1>1, <1>2, <2>1, GotoEffect
    <2>3. TypeOK'
        BY <1>1, <1>2, <2>2 DEF TypeOK
    <2>4. RunsDistinct'
        BY <1>1, <2>2 DEF RunsDistinct, Unlaunched
    <2>5. Holds(r)
        BY <1>1, <1>2 DEF MarkersHeld, Holds, Servers
    <2>6. MarkersHeld'
        BY <1>2, <2>2, <2>5 DEF MarkersHeld, Holds
    <2>7. EpochOnce' /\ CompiledFirst'
        BY <1>1, <1>2, <2>2 DEF EpochOnce, CompiledFirst, ConsumedIsCompiled
    <2> QED
        BY <2>3, <2>4, <2>6, <2>7
<1>3. ASSUME UNCHANGED markers, server[r] # 2,
             server' = [server EXCEPT ![r] = @ + 1],
             pc' = [pc EXCEPT ![r] = "consume"], UNCHANGED <<epoch, run>>
      PROVE  IInv'
    <2>1. \A q \in Runners : /\ pc'[q] = IF q = r THEN "consume" ELSE pc[q]
                             /\ server'[q] = IF q = r THEN server[q] + 1 ELSE server[q]
        BY <1>3 DEF TypeOK
    <2>2. pc' \in [Runners -> Labels] /\ server' \in [Runners -> Servers]
        BY <1>1, <1>3 DEF TypeOK, Labels, Servers
    <2>3. TypeOK'
        BY <1>1, <1>3, <2>1, <2>2 DEF TypeOK
    <2>4. RunsDistinct'
        BY <1>1, <1>3, <2>1 DEF RunsDistinct, Unlaunched
    <2>5. MarkersHeld'
        BY <1>1, <1>3, <2>1 DEF MarkersHeld, Holds, Servers
    <2>6. EpochOnce' /\ CompiledFirst'
        BY <1>1, <1>3, <2>1 DEF EpochOnce, CompiledFirst, ConsumedIsCompiled
    <2> QED
        BY <2>3, <2>4, <2>5, <2>6
<1>4. ASSUME markers' = [markers EXCEPT ![epoch[r]][server[r]] = NoRun], Leave(r)
      PROVE  IInv'
    <2>1. \A e \in Epochs, s \in Servers : markers'[e][s] =
              IF e = epoch[r] /\ s = server[r] THEN NoRun ELSE markers[e][s]
        BY <1>1, <1>4 DEF TypeOK
    <2>2. markers[epoch[r]][server[r]] = run[r]
        BY <1>1 DEF MarkersHeld, Servers
    <2>3. \A e \in Epochs, s \in Servers :
              markers[e][s] # run[r] => markers'[e][s] = markers[e][s]
        BY <2>1, <2>2
    <2>4. TypeOK'
        <3>1. markers' \in [Epochs -> [Servers -> 0 .. MaxRuns]]
            BY <1>1, <1>4, RunnerAssumption DEF TypeOK, NoRun
        <3> QED
            BY <1>1, <1>4, <3>1, LeaveEffect DEF TypeOK
    <2>5. RunsDistinct'
        BY <1>1, <1>4, LeaveEffect DEF RunsDistinct, Unlaunched
    <2>6. MarkersHeld'
        <3>1. \A q \in Runners : q # r /\ pc[q] # "idle" =>
                  epoch[q] \in Epochs /\ run[q] # run[r]
            BY <1>1 DEF TypeOK, RunsDistinct
        <3>2. \A q \in Runners : q # r =>
                  /\ pc[q] = "consume" => \A s \in Servers :
                         s < server[q] => markers'[epoch[q]][s] = run[q]
                  /\ pc[q] = "write" => \A s \in Servers :
                         s <= server[q] => markers'[epoch[q]][s] = run[q]
                  /\ (pc[q] = "launch" \/ (pc[q] = "clear" /\ Variant = "dual")) =>
                         \A s \in Servers : markers'[epoch[q]][s] = run[q]
            BY <2>3, <3>1 DEF MarkersHeld, Holds
        <3>3. /\ pc'[r] = "idle"
              /\ \A q \in Runners : q # r =>
                     /\ pc'[q] = pc[q] /\ server'[q] = server[q]
                     /\ epoch'[q] = epoch[q] /\ run'[q] = run[q]
            BY <1>4, LeaveEffect
        <3>4. \A q \in Runners : pc'[q] = "consume" => \A s \in Servers :
                  s < server'[q] => markers'[epoch'[q]][s] = run'[q]
            BY <3>2, <3>3
        <3>5. \A q \in Runners : pc'[q] = "write" => \A s \in Servers :
                  s <= server'[q] => markers'[epoch'[q]][s] = run'[q]
            BY <3>2, <3>3
        <3>6. \A q \in Runners :
                  (pc'[q] = "launch" \/ (pc'[q] = "clear" /\ Variant = "dual")) =>
                      \A s \in Servers : markers'[epoch'[q]][s] = run'[q]
            BY <3>2, <3>3
        <3> QED
            BY <3>4, <3>5, <3>6 DEF MarkersHeld, Holds
    <2>7. EpochOnce'
        <3>1. \A x \in executions : x.run # run[r] /\ x.epoch \in Epochs
            BY <1>1 DEF RunsDistinct, Unlaunched
        <3> QED
            BY <1>1, <2>3, <3>1 DEF EpochOnce
    <2>8. CompiledFirst'
        BY <1>1, <1>4, <2>1, LeaveEffect DEF CompiledFirst, ConsumedIsCompiled
    <2> QED
        BY <2>4, <2>5, <2>6, <2>7, <2>8
<1> QED
    BY <1>2, <1>3, <1>4 DEF WriteMarker

(* A run that launches holds all three markers of its epoch, so no other   *)
(* execution of that epoch has been.                                       *)
LEMMA LaunchKeeps ==
    ASSUME IInv, NEW r \in Runners, Launch(r)
    PROVE  IInv'
<1> USE DEF IInv
<1> DEFINE x == [run |-> run[r], epoch |-> epoch[r], inputs |-> playerData[HomeOf[r]]]
<1>1. /\ pc[r] = "launch" /\ epoch[r] \in Epochs /\ run[r] \in 1 .. started
      /\ Holds(r) /\ started \in Nat
      /\ executions' = executions \cup {x}
      /\ UNCHANGED <<started, compiled, playerData, markers, returned>>
    BY RunnerAssumption DEF Launch, TypeOK, MarkersHeld, Holds, RunsDistinct
<1>2. /\ \A q \in Runners : /\ pc'[q] = IF q = r THEN "protocol" ELSE pc[q]
                            /\ server'[q] = IF q = r THEN 0 ELSE server[q]
      /\ run' = run /\ epoch' = epoch
      /\ pc' \in [Runners -> Labels] /\ server' \in [Runners -> Servers]
      /\ \A q \in Runners : pc'[q] # "idle" => run'[q] # NoRun /\ epoch'[q] # NoEpoch
    BY <1>1, GotoEffect DEF Launch, Labels
<1>3. x.run = run[r] /\ x.epoch = epoch[r]
    OBVIOUS
<1> HIDE DEF x
<1>4. TypeOK'
    <2>1. [run |-> run[r], done |-> FALSE] \in Logs
        BY <1>1 DEF TypeOK, Logs
    <2>2. logs' \in [Homes -> [Servers -> Logs]]
        BY <2>1 DEF Launch, TypeOK
    <2> QED
        BY <1>1, <1>2, <2>2 DEF TypeOK
<1>5. RunsDistinct'
    <2>1. \A y \in executions' : y.run \in 1 .. started /\ y.epoch \in Epochs
        BY <1>1, <1>3 DEF RunsDistinct
    <2>2. \A q \in Runners : pc'[q] \in Unlaunched =>
              q # r /\ pc[q] \in Unlaunched /\ run[q] # run[r]
        BY <1>1, <1>2 DEF RunsDistinct, Unlaunched
    <2> QED
        BY <1>1, <1>2, <1>3, <2>1, <2>2 DEF RunsDistinct
<1>6. MarkersHeld'
    BY <1>1, <1>2 DEF MarkersHeld, Holds
<1>7. EpochOnce'
    <2>1. \A s \in Servers : markers[x.epoch][s] = x.run
        BY <1>1, <1>3 DEF Holds
    <2>2. \A y \in executions : y.epoch # x.epoch
        <3> SUFFICES ASSUME NEW y \in executions, y.epoch = x.epoch
                     PROVE  FALSE
            OBVIOUS
        <3>1. 0 \in Servers
            BY DEF Servers
        <3>2. y.run = markers[y.epoch][0]
            BY <3>1 DEF EpochOnce
        <3>3. y.run = run[r]
            BY <1>3, <2>1, <3>1, <3>2
        <3> QED
            BY <1>1, <3>3 DEF RunsDistinct, Unlaunched
    <2> QED
        BY <1>1, <2>1, <2>2 DEF EpochOnce
<1>8. CompiledFirst'
    BY <1>1, <1>2 DEF CompiledFirst, ConsumedIsCompiled
<1> QED
    BY <1>4, <1>5, <1>6, <1>7, <1>8

LEMMA ProtocolKeeps ==
    ASSUME IInv, NEW r \in Runners, Protocol(r)
    PROVE  IInv'
<1> USE DEF IInv
<1>1. CASE UNCHANGED logs /\ Leave(r)
    BY <1>1, LeaveKeeps DEF Protocol, TypeOK
<1>2. CASE FinishLogs(r) /\ Goto(r, "collect")
    <2>1. pc[r] = "protocol" /\ UNCHANGED <<started, compiled, playerData, markers, executions>>
        BY DEF Protocol
    <2>2. /\ \A q \in Runners : /\ pc'[q] = IF q = r THEN "collect" ELSE pc[q]
                                /\ server'[q] = IF q = r THEN 0 ELSE server[q]
          /\ run' = run /\ epoch' = epoch
          /\ pc' \in [Runners -> Labels] /\ server' \in [Runners -> Servers]
          /\ \A q \in Runners : pc'[q] # "idle" => run'[q] # NoRun /\ epoch'[q] # NoEpoch
        BY <1>2, <2>1, GotoEffect DEF Labels
    <2>3. logs' \in [Homes -> [Servers -> Logs]]
        <3>1. \A g \in [Servers -> Logs] :
                  [s \in Servers |-> IF g[s].run = run[r]
                                     THEN [g[s] EXCEPT !.done = TRUE]
                                     ELSE g[s]] \in [Servers -> Logs]
            BY DEF Logs
        <3> QED
            BY <1>2, <3>1 DEF FinishLogs, TypeOK
    <2>4. TypeOK'
        BY <2>1, <2>2, <2>3 DEF TypeOK
    <2>5. RunsDistinct' /\ MarkersHeld'
        BY <2>1, <2>2 DEF RunsDistinct, Unlaunched, MarkersHeld, Holds
    <2>6. EpochOnce' /\ CompiledFirst'
        BY <2>1, <2>2 DEF EpochOnce, CompiledFirst, ConsumedIsCompiled
    <2> QED
        BY <2>4, <2>5, <2>6
<1> QED
    BY <1>1, <1>2 DEF Protocol

-----------------------------------------------------------------------------
(* A runner that times out leaves everything as one that is killed there.  *)
LEMMA TimeOutIsCrash == \A r \in Runners : TimeOut(r) => Crash(r)
BY DEF TimeOut, Crash, Waiting

(* Every step of every runner keeps the invariant.                         *)
LEMMA StepKeeps ==
    ASSUME IInv, [Next]_vars
    PROVE  IInv'
<1>1. ASSUME NEW r \in Runners, NEW e \in Epochs, Start(r, e) PROVE IInv'
    BY <1>1, StartKeeps
<1>2. ASSUME NEW r \in Runners, Step(r) PROVE IInv'
    <2>1. CASE Compile(r)
        BY <2>1, CompileKeeps
    <2>2. CASE CopyInput(r)
        BY <2>2, CopyInputKeeps
    <2>3. CASE CreateMarker(r)
        BY <2>3, CreateMarkerKeeps
    <2>4. CASE WriteMarker(r)
        BY <2>4, WriteMarkerKeeps
    <2>5. CASE ClearLog(r)
        BY <2>5, ClearLogKeeps
    <2>6. CASE Launch(r)
        BY <2>6, LaunchKeeps
    <2>7. CASE Protocol(r)
        BY <2>7, ProtocolKeeps
    <2>8. CASE Collect(r)
        BY <2>8, LeaveKeeps DEF Collect, IInv, TypeOK
    <2> QED
        BY <1>2, <2>1, <2>2, <2>3, <2>4, <2>5, <2>6, <2>7, <2>8 DEF Step
<1>3. ASSUME NEW r \in Runners, Crash(r) PROVE IInv'
    BY <1>3, LeaveKeeps DEF Crash, IInv, TypeOK
<1>4. CASE UNCHANGED vars
    BY <1>4 DEF vars, IInv, TypeOK, RunsDistinct, MarkersHeld, Holds, EpochOnce,
       CompiledFirst, ConsumedIsCompiled
<1> QED
    BY <1>1, <1>2, <1>3, <1>4, TimeOutIsCrash DEF Next

(* Runs are distinct, markers name the runs that hold them, and executions *)
(* have the markers of their epochs, in every state.                       *)
THEOREM Invariant == Spec => []IInv
    BY InitiallyInvariant, StepKeeps, PTL DEF Spec

(* The runners' control state and the files of the homes keep their types. *)
THEOREM TypeCorrect == Spec => []TypeOK
<1>1. IInv => TypeOK
    BY DEF IInv
<1> QED
    BY <1>1, Invariant, PTL

(* Shares of an epoch are computed on once: by the one run that created    *)
(* the markers of all three servers, whoever raced, failed or was killed.  *)
THEOREM ExecutedOnce == Spec => []EpochOnce
<1>1. IInv => EpochOnce
    BY DEF IInv
<1> QED
    BY <1>1, Invariant, PTL

(* An epoch loses its freshness only to a run whose program compiled.      *)
THEOREM CompiledBeforeConsumed == Spec => []ConsumedIsCompiled
<1>1. IInv => ConsumedIsCompiled
    BY DEF IInv, CompiledFirst
<1> QED
    BY <1>1, Invariant, PTL

-----------------------------------------------------------------------------
\* Every runner has a home to itself.  With two on one home the properties
\* below are false.
OwnHomes == \A r, q \in Runners : HomeOf[r] = HomeOf[q] => r = q

\* The inputs a runner has copied are still in its home.
InputsHeld ==
    \A r \in Runners :
        /\ pc[r] = "copy" => \A s \in Servers :
               s < server[r] => playerData[HomeOf[r]][s] = epoch[r]
        /\ pc[r] \in {"consume", "write", "clear", "launch"} =>
               \A s \in Servers : playerData[HomeOf[r]][s] = epoch[r]

\* An execution read the shares of the epoch it consumed.
InputsRead == \A x \in executions : \A s \in Servers : x.inputs[s] = x.epoch

\* The logs in the home of a runner that executes or has executed are its own.
LogsHeld ==
    \A r \in Runners :
        /\ pc[r] = "protocol" =>
               \A s \in Servers : logs[HomeOf[r]][s].run = run[r]
        /\ pc[r] = "collect" =>
               \A s \in Servers :
                   logs[HomeOf[r]][s] = [run |-> run[r], done |-> TRUE]

HInv == InputsHeld /\ InputsRead /\ LogsHeld /\ LogsAreOwn

(* What a home holds is a function of the servers, before a step and after.*)
LEMMA HomeContents ==
    ASSUME TypeOK, NEW r \in Runners
    PROVE  /\ HomeOf[r] \in Homes
           /\ playerData[HomeOf[r]] \in [Servers -> Epochs \cup {NoEpoch}]
           /\ logs[HomeOf[r]] \in [Servers -> Logs]
           /\ playerData \in [Homes -> [Servers -> Epochs \cup {NoEpoch}]]
           /\ logs \in [Homes -> [Servers -> Logs]]
BY DEF TypeOK, Homes

(* A runner's step leaves the control state and the homes of others alone. *)
LEMMA OthersAlone ==
    ASSUME OwnHomes, TypeOK, NEW r \in Runners, NEW q \in Runners, q # r,
           \/ \E e \in Epochs : Start(r, e)
           \/ Step(r)
           \/ Crash(r)
    PROVE  /\ pc'[q] = pc[q] /\ server'[q] = server[q]
           /\ epoch'[q] = epoch[q] /\ run'[q] = run[q]
           /\ playerData'[HomeOf[q]] = playerData[HomeOf[q]]
           /\ logs'[HomeOf[q]] = logs[HomeOf[q]]
<1>1. HomeOf[q] # HomeOf[r] /\ HomeOf[q] \in Homes /\ HomeOf[r] \in Homes
    BY DEF OwnHomes, Homes
<1>2. /\ pc'[q] = pc[q] /\ server'[q] = server[q]
      /\ epoch'[q] = epoch[q] /\ run'[q] = run[q]
    BY DEF TypeOK, Start, Step, Crash, Compile, CopyInput, CreateMarker, WriteMarker,
       ClearLog, Launch, Protocol, Collect, Leave, Goto, NextServer
<1>3. playerData'[HomeOf[q]] = playerData[HomeOf[q]]
    BY <1>1 DEF TypeOK, Start, Step, Crash, Compile, CopyInput, CreateMarker,
       WriteMarker, ClearLog, Launch, Protocol, Collect
<1>4. logs'[HomeOf[q]] = logs[HomeOf[q]]
    BY <1>1 DEF TypeOK, Start, Step, Crash, Compile, CopyInput, CreateMarker,
       WriteMarker, ClearLog, Launch, Protocol, Collect, FinishLogs
<1> QED
    BY <1>2, <1>3, <1>4

(* The inputs in a home stay those of the epoch its runner goes for: a run *)
(* copies all three before it consumes, and nobody else writes there.      *)
LEMMA InputsKept ==
    ASSUME OwnHomes, TypeOK, InputsHeld, NEW r \in Runners,
           \/ \E e \in Epochs : Start(r, e)
           \/ Step(r)
           \/ Crash(r)
    PROVE  InputsHeld'
<1>1. /\ pc'[r] = "copy" => \A s \in Servers :
             s < server'[r] => playerData'[HomeOf[r]][s] = epoch'[r]
      /\ pc'[r] \in {"consume", "write", "clear", "launch"} =>
             \A s \in Servers : playerData'[HomeOf[r]][s] = epoch'[r]
    <2>1. CASE \E e \in Epochs : Start(r, e)
        BY <2>1 DEF TypeOK, Start
    <2>2. CASE Compile(r)
        BY <2>2 DEF TypeOK, Compile, Goto, Leave, Servers
    <2>3. CASE CopyInput(r)
        <3>1. /\ playerData'[HomeOf[r]] =
                     [playerData[HomeOf[r]] EXCEPT ![server[r]] = epoch[r]]
              /\ pc[r] = "copy" /\ epoch'[r] = epoch[r] /\ server[r] \in Servers
              /\ NextServer(r, IF Variant = "kg" THEN "clear" ELSE "consume")
            BY <2>3, HomeContents DEF CopyInput, TypeOK, NextServer, Goto
        <3>2. \A s \in Servers :
                  s <= server[r] => playerData'[HomeOf[r]][s] = epoch'[r]
            BY <3>1, HomeContents DEF InputsHeld, Servers
        <3>3. CASE server[r] = 2
            BY <3>1, <3>2, <3>3 DEF TypeOK, NextServer, Goto, Servers
        <3>4. CASE server[r] # 2
            <4>1. pc'[r] = "copy" /\ server'[r] = server[r] + 1
                BY <3>1, <3>4 DEF TypeOK, NextServer
            <4> QED
                BY <3>1, <3>2, <4>1 DEF Servers
        <3> QED
            BY <3>3, <3>4
    <2>4. CASE \/ CreateMarker(r)
               \/ WriteMarker(r)
               \/ ClearLog(r)
        <3>1. /\ pc[r] \in {"consume", "write", "clear"} /\ playerData' = playerData
              /\ \/ pc'[r] = "idle"
                 \/ /\ epoch'[r] = epoch[r]
                    /\ pc'[r] \in {"consume", "write", "clear", "launch"}
            BY <2>4 DEF TypeOK, CreateMarker, WriteMarker, ClearLog, NextServer, Goto, Leave
        <3> QED
            BY <3>1 DEF InputsHeld
    <2>5. CASE Launch(r) \/ Protocol(r) \/ Collect(r) \/ Crash(r)
        <3>1. pc'[r] \in {"idle", "protocol", "collect"}
            BY <2>5 DEF TypeOK, Launch, Protocol, Collect, Crash, Goto, Leave
        <3> QED
            BY <3>1
    <2> QED
        BY <2>1, <2>2, <2>3, <2>4, <2>5 DEF Step
<1>2. \A q \in Runners : q # r =>
          /\ pc'[q] = "copy" => \A s \in Servers :
                 s < server'[q] => playerData'[HomeOf[q]][s] = epoch'[q]
          /\ pc'[q] \in {"consume", "write", "clear", "launch"} =>
                 \A s \in Servers : playerData'[HomeOf[q]][s] = epoch'[q]
    <2> SUFFICES ASSUME NEW q \in Runners, q # r
                 PROVE  /\ pc'[q] = "copy" => \A s \in Servers :
                               s < server'[q] => playerData'[HomeOf[q]][s] = epoch'[q]
                        /\ pc'[q] \in {"consume", "write", "clear", "launch"} =>
                               \A s \in Servers : playerData'[HomeOf[q]][s] = epoch'[q]
        OBVIOUS
    <2> QED
        BY OthersAlone DEF InputsHeld
<1> QED
    BY <1>1, <1>2 DEF InputsHeld

(* Finished logs are those of the run that waited for them, and a run      *)
(* hands out no others.                                                    *)
LEMMA LogsKept ==
    ASSUME OwnHomes, TypeOK, LogsHeld, LogsAreOwn, NEW r \in Runners,
           \/ \E e \in Epochs : Start(r, e)
           \/ Step(r)
           \/ Crash(r)
    PROVE  LogsHeld' /\ LogsAreOwn'
<1>1. /\ pc'[r] = "protocol" =>
             \A s \in Servers : logs'[HomeOf[r]][s].run = run'[r]
      /\ pc'[r] = "collect" =>
             \A s \in Servers :
                 logs'[HomeOf[r]][s] = [run |-> run'[r], done |-> TRUE]
    <2>1. CASE Launch(r)
        <3>1. /\ pc'[r] = "protocol" /\ run'[r] = run[r]
              /\ logs'[HomeOf[r]] = [s \in Servers |-> [run |-> run[r], done |-> FALSE]]
            BY <2>1, HomeContents DEF TypeOK, Launch, Goto
        <3> QED
            BY <3>1
    <2>2. CASE Protocol(r)
        <3>1. pc[r] = "protocol"
            BY <2>2 DEF Protocol
        <3>2. CASE Leave(r)
            BY <3>2 DEF TypeOK, Leave
        <3>3. CASE FinishLogs(r) /\ Goto(r, "collect")
            <4> DEFINE g == logs[HomeOf[r]]
            <4>1. /\ pc'[r] = "collect" /\ run'[r] = run[r]
                  /\ logs'[HomeOf[r]] =
                         [s \in Servers |-> IF g[s].run = run[r]
                                            THEN [g[s] EXCEPT !.done = TRUE]
                                            ELSE g[s]]
                BY <3>3, HomeContents DEF TypeOK, FinishLogs, Goto
            <4>2. \A s \in Servers : g[s] \in Logs /\ g[s].run = run[r]
                BY <3>1, HomeContents DEF LogsHeld
            <4>3. \A s \in Servers :
                      logs'[HomeOf[r]][s] = [run |-> run[r], done |-> TRUE]
                BY <4>1, <4>2 DEF Logs
            <4> QED
                BY <4>1, <4>3
        <3> QED
            BY <2>2, <3>2, <3>3 DEF Protocol
    <2>3. CASE \/ \E e \in Epochs : Start(r, e)
               \/ Compile(r)
               \/ CopyInput(r)
               \/ CreateMarker(r)
               \/ WriteMarker(r)
               \/ ClearLog(r)
               \/ Collect(r)
               \/ Crash(r)
        <3>1. pc'[r] \notin {"protocol", "collect"}
            BY <2>3 DEF TypeOK, Start, Compile, CopyInput, CreateMarker, WriteMarker,
               ClearLog, Collect, Crash, NextServer, Goto, Leave
        <3> QED
            BY <3>1
    <2> QED
        BY <2>1, <2>2, <2>3 DEF Step
<1>2. \A q \in Runners : q # r =>
          /\ pc'[q] = "protocol" =>
                 \A s \in Servers : logs'[HomeOf[q]][s].run = run'[q]
          /\ pc'[q] = "collect" =>
                 \A s \in Servers :
                     logs'[HomeOf[q]][s] = [run |-> run'[q], done |-> TRUE]
    <2> SUFFICES ASSUME NEW q \in Runners, q # r
                 PROVE  /\ pc'[q] = "protocol" =>
                               \A s \in Servers : logs'[HomeOf[q]][s].run = run'[q]
                        /\ pc'[q] = "collect" =>
                               \A s \in Servers :
                                   logs'[HomeOf[q]][s] = [run |-> run'[q], done |-> TRUE]
        OBVIOUS
    <2> QED
        BY OthersAlone DEF LogsHeld
<1>3. LogsHeld'
    BY <1>1, <1>2 DEF LogsHeld
<1>4. LogsAreOwn'
    <2>1. CASE Collect(r)
        <3>1. \A x \in returned' : x \in returned \/
                  x = [run |-> run[r], logs |-> logs[HomeOf[r]]]
            BY <2>1 DEF Collect
        <3>2. \A s \in Servers :
                  logs[HomeOf[r]][s] = [run |-> run[r], done |-> TRUE]
            BY <2>1 DEF Collect, LogsHeld
        <3>3. \A x \in returned' : \A s \in Servers :
                  x.logs[s] = [run |-> x.run, done |-> TRUE]
            <4> SUFFICES ASSUME NEW x \in returned', NEW s \in Servers
                         PROVE  x.logs[s] = [run |-> x.run, done |-> TRUE]
                OBVIOUS
            <4>1. CASE x \in returned
                BY <4>1 DEF LogsAreOwn
            <4>2. CASE x = [run |-> run[r], logs |-> logs[HomeOf[r]]]
                <5>1. x.run = run[r] /\ x.logs = logs[HomeOf[r]]
                    BY <4>2
                <5> QED
                    BY <3>2, <5>1
            <4> QED
                BY <3>1, <4>1, <4>2
        <3> QED
            BY <3>3 DEF LogsAreOwn
    <2>2. CASE returned' = returned
        BY <2>2 DEF LogsAreOwn
    <2> QED
        BY <2>1, <2>2 DEF Start, Step, Crash, Compile, CopyInput, CreateMarker,
           WriteMarker, ClearLog, Launch, Protocol
<1> QED
    BY <1>3, <1>4

LEMMA HomesKept ==
    ASSUME OwnHomes, IInv, HInv, [Next]_vars
    PROVE  HInv'
<1>1. CASE UNCHANGED vars
    BY <1>1 DEF vars, HInv, InputsHeld, InputsRead, LogsHeld, LogsAreOwn
<1>2. ASSUME NEW r \in Runners,
             \/ \E e \in Epochs : Start(r, e)
             \/ Step(r)
             \/ Crash(r)
      PROVE  HInv'
    <2>1. InputsHeld' /\ LogsHeld' /\ LogsAreOwn'
        BY <1>2, InputsKept, LogsKept DEF IInv, HInv
    <2>2. InputsRead'
        <3>1. CASE Launch(r)
            BY <3>1 DEF Launch, HInv, InputsRead, InputsHeld
        <3>2. CASE executions' = executions
            BY <3>2 DEF HInv, InputsRead
        <3> QED
            BY <1>2, <3>1, <3>2 DEF Start, Step, Crash, Compile, CopyInput,
               CreateMarker, WriteMarker, ClearLog, Protocol, Collect
    <2> QED
        BY <2>1, <2>2 DEF HInv
<1> QED
    BY <1>1, <1>2, TimeOutIsCrash DEF Next

(* On homes of their own, runners execute on the shares they consumed and  *)
(* return the logs of their own executions.                                *)
THEOREM HomesInvariant ==
    ASSUME OwnHomes
    PROVE  Spec => [](IInv /\ HInv)
<1>1. Init => HInv
    BY DEF Init, HInv, InputsHeld, InputsRead, LogsHeld, LogsAreOwn
<1>2. IInv /\ HInv /\ [Next]_vars => HInv'
    BY HomesKept
<1> QED
    BY <1>1, <1>2, Invariant, PTL DEF Spec

(* No two executions read the same shares, when homes are not shared.      *)
THEOREM SharesReadOnce ==
    ASSUME OwnHomes
    PROVE  Spec => []SharesUsedOnce
<1>1. IInv /\ HInv => SharesUsedOnce
    <2> SUFFICES ASSUME IInv, HInv, NEW x \in executions, NEW y \in executions,
                        x # y
                 PROVE  {x.inputs[s] : s \in Servers} \cap
                        {y.inputs[s] : s \in Servers} = {}
        BY DEF SharesUsedOnce
    <2>1. x.epoch # y.epoch
        BY DEF IInv, EpochOnce
    <2> QED
        BY <2>1 DEF HInv, InputsRead
<1> QED
    BY <1>1, HomesInvariant, PTL

(* A run returns finished logs of its own, when homes are not shared.      *)
THEOREM ReturnsOwnLogs ==
    ASSUME OwnHomes
    PROVE  Spec => []LogsAreOwn
<1>1. IInv /\ HInv => LogsAreOwn
    BY DEF HInv
<1> QED
    BY <1>1, HomesInvariant, PTL

(* With the relation-paged runner a finished log is only ever replaced by  *)
(* a run that holds its epoch on all servers, on shared homes too.         *)
THEOREM ReplayLeavesLogs ==
    ASSUME Variant = "dual"
    PROVE  Spec => EvidenceSurvivesReplay
<1> DEFINE Kept ==
        \A h \in Homes, s \in Servers :
            logs[h][s].done /\ logs'[h][s] # logs[h][s] =>
                \E r \in Runners :
                    /\ HomeOf[r] = h
                    /\ pc[r] \in {"clear", "launch"}
                    /\ Holds(r)
<1>1. IInv /\ [Next]_vars => [Kept]_vars
    <2> SUFFICES ASSUME IInv, NEW r \in Runners,
                        \/ \E e \in Epochs : Start(r, e)
                        \/ Step(r)
                        \/ Crash(r)
                 PROVE  Kept
        BY TimeOutIsCrash DEF Next
    <2>1. CASE ClearLog(r) \/ Launch(r)
        <3>1. pc[r] \in {"clear", "launch"} /\ Holds(r)
            BY <2>1 DEF ClearLog, Launch, IInv, MarkersHeld, Holds
        <3>2. \A h \in Homes : h # HomeOf[r] => logs'[h] = logs[h]
            BY <2>1 DEF ClearLog, Launch, IInv, TypeOK
        <3> SUFFICES ASSUME NEW h \in Homes, NEW s \in Servers,
                            logs'[h][s] # logs[h][s]
                     PROVE  HomeOf[r] = h /\ pc[r] \in {"clear", "launch"} /\ Holds(r)
            OBVIOUS
        <3> QED
            BY <3>1, <3>2
    <2>2. CASE Protocol(r) /\ FinishLogs(r)
        <3> DEFINE g == logs[HomeOf[r]]
        <3>1. /\ logs'[HomeOf[r]] =
                     [s \in Servers |-> IF g[s].run = run[r]
                                        THEN [g[s] EXCEPT !.done = TRUE]
                                        ELSE g[s]]
              /\ \A h \in Homes : h # HomeOf[r] => logs'[h] = logs[h]
            BY <2>2, HomeContents DEF FinishLogs, IInv, TypeOK
        <3>2. \A s \in Servers : g[s] \in Logs
            BY HomeContents DEF IInv
        <3>3. \A s \in Servers : g[s].done => logs'[HomeOf[r]][s] = g[s]
            <4> SUFFICES ASSUME NEW s \in Servers, g[s].done
                         PROVE  logs'[HomeOf[r]][s] = g[s]
                OBVIOUS
            <4>1. g[s] = [run |-> g[s].run, done |-> g[s].done]
                BY <3>2 DEF Logs
            <4>2. [g[s] EXCEPT !.done = TRUE] = [run |-> g[s].run, done |-> TRUE]
                BY <3>2 DEF Logs
            <4>3. g[s].done = TRUE
                BY <3>2 DEF Logs
            <4>4. g[s] = [g[s] EXCEPT !.done = TRUE]
                BY <4>1, <4>2, <4>3
            <4> QED
                BY <3>1, <4>4
        <3>4. ASSUME NEW h \in Homes, NEW s \in Servers, logs[h][s].done
              PROVE  logs'[h][s] = logs[h][s]
            <4>1. CASE h = HomeOf[r]
                BY <3>3, <3>4, <4>1
            <4>2. CASE h # HomeOf[r]
                BY <3>1, <4>2
            <4> QED
                BY <4>1, <4>2
        <3> QED
            BY <3>4
    <2>3. CASE logs' = logs
        BY <2>3
    <2> QED
        BY <2>1, <2>2, <2>3 DEF Start, Step, Crash, Compile, CopyInput,
           CreateMarker, WriteMarker, Protocol, Collect
<1> QED
    BY <1>1, Invariant, PTL DEF Spec, EvidenceSurvivesReplay
=============================================================================
