------------------------ MODULE PagedDeployment_proofs ------------------------
(***************************************************************************)
(* Proofs that returned logs stand, and that an accepted batch is exact if *)
(* the hosts of its session read inputs of their own for its program and   *)
(* nobody shared twice under the digests it accepts, for any owners,       *)
(* layouts, sharings, logs and faults.                                     *)
(***************************************************************************)
EXTENDS PagedDeployment, TLAPS

\* What AssembleInput leaves in a file: one document of every sharer, made
\* for this server and this layout, of sharings that have been made.
Assembled(i, made) ==
    /\ i.server \in Servers
    /\ \A d \in i.documents :
           /\ d.sharer \in Sharers
           /\ d.server = i.server
           /\ d.digest = DigestOf[d.sharer][i.layout]
           /\ d.sharing \in Sharings(d.sharer)
           /\ d.sharing \in 1 .. made[d.sharer]
           /\ d = Document(d.sharer, d.sharing, d.server)
    /\ \A d, e \in i.documents : d.sharer = e.sharer => d = e
    /\ {d.sharer : d \in i.documents} = Sharers

DocumentsTrue ==
    \A d \in documents :
        /\ d.sharer \in Sharers
        /\ d.server \in Servers
        /\ d.sharing \in Sharings(d.sharer)
        /\ d.sharing \in 1 .. sharing[d.sharer]
        /\ d = Document(d.sharer, d.sharing, d.server)

\* Every file and every session has only inputs that were assembled, and a
\* party that has been started has one.
InputsAssembled ==
    /\ DocumentsTrue
    /\ \A s \in Servers : inputs[s] # NoInput => Assembled(inputs[s], sharing)
    /\ \A s \in Servers : playerData[s] # NoInput => Assembled(playerData[s], sharing)
    /\ \A s \in Servers : party[s] # Idle => playerData[s] # NoInput
    /\ \A n \in DOMAIN sessions : \A s \in Servers :
           Assembled(sessions[n].inputs[s], sharing)

\* The log of party p is empty as long as it has not printed everything, and
\* then it holds the session that the party is in.
LogOwn(s, p) ==
    /\ p.path \in Paths
    /\ \/ logs[s][p.path] = [session |-> 0, whole |-> FALSE]
       \/ /\ p.session > 0
          /\ logs[s][p.path] = [session |-> p.session, whole |-> TRUE]

\* A running party has a log of its own; whole logs, returned or not, are of
\* sessions that were held; and returned logs are whole.
LogsAccounted ==
    /\ \A s \in Servers : party[s] # Idle => LogOwn(s, party[s])
    /\ \A s \in Servers, l \in Paths : logs[s][l].whole =>
           logs[s][l].session \in DOMAIN sessions
    /\ ReturnedLogsStand

IInv == TypeOK /\ InputsAssembled /\ LogsAccounted
-----------------------------------------------------------------------------
(* Initially there is nothing to account for.                              *)
LEMMA InitiallyInvariant == Init => IInv
<1> SUFFICES ASSUME Init PROVE IInv
    OBVIOUS
<1>1. TypeOK
    <2>1. sharing \in [Sharers -> Nat] /\ \A p \in Sharers : sharing[p] <= Len(LayoutOf[p])
        BY DeploymentAssumption DEF Init
    <2>2. sessions \in Seq([program : Layouts, inputs : [Servers -> Inputs]])
        BY DEF Init
    <2>3. inputs \in [Servers -> Inputs \cup {NoInput}] /\ playerData \in [Servers -> Inputs \cup {NoInput}]
        BY DEF Init
    <2>4. party \in [Servers -> {Idle} \cup
              [path : Paths, program : Layouts, session : 0 .. Len(sessions)]]
        BY DEF Init
    <2>5. logs \in [Servers -> [Paths -> {NoLog} \cup
              [session : 0 .. Len(sessions), whole : BOOLEAN]]]
        BY DEF Init
    <2>6. faults \in 0 .. MaxFaults
        BY DeploymentAssumption DEF Init
    <2> QED
        BY <2>1, <2>2, <2>3, <2>4, <2>5, <2>6 DEF Init, TypeOK
<1>2. InputsAssembled
    <2>1. DOMAIN sessions = {}
        BY DEF Init
    <2> QED
        BY <2>1 DEF Init, InputsAssembled, DocumentsTrue
<1>3. LogsAccounted
    BY DEF Init, LogsAccounted, LogOwn, ReturnedLogsStand, NoLog
<1> QED
    BY <1>1, <1>2, <1>3 DEF IInv

(* A new document is that of a sharing the sharer has made.                *)
LEMMA NewDocument ==
    ASSUME NEW p \in Sharers, NEW s \in Servers, NEW k \in Sharings(p)
    PROVE  /\ Document(p, k, s) \in Documents
           /\ Document(p, k, s).sharer = p
           /\ Document(p, k, s).server = s
           /\ Document(p, k, s).sharing = k
<1>1. LayoutOf[p] \in Seq(Layouts)
    BY DeploymentAssumption
<1>2. LayoutOf[p][k] \in Layouts /\ k \in Nat
    BY <1>1 DEF Sharings
<1> QED
    BY <1>2 DEF Document, Documents, Servers

(* What was assembled stays so when there are more sharings.               *)
LEMMA AssembledStays ==
    ASSUME NEW i, NEW made \in [Sharers -> Nat], NEW more \in [Sharers -> Nat],
           \A q \in Sharers : made[q] <= more[q],
           Assembled(i, made)
    PROVE  Assembled(i, more)
<1>1. \A d \in i.documents : d.sharing \in 1 .. more[d.sharer]
    <2> TAKE d \in i.documents
    <2>1. d.sharer \in Sharers /\ d.sharing \in 1 .. made[d.sharer]
        BY DEF Assembled
    <2> QED
        BY <2>1
<1> QED
    BY <1>1 DEF Assembled

(* A step that adds documents of existing sharings, as Share and           *)
(* WriteDocument do, keeps the invariant.                                  *)
LEMMA SharingKeeps ==
    ASSUME IInv, NEW p \in Sharers, NEW s \in Servers, NEW k \in Sharings(p),
           documents' = documents \cup {Document(p, k, s)},
           sharing' \in [Sharers -> Nat],
           k \in 1 .. sharing'[p],
           \A q \in Sharers : sharing[q] <= sharing'[q],
           \A q \in Sharers : sharing'[q] <= Len(LayoutOf[q]),
           faults' \in 0 .. MaxFaults,
           UNCHANGED <<files, party, sessions, outputs>>
    PROVE  IInv'
<1> USE DEF IInv, files, outputs
<1>1. TypeOK'
    BY NewDocument DEF TypeOK
<1>2. InputsAssembled'
    <2>1. DocumentsTrue'
        <3> SUFFICES ASSUME NEW d \in documents'
                     PROVE  /\ d.sharer \in Sharers
                            /\ d.server \in Servers
                            /\ d.sharing \in Sharings(d.sharer)
                            /\ d.sharing \in 1 .. sharing'[d.sharer]
                            /\ d = Document(d.sharer, d.sharing, d.server)
            BY DEF DocumentsTrue
        <3>1. CASE d = Document(p, k, s)
            BY <3>1, NewDocument
        <3>2. CASE d \in documents
            <4>1. /\ d.sharer \in Sharers
                  /\ d.server \in Servers
                  /\ d.sharing \in Sharings(d.sharer)
                  /\ d.sharing \in 1 .. sharing[d.sharer]
                  /\ d = Document(d.sharer, d.sharing, d.server)
                BY <3>2 DEF DocumentsTrue, InputsAssembled
            <4>2. sharing[d.sharer] <= sharing'[d.sharer] /\ sharing[d.sharer] \in Nat
                  /\ sharing'[d.sharer] \in Nat
                BY <4>1 DEF TypeOK
            <4> QED
                BY <4>1, <4>2
        <3> QED
            BY <3>1, <3>2
    <2>2. \A i : Assembled(i, sharing) => Assembled(i, sharing')
        BY AssembledStays DEF TypeOK
    <2> QED
        BY <2>1, <2>2 DEF InputsAssembled
<1>3. LogsAccounted'
    BY DEF LogsAccounted, LogOwn, ReturnedLogsStand
<1> QED
    BY <1>1, <1>2, <1>3

LEMMA ShareKeeps ==
    ASSUME IInv, NEW p \in Sharers, Share(p)
    PROVE  IInv'
<1>1. sharing[p] + 1 \in Sharings(p) /\ sharing[p] \in Nat
    BY DeploymentAssumption DEF IInv, TypeOK, Share, Sharings
<1>2. /\ sharing' \in [Sharers -> Nat]
      /\ \A q \in Sharers : sharing'[q] <= Len(LayoutOf[q])
      /\ \A q \in Sharers : sharing[q] <= sharing'[q]
      /\ sharing[p] + 1 \in 1 .. sharing'[p]
    BY <1>1 DEF IInv, TypeOK, Share, Sharings
<1>3. faults' \in 0 .. MaxFaults
    BY DeploymentAssumption DEF IInv, TypeOK, Share, Fault
<1>4. 0 \in Servers
    BY DEF Servers
<1> QED
    BY <1>1, <1>2, <1>3, <1>4, SharingKeeps DEF Share

LEMMA WriteDocumentKeeps ==
    ASSUME IInv, NEW p \in Sharers, NEW s \in {1, 2}, WriteDocument(p, s)
    PROVE  IInv'
<1>1. sharing[p] \in Sharings(p)
    BY DeploymentAssumption DEF IInv, TypeOK, WriteDocument, Sharings
<1>2. s \in Servers
    BY DEF Servers
<1>3. /\ sharing' \in [Sharers -> Nat]
      /\ \A q \in Sharers : sharing'[q] <= Len(LayoutOf[q])
      /\ \A q \in Sharers : sharing[q] <= sharing'[q]
      /\ sharing[p] \in 1 .. sharing'[p]
      /\ faults' \in 0 .. MaxFaults
    BY DEF IInv, TypeOK, WriteDocument
<1> QED
    BY <1>1, <1>2, <1>3, SharingKeeps DEF WriteDocument

(* The checks of the assembly leave an assembled input.                    *)
LEMMA AssembleInputKeeps ==
    ASSUME IInv, NEW s \in Servers, NEW layout \in Layouts, AssembleInput(s, layout)
    PROVE  IInv'
<1> USE DEF IInv, outputs
<1>1. PICK given \in SUBSET {d \in documents : Validated(d, s, layout)} :
          /\ \A d, e \in given : d.sharer = e.sharer => d = e
          /\ {d.sharer : d \in given} = Sharers
          /\ inputs' = [inputs EXCEPT ![s] =
                 [server |-> s, layout |-> layout, documents |-> given]]
          /\ UNCHANGED <<sharing, documents, playerData, party, sessions, outputs, faults>>
    BY DEF AssembleInput
<1> DEFINE i == [server |-> s, layout |-> layout, documents |-> given]
<1>2. i \in Inputs
    BY <1>1 DEF TypeOK, Inputs
<1>3. Assembled(i, sharing)
    BY <1>1 DEF Assembled, InputsAssembled, DocumentsTrue, Validated
<1>4. /\ inputs' \in [Servers -> Inputs \cup {NoInput}]
      /\ inputs'[s] = i
      /\ \A t \in Servers : t # s => inputs'[t] = inputs[t]
    BY <1>1, <1>2 DEF TypeOK
<1> HIDE DEF i
<1>5. TypeOK'
    BY <1>1, <1>4 DEF TypeOK
<1>6. InputsAssembled'
    BY <1>1, <1>3, <1>4 DEF InputsAssembled, DocumentsTrue
<1>7. LogsAccounted'
    BY <1>1 DEF LogsAccounted, LogOwn, ReturnedLogsStand
<1> QED
    BY <1>5, <1>6, <1>7
(* The input a party is started on, or a refused start leaves behind, is   *)
(* one that was assembled.                                                 *)
LEMMA CopyKeeps ==
    ASSUME IInv, NEW s \in Servers, NEW t \in Servers,
           NEW layout \in Layouts, CopyInput(s, t, layout)
    PROVE  /\ playerData' \in [Servers -> Inputs \cup {NoInput}]
           /\ playerData'[s] # NoInput
           /\ \A u \in Servers : u # s => playerData'[u] = playerData[u]
           /\ \A u \in Servers : playerData'[u] # NoInput => Assembled(playerData'[u], sharing)
BY DEF IInv, TypeOK, InputsAssembled, CopyInput

(* A party starts on an empty log of its own.                              *)
LEMMA StartPartyKeeps ==
    ASSUME IInv, NEW s \in Servers, NEW t \in Servers, NEW layout \in Layouts,
           NEW path \in Paths, StartParty(s, t, layout, path)
    PROVE  IInv'
<1> USE DEF IInv
<1> DEFINE empty == [session |-> 0, whole |-> FALSE]
           one == [path |-> path, program |-> layout, session |-> 0]
<1>1. /\ playerData' \in [Servers -> Inputs \cup {NoInput}]
      /\ playerData'[s] # NoInput
      /\ \A u \in Servers : u # s => playerData'[u] = playerData[u]
      /\ \A u \in Servers : playerData'[u] # NoInput => Assembled(playerData'[u], sharing)
    BY CopyKeeps DEF StartParty
<1>2. inputs[t] \in Inputs /\ Len(sessions) \in Nat
    BY DEF StartParty, CopyInput, TypeOK
<1>3. one \in [path : Paths, program : Layouts, session : 0 .. Len(sessions)]
    BY <1>2
<1>4. /\ party' = [party EXCEPT ![s] = one]
      /\ logs' = [logs EXCEPT ![s][path] = empty]
      /\ logs[s][path] = NoLog
    BY DEF StartParty, OpenLog
<1>5. empty \in [session : 0 .. Len(sessions), whole : BOOLEAN]
    BY <1>2
<1> HIDE DEF one, empty
<1>6. logs' \in [Servers -> [Paths -> {NoLog} \cup
          [session : 0 .. Len(sessions), whole : BOOLEAN]]]
    BY <1>4, <1>5 DEF TypeOK
<1>7. party' \in [Servers -> {Idle} \cup
          [path : Paths, program : Layouts, session : 0 .. Len(sessions)]]
    BY <1>3, <1>4 DEF TypeOK
<1>8. faults' \in 0 .. MaxFaults
    BY DeploymentAssumption DEF TypeOK, StartParty, Fault
<1>9. TypeOK'
    BY <1>1, <1>6, <1>7, <1>8 DEF TypeOK, StartParty
<1>10. InputsAssembled'
    BY <1>1, <1>4 DEF InputsAssembled, DocumentsTrue, StartParty, TypeOK
<1>11. LogsAccounted'
    <2>1. \A u \in Servers, l \in Paths :
              logs'[u][l] = IF u = s /\ l = path THEN empty ELSE logs[u][l]
        BY <1>4 DEF TypeOK
    <2>2. \A u \in Servers : party'[u] = IF u = s THEN one ELSE party[u]
        BY <1>4 DEF TypeOK
    <2>3. \A r \in returned : ~(r.server = s /\ r.path = path)
        <3> SUFFICES ASSUME NEW r \in returned, r.server = s, r.path = path
                     PROVE  FALSE
            OBVIOUS
        <3>1. logs[s][path] = [session |-> r.session, whole |-> TRUE]
            BY DEF LogsAccounted, LogOwn, ReturnedLogsStand
        <3>2. logs[s][path].whole = TRUE
            BY <3>1
        <3>3. logs[s][path].whole = FALSE
            BY <1>4 DEF NoLog
        <3> QED
            BY <3>2, <3>3
    <2>4. ReturnedLogsStand'
        BY <2>1, <2>3 DEF StartParty, LogsAccounted, ReturnedLogsStand, TypeOK
    <2>5. \A u \in Servers : party'[u] # Idle => LogOwn(u, party[u])'
        <3> TAKE u \in Servers
        <3> CASE u = s
            BY <2>1, <2>2 DEF LogOwn, one, empty
        <3> CASE u # s
            BY <2>1, <2>2 DEF LogsAccounted, LogOwn
        <3> QED
            OBVIOUS
    <2>6. \A u \in Servers, l \in Paths : logs'[u][l].whole =>
              logs'[u][l].session \in DOMAIN sessions
        BY <2>1 DEF LogsAccounted, empty
    <2> QED
        BY <2>4, <2>5, <2>6 DEF LogsAccounted, StartParty
<1> QED
    BY <1>9, <1>10, <1>11

LEMMA RefusedStartKeeps ==
    ASSUME IInv, NEW s \in Servers, NEW t \in Servers, NEW layout \in Layouts,
           RefusedStart(s, t, layout)
    PROVE  IInv'
<1> USE DEF IInv, outputs
<1>1. /\ playerData' \in [Servers -> Inputs \cup {NoInput}]
      /\ playerData'[s] # NoInput
      /\ \A u \in Servers : u # s => playerData'[u] = playerData[u]
      /\ \A u \in Servers : playerData'[u] # NoInput => Assembled(playerData'[u], sharing)
    BY CopyKeeps DEF RefusedStart
<1>2. faults' \in 0 .. MaxFaults
    BY DeploymentAssumption DEF TypeOK, RefusedStart, Fault
<1>3. TypeOK'
    BY <1>1, <1>2 DEF TypeOK, RefusedStart
<1>4. InputsAssembled'
    BY <1>1 DEF InputsAssembled, DocumentsTrue, RefusedStart
<1>5. LogsAccounted'
    BY DEF LogsAccounted, LogOwn, ReturnedLogsStand, RefusedStart
<1> QED
    BY <1>3, <1>4, <1>5

(* A session reads what lies in Player-Data, all of it assembled.          *)
LEMMA ConnectKeeps ==
    ASSUME IInv, Connect
    PROVE  IInv'
<1> USE DEF IInv, files, outputs
<1> DEFINE x == [program |-> party[0].program, inputs |-> playerData]
           n == Len(sessions) + 1
<1>1. 0 \in Servers /\ Len(sessions) \in Nat /\ n \in Nat
    BY DEF Servers, TypeOK
<1>2. \A s \in Servers : /\ party[s] # Idle
                        /\ party[s] \in [path : Paths, program : Layouts,
                                         session : 0 .. Len(sessions)]
                        /\ playerData[s] \in Inputs
                        /\ Assembled(playerData[s], sharing)
    BY DEF Connect, TypeOK, InputsAssembled
<1>3. x \in [program : Layouts, inputs : [Servers -> Inputs]]
    BY <1>1, <1>2 DEF TypeOK
<1>4. sessions' = Append(sessions, x)
    BY DEF Connect
<1> HIDE DEF x
<1>5. /\ sessions' \in Seq([program : Layouts, inputs : [Servers -> Inputs]])
      /\ Len(sessions') = n
      /\ DOMAIN sessions' = 1 .. n
      /\ DOMAIN sessions = 1 .. Len(sessions)
      /\ \A m \in DOMAIN sessions : sessions'[m] = sessions[m]
      /\ sessions'[n] = x
    BY <1>3, <1>4 DEF TypeOK
<1>6. party' = [s \in Servers |-> [party[s] EXCEPT !.session = n]]
    BY DEF Connect
<1> HIDE DEF n
<1>7. \A s \in Servers : /\ party'[s] \in [path : Paths, program : Layouts, session : 0 .. n]
                        /\ party'[s].path = party[s].path
                        /\ party'[s] = [party[s] EXCEPT !.session = n]
    BY <1>1, <1>2, <1>6 DEF n
<1>8. TypeOK'
    <2>1. Len(sessions) <= n
        BY <1>1 DEF n
    <2>2. 0 .. Len(sessions) \subseteq 0 .. n /\ 1 .. Len(sessions) \subseteq 1 .. n
        BY <1>1, <2>1
    <2>3. party' \in [Servers -> {Idle} \cup
              [path : Paths, program : Layouts, session : 0 .. n]]
        BY <1>6, <1>7
    <2>4. logs' \in [Servers -> [Paths -> {NoLog} \cup
              [session : 0 .. n, whole : BOOLEAN]]]
        BY <2>2 DEF TypeOK, Connect
    <2>5. returned' \subseteq [server : Servers, path : Paths, session : 1 .. n]
        BY <2>2 DEF TypeOK, Connect
    <2> QED
        BY <1>5, <2>3, <2>4, <2>5 DEF TypeOK, Connect
<1>9. InputsAssembled'
    <2>1. \A m \in DOMAIN sessions' : \A s \in Servers : Assembled(sessions'[m].inputs[s], sharing)
        <3> TAKE m \in DOMAIN sessions'
        <3> TAKE s \in Servers
        <3>1. CASE m \in DOMAIN sessions
            BY <1>5, <3>1 DEF InputsAssembled
        <3>2. CASE m = n
            BY <1>2, <1>5, <3>2 DEF x
        <3> QED
            BY <1>1, <1>5, <3>1, <3>2 DEF n
    <2> QED
        BY <1>2, <2>1 DEF InputsAssembled, DocumentsTrue, Connect
<1>10. LogsAccounted'
    <2>1. DOMAIN sessions \subseteq DOMAIN sessions'
        BY <1>1, <1>5 DEF n
    <2>2. \A u \in Servers : LogOwn(u, party[u])'
        <3> TAKE u \in Servers
        <3>1. party[u].session = 0 /\ LogOwn(u, party[u])
            BY <1>2 DEF Connect, LogsAccounted
        <3>2. party[u].path \in Paths
              /\ logs[u][party[u].path] = [session |-> 0, whole |-> FALSE]
            BY <3>1 DEF LogOwn
        <3>3. party'[u].path = party[u].path /\ logs' = logs
            BY <1>7 DEF Connect
        <3> QED
            BY <3>2, <3>3 DEF LogOwn
    <2>3. ReturnedLogsStand'
        BY DEF LogsAccounted, ReturnedLogsStand, Connect
    <2> QED
        BY <2>1, <2>2, <2>3 DEF LogsAccounted, Connect
<1> QED
    BY <1>8, <1>9, <1>10
(* A party that has printed everything fills its own log, which nobody had *)
(* been given.                                                             *)
LEMMA PrintKeeps ==
    ASSUME IInv, NEW s \in Servers, PrintLast(s)
    PROVE  IInv'
<1> USE DEF IInv, files
<1> DEFINE n == party[s].session
           path == party[s].path
           full == [session |-> n, whole |-> TRUE]
<1>1. /\ party[s] # Idle
      /\ party[s] \in [path : Paths, program : Layouts, session : 0 .. Len(sessions)]
      /\ n > 0
    BY DEF PrintLast, TypeOK, Idle
<1>2. path \in Paths /\ n \in 1 .. Len(sessions) /\ n \in DOMAIN sessions
    BY <1>1 DEF TypeOK
<1>3. /\ logs' = [logs EXCEPT ![s][path] = full]
      /\ logs[s][path].whole = FALSE
    BY <1>1, <1>2 DEF PrintLast, TypeOK, LogsAccounted, LogOwn
<1>4. full \in [session : 0 .. Len(sessions), whole : BOOLEAN]
    BY <1>2 DEF TypeOK
<1>5. \A u \in Servers, l \in Paths :
          logs'[u][l] = IF u = s /\ l = path THEN full ELSE logs[u][l]
    BY <1>2, <1>3 DEF TypeOK
<1> HIDE DEF full, path
<1>6. TypeOK'
    <2>1. logs' \in [Servers -> [Paths -> {NoLog} \cup
              [session : 0 .. Len(sessions), whole : BOOLEAN]]]
        BY <1>2, <1>3, <1>4 DEF TypeOK
    <2> QED
        BY <2>1 DEF TypeOK, PrintLast
<1>7. InputsAssembled'
    BY DEF InputsAssembled, DocumentsTrue, PrintLast
<1>8. LogsAccounted'
    <2>1. \A q \in returned : ~(q.server = s /\ q.path = path)
        <3> SUFFICES ASSUME NEW q \in returned, q.server = s, q.path = path
                     PROVE  FALSE
            OBVIOUS
        <3>1. logs[s][path] = [session |-> q.session, whole |-> TRUE]
            BY DEF LogsAccounted, ReturnedLogsStand
        <3> QED
            BY <1>3, <3>1
    <2>2. ReturnedLogsStand'
        BY <1>5, <2>1 DEF PrintLast, LogsAccounted, ReturnedLogsStand, TypeOK
    <2>3. \A u \in Servers : party'[u] # Idle => LogOwn(u, party[u])'
        <3> TAKE u \in Servers
        <3>1. party' = party
            BY DEF PrintLast
        <3>2. CASE u = s
            BY <1>1, <1>2, <1>5, <3>1, <3>2 DEF LogOwn, full, path
        <3>3. CASE u # s
            BY <1>5, <3>1, <3>3 DEF LogsAccounted, LogOwn
        <3> QED
            BY <3>2, <3>3
    <2>4. \A u \in Servers, l \in Paths : logs'[u][l].whole =>
              logs'[u][l].session \in DOMAIN sessions
        BY <1>2, <1>5 DEF LogsAccounted, full
    <2> QED
        BY <2>2, <2>3, <2>4 DEF LogsAccounted, PrintLast
<1> QED
    BY <1>6, <1>7, <1>8

(* A party ends well only when its log is whole, so that is what is        *)
(* returned.                                                               *)
LEMMA FinishKeeps ==
    ASSUME IInv, NEW s \in Servers, Finish(s)
    PROVE  IInv'
<1> USE DEF IInv, files
<1> DEFINE n == party[s].session
           path == party[s].path
           r == [server |-> s, path |-> path, session |-> n]
<1>1. /\ party[s] # Idle
      /\ party[s] \in [path : Paths, program : Layouts, session : 0 .. Len(sessions)]
      /\ n > 0
    BY DEF Finish, TypeOK, Idle
<1>2. path \in Paths /\ n \in 1 .. Len(sessions)
    BY <1>1 DEF TypeOK
<1>3. /\ party' = [party EXCEPT ![s] = Idle]
      /\ returned' = returned \cup {r}
      /\ logs' = logs
    BY DEF Finish
<1>4. logs[s][path] = [session |-> n, whole |-> TRUE]
    BY <1>1 DEF Finish, LogsAccounted, LogOwn
<1>5. r \in [server : Servers, path : Paths, session : 1 .. Len(sessions)]
    BY <1>2
<1>6. TypeOK'
    <2>1. party' \in [Servers -> {Idle} \cup
              [path : Paths, program : Layouts, session : 0 .. Len(sessions)]]
        BY <1>3 DEF TypeOK
    <2> QED
        BY <1>3, <1>5, <2>1 DEF TypeOK, Finish
<1>7. InputsAssembled'
    BY <1>3 DEF InputsAssembled, DocumentsTrue, Finish, TypeOK
<1>8. LogsAccounted'
    <2>1. ReturnedLogsStand'
        <3> SUFFICES ASSUME NEW q \in returned'
                     PROVE  logs[q.server][q.path] =
                                [session |-> q.session, whole |-> TRUE]
            BY <1>3 DEF ReturnedLogsStand
        <3>1. CASE q = r
            BY <1>4, <3>1
        <3>2. CASE q \in returned
            BY <3>2 DEF LogsAccounted, ReturnedLogsStand
        <3> QED
            BY <1>3, <3>1, <3>2
    <2>2. \A u \in Servers : party'[u] # Idle => LogOwn(u, party[u])'
        BY <1>3 DEF LogsAccounted, LogOwn, TypeOK
    <2> QED
        BY <1>3, <2>1, <2>2 DEF LogsAccounted, Finish
<1> QED
    BY <1>6, <1>7, <1>8

LEMMA TimeoutKeeps ==
    ASSUME IInv, NEW s \in Servers, Timeout(s)
    PROVE  IInv'
<1> USE DEF IInv, files, outputs
<1>1. \A u \in Servers : party'[u] = IF u = s THEN Idle ELSE party[u]
    BY DEF Timeout, TypeOK
<1>2. faults' \in 0 .. MaxFaults
    BY DeploymentAssumption DEF TypeOK, Timeout, Fault
<1>3. TypeOK'
    BY <1>2 DEF TypeOK, Timeout
<1>4. InputsAssembled'
    BY <1>1 DEF InputsAssembled, DocumentsTrue, Timeout
<1>5. LogsAccounted'
    BY <1>1 DEF LogsAccounted, LogOwn, ReturnedLogsStand, Timeout
<1> QED
    BY <1>3, <1>4, <1>5

-----------------------------------------------------------------------------
(* The inductive invariant holds in every state of a deployment.           *)
THEOREM Invariant == Spec => []IInv
<1>1. ASSUME IInv, [Next]_vars PROVE IInv'
    <2>1. ASSUME NEW p \in Sharers, Share(p) PROVE IInv'
        BY <1>1, <2>1, ShareKeeps
    <2>2. ASSUME NEW p \in Sharers, NEW s \in {1, 2}, WriteDocument(p, s) PROVE IInv'
        BY <1>1, <2>2, WriteDocumentKeeps
    <2>3. ASSUME NEW s \in Servers, NEW layout \in Layouts, AssembleInput(s, layout)
          PROVE  IInv'
        BY <1>1, <2>3, AssembleInputKeeps
    <2>4. ASSUME NEW s \in Servers, NEW t \in Servers, NEW layout \in Layouts,
                 NEW path \in Paths, StartParty(s, t, layout, path)
          PROVE  IInv'
        BY <1>1, <2>4, StartPartyKeeps
    <2>5. ASSUME NEW s \in Servers, NEW t \in Servers, NEW layout \in Layouts,
                 RefusedStart(s, t, layout)
          PROVE  IInv'
        BY <1>1, <2>5, RefusedStartKeeps
    <2>6. ASSUME NEW s \in Servers, Finish(s) PROVE IInv'
        BY <1>1, <2>6, FinishKeeps
    <2>7. ASSUME NEW s \in Servers, Timeout(s) PROVE IInv'
        BY <1>1, <2>7, TimeoutKeeps
    <2>8. CASE Connect
        BY <1>1, <2>8, ConnectKeeps
    <2>9. ASSUME NEW s \in Servers, PrintLast(s) PROVE IInv'
        BY <1>1, <2>9, PrintKeeps
    <2>10. CASE UNCHANGED vars
        BY <1>1, <2>10 DEF IInv, TypeOK, InputsAssembled, DocumentsTrue,
           LogsAccounted, LogOwn, ReturnedLogsStand, vars, files, outputs
    <2> QED
        BY <1>1, <2>1, <2>2, <2>3, <2>4, <2>5, <2>6, <2>7, <2>8, <2>9, <2>10 DEF Next
<1> QED
    BY <1>1, InitiallyInvariant, PTL DEF Spec

(* Files, parties, sessions and logs keep their types.                     *)
THEOREM TypeCorrect == Spec => []TypeOK
<1>1. IInv => TypeOK
    BY DEF IInv
<1> QED
    BY <1>1, Invariant, PTL

(* A log that run_party returned keeps every line of its session, however  *)
(* often parties are started, refused, killed and started again.           *)
THEOREM LogsStand == Spec => []ReturnedLogsStand
<1>1. IInv => ReturnedLogsStand
    BY DEF IInv, LogsAccounted
<1> QED
    BY <1>1, Invariant, PTL

(* Three logs that decode hold one session, and what they decode to is     *)
(* what that session computed.                                             *)
LEMMA DecodedSession ==
    ASSUME IInv, NEW given \in [Servers -> WholeLogs], Decode(given) # "refused"
    PROVE  LET n == logs[0][given[0].path].session
           IN  n \in DOMAIN sessions /\ Decode(given) = Computed(sessions[n])
<1> DEFINE n == logs[0][given[0].path].session
<1>1. \A s \in Servers : given[s].server = s
    BY DEF Decode
<1>2. Reconstruct(given) # "random" /\ Decode(given) = Reconstruct(given)
    BY DEF Decode
<1>3. \A s \in Servers : logs[s][given[s].path].session = n
    BY <1>2 DEF Reconstruct
<1>4. Reconstruct(given) = Computed(sessions[n])
    BY <1>1, <1>3 DEF Reconstruct
<1>5. given[0].path \in Paths /\ logs[0][given[0].path].whole /\ 0 \in Servers
    BY <1>1 DEF WholeLogs, Servers
<1> QED
    BY <1>2, <1>4, <1>5 DEF IInv, LogsAccounted

(* Servers that assembled for the program from sharings that were made     *)
(* have documents of the same sharing of every sharer, if no two sharings  *)
(* look alike to the program: each validated the digest.                   *)
LEMMA OneSharingOpens ==
    ASSUME NEW x, sharing \in [Sharers -> Nat],
           \A s \in Servers : Assembled(x.inputs[s], sharing),
           OwnInputs(x), \A p \in Sharers : SharedOnce(p, x.program)
    PROVE  Computed(x) = "exact"
<1>1. 0 \in Servers
    BY DEF Servers
<1>2. SUFFICES ASSUME NEW p \in Sharers
               PROVE  \E k \in Sharings(p) : Opens(x, p, k)
    BY DEF Computed
<1>3. PICK d \in x.inputs[0].documents : d.sharer = p
    BY <1>1 DEF Assembled
<1>4. ASSUME NEW s \in Servers, NEW e \in x.inputs[s].documents, e.sharer = p
      PROVE  /\ e.sharing \in 1 .. sharing[p]
             /\ e.sharing \in Sharings(p)
             /\ e = Document(p, e.sharing, s)
             /\ DigestOf[p][LayoutOf[p][e.sharing]] = DigestOf[p][x.program]
    <2>1. x.inputs[s].layout = x.program /\ x.inputs[s].server = s
        BY DEF OwnInputs
    <2>2. /\ e.sharing \in 1 .. sharing[p]
          /\ e.sharing \in Sharings(p)
          /\ e = Document(p, e.sharing, s)
          /\ e.digest = DigestOf[p][x.program]
        BY <1>4, <2>1 DEF Assembled
    <2>3. e.digest = DigestOf[p][LayoutOf[p][e.sharing]]
        BY <2>2 DEF Document
    <2> QED
        BY <2>2, <2>3
<1>5. Opens(x, p, d.sharing)
    <2> SUFFICES ASSUME NEW s \in Servers
                 PROVE  /\ x.inputs[s].layout = x.program
                        /\ {e \in x.inputs[s].documents : e.sharer = p} =
                               {[sharer |-> p, sharing |-> d.sharing, server |-> s,
                                 digest |-> DigestOf[p][x.program]]}
        BY DEF Opens
    <2>1. PICK e \in x.inputs[s].documents : e.sharer = p
        BY DEF Assembled
    <2>2. {f \in x.inputs[s].documents : f.sharer = p} = {e}
        BY <2>1 DEF Assembled
    <2>3. e.sharing = d.sharing
        BY <1>1, <1>3, <1>4, <2>1 DEF SharedOnce
    <2>4. e = [sharer |-> p, sharing |-> d.sharing, server |-> s,
               digest |-> DigestOf[p][x.program]]
        BY <1>4, <2>1, <2>3 DEF Document
    <2> QED
        BY <2>2, <2>4 DEF OwnInputs
<1> QED
    BY <1>1, <1>3, <1>4, <1>5

(* What the client accepts is exact over one sharing of every owner and of *)
(* the batch, if the hosts of its session read inputs of their own for its *)
(* program and nobody shared twice under the digests it accepts.           *)
THEOREM Exact == Spec => []AcceptedIsExact
<1>1. ASSUME IInv PROVE AcceptedIsExact
    <2> SUFFICES ASSUME NEW given \in [Servers -> WholeLogs],
                        Decode(given) # "refused",
                        NEW x, x = sessions[logs[0][given[0].path].session],
                        OwnInputs(x), \A p \in Sharers : SharedOnce(p, x.program)
                 PROVE  Decode(given) = "exact"
        BY DEF AcceptedIsExact
    <2> DEFINE n == logs[0][given[0].path].session
    <2>1. n \in DOMAIN sessions /\ Decode(given) = Computed(x)
        BY <1>1, DecodedSession
    <2>2. \A s \in Servers : Assembled(x.inputs[s], sharing)
        BY <1>1, <2>1 DEF IInv, InputsAssembled
    <2>3. sharing \in [Sharers -> Nat]
        BY <1>1 DEF IInv, TypeOK
    <2> QED
        BY <2>1, <2>2, <2>3, OneSharingOpens
<1> QED
    BY <1>1, Invariant, PTL
=============================================================================
