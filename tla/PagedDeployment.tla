--------------------------- MODULE PagedDeployment ---------------------------
(***************************************************************************)
(* One relation-paged deployment, from the owners' shards to the client.   *)
(*                                                                         *)
(* Every owner, and the client for its query batch, splits what it holds   *)
(* into three additive shares and writes one document per server.  Every   *)
(* server assembles a private input from the documents it was given and    *)
(* runs its party; three parties of one program meet in a session, and     *)
(* each prints its output shares to a log.  The client decodes the batch   *)
(* from one log of each server.                                            *)
(*                                                                         *)
(* Owners share again, preparations and parties die anywhere, documents,   *)
(* inputs and logs of any age are handed to anyone: no document carries    *)
(* the number of its sharing and no log that of its session, and a start   *)
(* sees of its input only how many values there are.  Shares of            *)
(* one sharing add up to what was shared; others add up to a random field  *)
(* element, which is taken never to be a Boolean.                          *)
(***************************************************************************)
EXTENDS Integers, Sequences, FiniteSets

CONSTANTS
    Sharers,     \* the owners, and the client that shares its query batch
    Layouts,     \* public configurations, each with a batch size
    ValueCount,  \* ValueCount[layout]: the values of an input of that layout
    DigestOf,    \* DigestOf[p][layout]: what the documents of sharer p name, an
                 \* owner the configuration, the client its base and the size
    LayoutOf,    \* LayoutOf[p][k]: what sharer p's k-th sharing is made under
    MaxLogs,     \* bound on the output logs of a server
    MaxFaults    \* bound on new sharings, failed parties, misdelivered
                 \* inputs and refused starts

ASSUME DeploymentAssumption ==
    /\ IsFiniteSet(Sharers)
    /\ ValueCount \in [Layouts -> Nat]
    /\ \A p \in Sharers : DOMAIN DigestOf[p] = Layouts
    /\ LayoutOf \in [Sharers -> Seq(Layouts)]
    /\ MaxLogs \in Nat
    /\ MaxFaults \in Nat

Servers == 0 .. 2
Paths == 1 .. MaxLogs      \* log names, in the order of their first use
Idle == [path |-> 0, program |-> "none", session |-> 0]
NoInput == [server |-> 0, layout |-> "none", documents |-> {}]
NoLog == [session |-> -1, whole |-> FALSE]
Sharings(p) == 1 .. Len(LayoutOf[p])

\* One shard: the metadata the writer puts in it, and whose secret it shares.
Documents ==
    [sharer : Sharers, sharing : Nat, server : Nat,
     digest : UNION {{DigestOf[p][l] : l \in Layouts} : p \in Sharers}]
\* One assembled input file.
Inputs == [server : Servers, layout : Layouts, documents : SUBSET Documents]

VARIABLES
    sharing,     \* sharing[p]: how often p has split its secret
    documents,   \* every shard ever put in place; copies of it stay around
    inputs,      \* inputs[s]: the input file server s has assembled last
    playerData,  \* playerData[s]: the input in the party's Player-Data
    party,       \* party[s]: the log, the program and the session of a party
    sessions,    \* sessions the parties have held: program and inputs read
    logs,        \* logs[s][path]: session and completeness, or NoLog
    returned,    \* logs that run_party has returned to the operator
    faults       \* what has gone wrong so far

files == <<inputs, playerData>>
outputs == <<logs, returned>>
vars == <<sharing, documents, files, party, sessions, outputs, faults>>

Init ==
    /\ sharing = [p \in Sharers |-> 0]
    /\ documents = {}
    /\ inputs = [s \in Servers |-> NoInput]
    /\ playerData = [s \in Servers |-> NoInput]
    /\ party = [s \in Servers |-> Idle]
    /\ sessions = <<>>
    /\ logs = [s \in Servers |-> [l \in Paths |-> NoLog]]
    /\ returned = {}
    /\ faults = 0

\* One more thing goes wrong.
Fault ==
    /\ faults < MaxFaults
    /\ faults' = faults + 1

-----------------------------------------------------------------------------
\* The document of p's k-th sharing for server s.
Document(p, k, s) ==
    [sharer |-> p, sharing |-> k, server |-> s,
     digest |-> DigestOf[p][LayoutOf[p][k]]]

\* A sharer splits its secret anew, for another batch, other edges or after
\* a crash among the documents of the last sharing.
Share(p) ==
    /\ sharing[p] < Len(LayoutOf[p])
    /\ sharing' = [sharing EXCEPT ![p] = @ + 1]
    /\ documents' = documents \cup {Document(p, sharing[p] + 1, 0)}
    /\ IF sharing[p] = 0 THEN UNCHANGED faults ELSE Fault
    /\ UNCHANGED <<files, party, sessions, outputs>>

\* It puts the document of the next server in place, in one rename.
WriteDocument(p, s) ==
    /\ sharing[p] > 0
    /\ Document(p, sharing[p], s - 1) \in documents
    /\ documents' = documents \cup {Document(p, sharing[p], s)}
    /\ UNCHANGED <<sharing, files, party, sessions, outputs, faults>>

\* Mutant: documents of another configuration or batch size are taken.
ValidatedForServer(d, s, layout) == d.server = s

\* The metadata checks of owner and query documents.
Validated(d, s, layout) ==
    /\ d.server = s
    /\ d.digest = DigestOf[d.sharer][layout]

\* Server s assembles from documents it holds: refused if one is not for it
\* or for this layout, if one sharer comes twice, or if one is missing.
AssembleInput(s, layout) ==
    \E given \in SUBSET {d \in documents : Validated(d, s, layout)} :
        /\ \A d, e \in given : d.sharer = e.sharer => d = e
        /\ {d.sharer : d \in given} = Sharers
        /\ inputs' = [inputs EXCEPT ![s] =
               [server |-> s, layout |-> layout, documents |-> given]]
        /\ UNCHANGED <<sharing, documents, playerData, party, sessions,
                       outputs, faults>>

-----------------------------------------------------------------------------
\* Mutant: the input is not looked at.
CopyAnything(s, t, layout) ==
    playerData' = [playerData EXCEPT ![s] = inputs[t]]

\* run_party for a layout, up to the start of the binary: the input it is
\* handed, that of server t, has as many values as one of the layout has.
\* Whose they are and what they mean it cannot see.
CopyInput(s, t, layout) ==
    /\ inputs[t] # NoInput
    /\ ValueCount[inputs[t].layout] = ValueCount[layout]
    /\ playerData' = [playerData EXCEPT ![s] = inputs[t]]

\* Mutant: the log is opened for writing, whatever is there.
OpenAnyLog(s, path) ==
    logs' = [logs EXCEPT ![s][path] = [session |-> 0, whole |-> FALSE]]

\* The output log is created exclusively.
OpenLog(s, path) ==
    /\ logs[s][path] = NoLog
    /\ \A earlier \in 1 .. path - 1 : logs[s][earlier] # NoLog
    /\ logs' = [logs EXCEPT ![s][path] = [session |-> 0, whole |-> FALSE]]

\* The party runs the program of its layout, on whatever input was counted.
StartParty(s, t, layout, path) ==
    /\ party[s] = Idle
    /\ CopyInput(s, t, layout)
    /\ OpenLog(s, path)
    /\ party' = [party EXCEPT ![s] = [path |-> path,
                     program |-> layout, session |-> 0]]
    /\ IF s = t /\ inputs[t].layout = layout THEN UNCHANGED faults ELSE Fault
    /\ UNCHANGED <<sharing, documents, inputs, sessions, returned>>

\* The compiler fails, or the log is there already: this call raises, but the
\* input of the home, where a party may be waiting, has been replaced by then.
RefusedStart(s, t, layout) ==
    /\ CopyInput(s, t, layout)
    /\ Fault
    /\ UNCHANGED <<sharing, documents, inputs, party, sessions, outputs>>

\* Three waiting parties of one program meet and read their inputs.
Connect ==
    /\ \A s \in Servers : party[s] # Idle /\ party[s].session = 0
    /\ \A s \in Servers : party[s].program = party[0].program
    /\ sessions' = Append(sessions, [program |-> party[0].program,
                                     inputs |-> playerData])
    /\ party' = [s \in Servers |->
                    [party[s] EXCEPT !.session = Len(sessions) + 1]]
    /\ UNCHANGED <<sharing, documents, files, outputs, faults>>

\* The party prints the last of its shares, and has yet to end.
PrintLast(s) ==
    /\ party[s].session > 0
    /\ ~logs[s][party[s].path].whole
    /\ logs' = [logs EXCEPT ![s][party[s].path] =
                    [session |-> party[s].session, whole |-> TRUE]]
    /\ UNCHANGED <<sharing, documents, files, party, sessions, returned, faults>>

\* The party ends well, and run_party returns its log.
Finish(s) ==
    /\ party[s].session > 0
    /\ logs[s][party[s].path].whole
    /\ returned' = returned \cup
           {[server |-> s, path |-> party[s].path,
             session |-> party[s].session]}
    /\ party' = [party EXCEPT ![s] = Idle]
    /\ UNCHANGED <<sharing, documents, files, sessions, logs, faults>>

\* The party fails, or its timeout kills it, and run_party raises.  The log
\* stays as far as it got, which may be all of it.
Timeout(s) ==
    /\ party[s] # Idle
    /\ Fault
    /\ party' = [party EXCEPT ![s] = Idle]
    /\ UNCHANGED <<sharing, documents, files, sessions, outputs>>

-----------------------------------------------------------------------------
\* What the three shares of sharer p add up to in a session: p's k-th secret
\* if they are the three shares of that sharing, read by the right parties.
Opens(x, p, k) ==
    \A s \in Servers :
        /\ x.inputs[s].layout = x.program
        /\ {d \in x.inputs[s].documents : d.sharer = p} =
               {[sharer |-> p, sharing |-> k, server |-> s,
                 digest |-> DigestOf[p][x.program]]}

\* The batch a session computes: exact over one sharing of every sharer, or
\* well-formed rows that mean nothing.
Computed(x) ==
    IF \A p \in Sharers : \E k \in Sharings(p) : Opens(x, p, k)
    THEN "exact"
    ELSE "meaningless"

\* The logs that hold all the lines of a session; decoding refuses others.
WholeLogs == {f \in [server : Servers, path : Paths] : logs[f.server][f.path].whole}

\* What the shares in three logs add up to; "random" is not a Boolean.
Reconstruct(given) ==
    LET n == logs[0][given[0].path].session
    IN  IF \A s \in Servers : /\ given[s].server = s
                              /\ logs[s][given[s].path].session = n
        THEN Computed(sessions[n])
        ELSE "random"

\* decode_batch_logs on three whole logs: refused if a log has the lines of
\* another server, or if a validity is not a Boolean.
Decode(given) ==
    IF (\A s \in Servers : given[s].server = s) /\ Reconstruct(given) # "random"
    THEN Reconstruct(given)
    ELSE "refused"

Next ==
    \/ \E p \in Sharers : Share(p) \/ \E s \in {1, 2} : WriteDocument(p, s)
    \/ \E s \in Servers :
           \/ \E layout \in Layouts :
                  \/ AssembleInput(s, layout)
                  \/ \E t \in Servers :
                         \/ \E path \in Paths : StartParty(s, t, layout, path)
                         \/ RefusedStart(s, t, layout)
           \/ PrintLast(s)
           \/ Finish(s)
           \/ Timeout(s)
    \/ Connect

Spec == Init /\ [][Next]_vars

-----------------------------------------------------------------------------
(* Parties, logs and sessions have the shapes of the code's files, and a   *)
(* party is in a session that was held.                                    *)
TypeOK ==
    /\ sharing \in [Sharers -> Nat]
    /\ \A p \in Sharers : sharing[p] <= Len(LayoutOf[p])
    /\ documents \subseteq Documents
    /\ inputs \in [Servers -> Inputs \cup {NoInput}]
    /\ playerData \in [Servers -> Inputs \cup {NoInput}]
    /\ party \in [Servers -> {Idle} \cup
           [path : Paths, program : Layouts, session : 0 .. Len(sessions)]]
    /\ sessions \in Seq([program : Layouts, inputs : [Servers -> Inputs]])
    /\ logs \in [Servers -> [Paths -> {NoLog} \cup
           [session : 0 .. Len(sessions), whole : BOOLEAN]]]
    /\ returned \subseteq [server : Servers, path : Paths,
                           session : 1 .. Len(sessions)]
    /\ faults \in 0 .. MaxFaults

(* A log that run_party has returned goes on holding all the lines of that *)
(* session: neither a retry, a refused start nor a later session under the *)
(* same name takes away what the client needs.                             *)
ReturnedLogsStand ==
    \A r \in returned :
        logs[r.server][r.path] = [session |-> r.session, whole |-> TRUE]

\* The session's hosts ran on inputs assembled by themselves for the program.
OwnInputs(x) ==
    \A s \in Servers : x.inputs[s].server = s /\ x.inputs[s].layout = x.program

\* No two sharings of p so far name the digest that layout asks for.
SharedOnce(p, layout) ==
    \A k, l \in 1 .. sharing[p] :
        /\ DigestOf[p][LayoutOf[p][k]] = DigestOf[p][layout]
        /\ DigestOf[p][LayoutOf[p][l]] = DigestOf[p][layout]
        => k = l

(* Servers choose their documents apart from each other, among those of    *)
(* every batch and configuration so far, and start, fail and start again.  *)
(* Still an accepted batch is the exact answer over one sharing of every   *)
(* owner's edges and one query batch, provided that the hosts of its       *)
(* session read inputs they had assembled for its program, and that nobody *)
(* shared twice under digests this program accepts.  The code ensures      *)
(* neither: hosts read other inputs when one is delivered to the wrong     *)
(* host, assembled for another layout of as many values, or replaced by a  *)
(* refused start; and documents of two sharings may look alike.            *)
AcceptedIsExact ==
    \A given \in [Servers -> WholeLogs] :
        Decode(given) # "refused" =>
            LET x == sessions[logs[0][given[0].path].session]
            IN  OwnInputs(x) /\ (\A p \in Sharers : SharedOnce(p, x.program))
                => Decode(given) = "exact"
=============================================================================
