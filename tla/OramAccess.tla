----------------------------- MODULE OramAccess -----------------------------
(***************************************************************************)
(* Reading one owner's recursive ORAM stack inside the three-party         *)
(* circuit.  The schedule of accesses is public: access number n is the    *)
(* same for every query.  An access walks from the scanned base down to    *)
(* the data tree and opens exactly one leaf label per level.  The stack is *)
(* never written, so instead of evicting, each level keeps a stash with    *)
(* one slot per scheduled access: an entry fetched before is served from   *)
(* the stash, and the leaf opened for it is a fresh random one.            *)
(***************************************************************************)
EXTENDS OramStack

CONSTANTS
    Requests,      \* addresses, in and out of range, the circuit may ask for
    MaxAccesses    \* the access budget of the epoch

ASSUME AccessAssumption ==
    /\ MaxAccesses \in Nat \ {0}
    /\ Requests \subseteq Int

VARIABLES
    served,        \* the public access number
    busy,          \* an access is in progress
    request,       \* the address it was asked for
    level,         \* the level it reads next
    leaf,          \* the leaf label found for that level
    chainValid,    \* every step so far found its entry
    stash,         \* stash[l][n]: what access n left at level l
    opened,        \* every leaf label opened so far, with why it was opened
    answer         \* the last answer

accessVars ==
    <<served, busy, request, level, leaf, chainValid, stash, opened, answer>>

vars == <<stackVars, accessVars>>

Accesses == 0 .. MaxAccesses - 1
InRange(a) == a \in Indices(0)

NoAnswer == [valid |-> FALSE]
EmptySlot(l) == [valid |-> FALSE, index |-> 0, value |-> ZeroValue(l)]

\* An address out of range is replaced by 0 and the answer marked invalid.
Address(a) == IF InRange(a) THEN a ELSE 0

\* The entry of the current level on the way to the requested address.
Wanted == LevelIndex(Address(request), level)

\* Mutant: the scan of the stash misses the previous access.
HitsButLast == {n \in 0 .. served - 2 :
                   stash[level][n].valid /\ stash[level][n].index = Wanted}

\* Only slots of earlier accesses are scanned.
Hits == {n \in 0 .. served - 1 :
            stash[level][n].valid /\ stash[level][n].index = Wanted}

-----------------------------------------------------------------------------
Init ==
    /\ StackInit
    /\ served = 0
    /\ busy = FALSE
    /\ request = 0
    /\ level = Top
    /\ leaf = 0
    /\ chainValid = FALSE
    /\ stash = [l \in Levels |-> [n \in Accesses |-> EmptySlot(l)]]
    /\ opened = {}
    /\ answer = NoAnswer

Build ==
    /\ PlaceLevel \/ RejectDraw
    /\ UNCHANGED accessVars

\* Mutant: the access number is not compared with the budget.
StartUnbudgeted(a) ==
    /\ phase = "serve"
    /\ ~busy
    /\ busy' = TRUE
    /\ request' = a
    /\ level' = Top
    /\ leaf' = pos[Top][LevelIndex(Address(a), Top)]
    /\ chainValid' = InRange(a)
    /\ UNCHANGED <<stackVars, served, stash, opened, answer>>

\* Mutant: the answer for a clamped address is not marked invalid.
StartUnchecked(a) ==
    /\ phase = "serve"
    /\ ~busy
    /\ served < MaxAccesses
    /\ busy' = TRUE
    /\ request' = a
    /\ level' = Top
    /\ leaf' = pos[Top][LevelIndex(Address(a), Top)]
    /\ chainValid' = TRUE
    /\ UNCHANGED <<stackVars, served, stash, opened, answer>>

\* The prologue of a reader: clamp the address and scan the base.
StartAccess(a) ==
    /\ phase = "serve"
    /\ ~busy
    /\ served < MaxAccesses
    /\ busy' = TRUE
    /\ request' = a
    /\ level' = Top
    /\ leaf' = pos[Top][LevelIndex(Address(a), Top)]
    /\ chainValid' = InRange(a)
    /\ UNCHANGED <<stackVars, served, stash, opened, answer>>

\* Mutant: the offset in a packed entry is taken from the entry's own index.
DescendOwnOffset(value, valid) ==
    IF level > 0
    THEN /\ leaf' = value[ChildOffset(Wanted)]
         /\ level' = level - 1
         /\ chainValid' = valid
         /\ UNCHANGED <<served, busy, request, answer>>
    ELSE /\ answer' = [address |-> request, valid |-> valid, value |-> value]
         /\ busy' = FALSE
         /\ served' = served + 1
         /\ chainValid' = valid
         /\ UNCHANGED <<request, level, leaf>>

\* What follows the read of a level: the label for the level below, or, at
\* the data level, the answer.
Descend(value, valid) ==
    IF level > 0
    THEN /\ leaf' = value[ChildOffset(LevelIndex(Address(request), level - 1))]
         /\ level' = level - 1
         /\ chainValid' = valid
         /\ UNCHANGED <<served, busy, request, answer>>
    ELSE /\ answer' = [address |-> request, valid |-> valid, value |-> value]
         /\ busy' = FALSE
         /\ served' = served + 1
         /\ chainValid' = valid
         /\ UNCHANGED <<request, level, leaf>>

\* Mutant: a hit saves its opening.
OpenOnMiss(label, real) ==
    opened' = IF real
              THEN opened \cup
                     {[access |-> served, level |-> level, index |-> Wanted,
                       leaf |-> label, real |-> real]}
              ELSE opened

Open(label, real) ==
    opened' = opened \cup
        {[access |-> served, level |-> level, index |-> Wanted,
          leaf |-> label, real |-> real]}

\* A hit: open a random leaf, answer from the first matching slot and leave
\* the slot of this access invalid.
ServeFromStash ==
    /\ busy
    /\ \E n \in Hits :
          /\ \A m \in Hits : n <= m
          /\ Descend(stash[level][n].value, chainValid)
    /\ \E label \in LeafLabels(level) : Open(label, FALSE)
    /\ stash' = [stash EXCEPT ![level][served] = EmptySlot(level)]
    /\ UNCHANGED stackVars

\* A miss: open the real leaf, take the entry if it is on the path, and
\* leave what was fetched in the slot of this access.
FetchFromPath ==
    /\ busy
    /\ Hits = {}
    /\ Open(leaf, TRUE)
    /\ LET found == OnPath(level, leaf, Wanted)
           fetched == IF found THEN Record(level, Wanted) ELSE ZeroValue(level)
       IN  /\ Descend(fetched, chainValid /\ found)
           /\ stash' = [stash EXCEPT ![level][served] =
                 [valid |-> TRUE, index |-> Wanted, value |-> fetched]]
    /\ UNCHANGED stackVars

\* The owner gave up, or the schedule is exhausted: nothing more happens.
Stopped ==
    /\ phase = "aborted" \/ (served = MaxAccesses /\ ~busy)
    /\ UNCHANGED vars

ReadLevel == ServeFromStash \/ FetchFromPath

Next ==
    \/ Build
    \/ \E a \in Requests : StartAccess(a)
    \/ ReadLevel
    \/ Stopped

Spec == Init /\ [][Next]_vars

-----------------------------------------------------------------------------
Openings ==
    [access : Accesses, level : Levels, index : Nat, leaf : Nat,
     real : BOOLEAN]

\* Every variable keeps its type; the width of a stash slot follows its level.
TypeOK ==
    /\ StackTypeOK
    /\ served \in 0 .. MaxAccesses
    /\ busy \in BOOLEAN
    /\ request \in Requests \cup {0}
    /\ level \in Levels
    /\ leaf \in Nat
    /\ chainValid \in BOOLEAN
    /\ DOMAIN stash = Levels
    /\ \A l \in Levels : DOMAIN stash[l] = Accesses
    /\ opened \subseteq Openings

(* The real leaf label of an entry is opened by at most one access of the  *)
(* epoch, at every level: this is what makes the opened labels independent *)
(* of the addresses.  Entries of an upper level are shared by addresses,   *)
(* so a stash at the data level alone would not give it (oram_layout.py,   *)
(* simulate_access_sequence).                                              *)
RealLeafOnce ==
    \A x, y \in opened :
        /\ x.real /\ y.real
        /\ x.level = y.level
        /\ x.index = y.index
        => x.access = y.access

(* Every finished access opened exactly one leaf label at every level,     *)
(* whatever it asked for, so the number and order of openings is a         *)
(* function of the public access number alone.                             *)
FixedSchedule ==
    \A n \in 0 .. served - 1, l \in Levels :
        Cardinality({x \in opened : x.access = n /\ x.level = l}) = 1

(* An answer marked valid carries the record of the address asked for, and *)
(* every address of the table gets a valid answer: no entry is lost in a   *)
(* full bucket, fetched from a wrong path, or taken from a stale slot.     *)
ReadCorrect ==
    answer # NoAnswer =>
        /\ answer.valid <=> InRange(answer.address)
        /\ answer.valid => answer.value = Table[answer.address]

(* While an access is in progress its label is the true label of the entry *)
(* it is about to read, and nothing is read before every level is placed.  *)
ChainFollowsMap ==
    /\ phase # "serve" => served = 0 /\ ~busy
    /\ busy => /\ served < MaxAccesses
               /\ request \in Requests
               /\ leaf = pos[level][Wanted]
               /\ chainValid <=> InRange(request)

\* Access n has passed level l.
Passed(n, l) == n < served \/ (n = served /\ busy /\ level < l)

StashTrue ==
    \A l \in Levels, n \in Accesses :
        stash[l][n].valid =>
            /\ Passed(n, l)
            /\ stash[l][n].index \in Indices(l)
            /\ stash[l][n].value = Record(l, stash[l][n].index)

OpenedIsStashed ==
    \A x \in opened :
        x.real => /\ stash[x.level][x.access].valid
                  /\ stash[x.level][x.access].index = x.index

(* The inductive invariant: a placed level fits its buckets, the label in  *)
(* hand is the true one, a valid stash slot belongs to an access that      *)
(* passed its level and holds the true record, and every real opening left *)
(* its entry in the stash.  A later access that wants the same entry of    *)
(* the same level therefore hits, and no hit returns a wrong record.       *)
IInv ==
    /\ TypeOK
    /\ PlacedFits
    /\ BuildProgress
    /\ ChainFollowsMap
    /\ StashTrue
    /\ OpenedIsStashed
    /\ RealLeafOnce
    /\ ReadCorrect

(* The stack implements the plain read-only table.                         *)
Store == INSTANCE ReadOnlyStore WITH
            pending <- IF busy THEN {request} ELSE {}
StoreSpec == Store!Spec
=============================================================================
