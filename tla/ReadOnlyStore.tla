---------------------------- MODULE ReadOnlyStore ----------------------------
(***************************************************************************)
(* What a recursive ORAM stack promises the circuit that reads it: a table *)
(* that never changes, read at most MaxAccesses times per epoch.  A read   *)
(* of an address of the table returns its record and is valid; a read of   *)
(* any other address is answered too, but is marked invalid.  Nothing here *)
(* mentions trees, leaf labels or stashes.                                 *)
(***************************************************************************)
EXTENDS Integers

CONSTANTS
    Table,        \* the records, a function on the addresses
    Requests,     \* every address a reader may ask for
    MaxAccesses   \* the public access budget of one epoch

VARIABLES
    served,       \* reads answered in this epoch
    pending,      \* {a} while the read of a is in progress, else {}
    answer        \* the last answer, or none before the first

vars == <<served, pending, answer>>

NoAnswer == [valid |-> FALSE]

\* The answers a read of a may get: its record, or anything marked invalid.
Answers(a) ==
    IF a \in DOMAIN Table
    THEN {[address |-> a, valid |-> TRUE, value |-> Table[a]]}
    ELSE {[address |-> a, valid |-> FALSE, value |-> Table[b]] :
             b \in DOMAIN Table}

Init ==
    /\ served = 0
    /\ pending = {}
    /\ answer = NoAnswer

Ask(a) ==
    /\ pending = {}
    /\ served < MaxAccesses
    /\ pending' = {a}
    /\ UNCHANGED <<served, answer>>

Reply(a) ==
    /\ pending = {a}
    /\ pending' = {}
    /\ served' = served + 1
    /\ answer' \in Answers(a)

Next == \E a \in Requests : Ask(a) \/ Reply(a)

Spec == Init /\ [][Next]_vars
=============================================================================
