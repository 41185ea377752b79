---------------------------- MODULE MCOramAccess ----------------------------
(***************************************************************************)
(* Small stacks for TLC.  The record at address a is the number a + 1 and  *)
(* the zero record is 0, so no two records are confused.                   *)
(***************************************************************************)
EXTENDS OramAccess, TLC

\* Five records in three levels, the last entry of each upper level padded;
\* a leaf of the data level can overflow.
ThreeSize == (0 :> 5) @@ (1 :> 3) @@ (2 :> 2)
ThreeStride == (0 :> 1) @@ (1 :> 2) @@ (2 :> 4)
ThreeDepth == (0 :> 1) @@ (1 :> 1) @@ (2 :> 0)
ThreeLeaves == (0 :> 2) @@ (1 :> 2) @@ (2 :> 1)
ThreeBuckets == (0 :> 4) @@ (1 :> 3) @@ (2 :> 2)
ThreeTable == [a \in 0 .. 4 |-> a + 1]
=============================================================================
