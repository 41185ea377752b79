------------------------- MODULE MCPagedDeployment -------------------------
(***************************************************************************)
(* Two configurations of as many values over one base, for TLC.  The owner *)
(* shares under the first, the second and the first again; the client has  *)
(* one batch, whose documents name the base and so suit both.              *)
(***************************************************************************)
EXTENDS PagedDeployment

MCValueCount == [l \in Layouts |-> 1]

MCDigestOf ==
    [p \in Sharers |-> [l \in Layouts |-> IF p = "owner" THEN l ELSE "base"]]

MCLayoutOf ==
    [p \in Sharers |-> IF p = "owner" THEN <<"l1", "l2", "l1">> ELSE <<"l1">>]
=============================================================================
