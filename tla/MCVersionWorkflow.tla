------------------------- MODULE MCVersionWorkflow -------------------------
(* Model values for VersionWorkflow. *)
EXTENDS VersionWorkflow, TLC

CONSTANTS j1, j2, e1, e2

TwoJobs == {j1, j2}
FirstJob == {j1}
TwoExecutions == {e1, e2}

\* Two cards whose photos are named alike or not, and a package beside a price.
Both(v, w) == (j1 :> v) @@ (j2 :> w)
CardsOrOthers ==
    {[kind |-> Both("product_card", "product_card"), names |-> Both(1, n)] : n \in {1, 2}}
    \cup {[kind |-> Both("content_package", "pricing"), names |-> Both(1, 2)]}

\* The owner of cards can pay one; the business a package or two prices.
OneEach == {[person |-> 18, business |-> 14]}
=============================================================================
