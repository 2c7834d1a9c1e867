-------------------------- MODULE MCCatalogReview --------------------------
(* Model values for CatalogReview. *)
EXTENDS CatalogReview, TLC

CONSTANTS r1, r2, e1

TwoRequests == {r1, r2}
OneExecution == {e1}
=============================================================================
