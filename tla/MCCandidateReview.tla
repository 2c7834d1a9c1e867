------------------------- MODULE MCCandidateReview -------------------------
(* Model values for CandidateReview. *)
EXTENDS CandidateReview, TLC

CONSTANTS r1, r2, r3

Reviewers == {r1, r2, r3}
AllKinds == {"taxonomy", "context", "marketplace"}

Symmetry == Permutations(Reviewers)
=============================================================================
