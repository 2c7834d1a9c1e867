-------------------------- MODULE MCCatalogImport --------------------------
(* Model values for CatalogImport. *)
EXTENDS CatalogImport, TLC

CONSTANTS r1, r2, r3

ThreeRequests == {r1, r2, r3}
TwoRequests == {r1, r2}

\* One file for each way an import can go.
FewFiles == {<<"good">>, <<"good", "worse">>, <<"bad">>, <<"good", "dear">>, <<"good", "long">>,
             <<"good", "good", "bad">>, <<"broken">>}
Limits == [standard |-> 2, large |-> 3]

\* Requests are interchangeable.
Symmetry == Permutations(ThreeRequests)
=============================================================================
