--------------------------- MODULE MCCreditLedger ---------------------------
(* Model values, calls and key lengths for CreditLedger. *)
EXTENDS CreditLedger, FiniteSets, TLC

CONSTANTS person, business, c1, c2

OnePerson == {person}
TwoOwners == {person, business}
OneClient == {c1}
TwoClients == {c1, c2}

ClientSymmetry == Permutations(Client)

TryOnCost == 12
OtherCost == 6

\* Credits come in, two jobs are charged, one again as a free retry after a
\* system failure, and refunded, perhaps twice with different amounts.
TryOnCalls ==
    { Adjustment(person, TryOnCost, "grant"),
      Charge(person, "try_on", "job1", "completed", "", "", TryOnCost),
      Charge(person, "try_on", "job1", "completed", "system", "retry", TryOnCost),
      Charge(person, "pricing", "job2", "completed", "", "", OtherCost),
      Refund(person, "try_on", "job1", TryOnCost, "failed"),
      Refund(person, "try_on", "job1", OtherCost, "failed") }

BusinessCalls ==
    { Adjustment(business, OtherCost, "grant") }

AllCalls == TryOnCalls \cup BusinessCalls

GrantAndCharges == { r \in TryOnCalls : r.key.type # "try_on" \/ r.key.policy = "standard" }

\* Keys short enough for event_id, and keys of their real length: "billing_evt_",
\* "person:public-person", workflow type, "try_on_" and 32 hexadecimal digits,
\* "completed", "standard", and the colons between them.
ShortLength(key) == 40
RealLength(key) ==
    IF key.type = "adjustment" THEN 12 + 20 + 1 + 10 + 1 + 5 + 1 + 2
    ELSE 12 + 20 + 1 + 6 + 1 + 39 + 1 + 9 + 1 + 8
=============================================================================
