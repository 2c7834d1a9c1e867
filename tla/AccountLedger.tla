--------------------------- MODULE AccountLedger ---------------------------
(***************************************************************************)
(* What the billing core promises of a credit account: an event is booked  *)
(* once per idempotency key, in one step with the balance it changes, and  *)
(* only if the balance stays non-negative.                                 *)
(***************************************************************************)
EXTENDS Integers

CONSTANTS
    Owner,    \* account owners
    Request   \* bookings that may be asked for: [owner, key, delta]

VARIABLES
    credits,  \* the balance of every owner
    entries   \* what has been booked: [owner, key, delta, after]

Init ==
    /\ credits = [o \in Owner |-> 0]
    /\ entries = {}

Book(r) ==
    LET after == credits[r.owner] + r.delta IN
    /\ after >= 0
    /\ \A e \in entries : e.key # r.key
    /\ credits' = [credits EXCEPT ![r.owner] = after]
    /\ entries' = entries \cup
         {[owner |-> r.owner, key |-> r.key, delta |-> r.delta, after |-> after]}

Next == \E r \in Request : Book(r)

Spec == Init /\ [][Next]_<<credits, entries>>
=============================================================================
