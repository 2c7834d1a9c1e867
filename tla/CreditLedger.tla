---------------------------- MODULE CreditLedger ----------------------------
(***************************************************************************)
(* BillingService over SqlBillingRepository: a call makes sure the account *)
(* exists, looks its idempotency key up, loads the account, and commits an *)
(* UPDATE of the account and an INSERT of the ledger event together.  The  *)
(* repository takes no row lock (READ COMMITTED), so other calls commit    *)
(* between these steps; in the deployment all persons share one account,   *)
(* and all businesses another.                                             *)
(***************************************************************************)
EXTENDS Integers, Sequences

CONSTANTS
    Owner,             \* owner_type:owner_id of the accounts
    Request,           \* calls that may be made, built by the constructors below
    Client,            \* concurrent calls of the service
    EventIdLength(_),  \* characters of the event_id made from a key
    MayAbort,          \* whether sessions can break before their commit
    Nothing            \* no request, no balance

VARIABLES
    account,  \* owners whose account row exists
    balance,  \* account row: available_credits
    ledger,   \* ledger event rows in commit order
    pc, req,  \* every call: next step, request
    base,     \* the balance a call's session has loaded
    apart     \* history: no two calls have yet held the balance of one account

calls == <<pc, req, base>>
state == <<account, balance, ledger, calls>>
vars == <<state, apart>>

-----------------------------------------------------------------------------
(* BillingService: the request of a charge, a refund and an adjustment *)

ChargePolicy(failureOwner, recoveryKind) ==
    IF failureOwner = "system" /\ recoveryKind = "retry" THEN "free_retry"
    ELSE IF failureOwner = "system" /\ recoveryKind = "repair" THEN "free_repair"
    ELSE "standard"

\* The joined key as the record of its parts; an absent part is "".
Key(owner, type, ref, stage, policy, delta) ==
    [owner |-> owner, type |-> type, ref |-> ref, stage |-> stage,
     policy |-> policy, delta |-> delta]

Charge(owner, type, ref, stage, failureOwner, recoveryKind, baseCost) ==
    LET policy == ChargePolicy(failureOwner, recoveryKind) IN
    [owner |-> owner,
     key |-> Key(owner, type, ref, stage, policy, 0),
     delta |-> IF policy = "standard" THEN -baseCost ELSE 0]

\* The amount is not a part of the key.
Refund(owner, type, ref, credits, reason) ==
    [owner |-> owner, key |-> Key(owner, type, ref, "refund", reason, 0), delta |-> credits]

Adjustment(owner, delta, reason) ==
    [owner |-> owner, key |-> Key(owner, "adjustment", "", reason, "", delta), delta |-> delta]

\* String(64) of credit_ledger_events.event_id.
EventIdWidth == 64

-----------------------------------------------------------------------------
ASSUME CreditLedgerAssumption ==
    /\ \A r \in Request : r.owner \in Owner /\ r.delta \in Int
    /\ MayAbort \in BOOLEAN
    /\ Nothing \notin Request
    /\ Nothing \notin Int

Step == {"idle", "ensuring", "creating", "finding", "loading", "committing"}

Event == [owner : Owner, key : {r.key : r \in Request}, delta : Int, after : Int]

TypeOK ==
    /\ account \in SUBSET Owner
    /\ balance \in [Owner -> Int]
    /\ ledger \in Seq(Event)
    /\ pc \in [Client -> Step]
    /\ req \in [Client -> Request \cup {Nothing}]
    /\ base \in [Client -> Int \cup {Nothing}]
    /\ apart \in BOOLEAN
    /\ \A c \in Client : /\ pc[c] # "idle" => req[c] \in Request
                         /\ pc[c] = "committing" => base[c] \in Int

Init ==
    /\ account = {}
    /\ balance = [o \in Owner |-> 0]
    /\ ledger = <<>>
    /\ pc = [c \in Client |-> "idle"]
    /\ req = [c \in Client |-> Nothing]
    /\ base = [c \in Client |-> Nothing]
    /\ apart = TRUE

Goto(c, step) == pc' = [pc EXCEPT ![c] = step]

\* The call returns or raises.
CallEnds(c) ==
    /\ Goto(c, "idle")
    /\ req' = [req EXCEPT ![c] = Nothing]
    /\ base' = [base EXCEPT ![c] = Nothing]

Booked(key) == \E i \in 1..Len(ledger) : ledger[i].key = key

\* charge_workflow, refund_workflow or adjust_balance is called.
Submit(c, r) ==
    /\ pc[c] = "idle"
    /\ Goto(c, "ensuring")
    /\ req' = [req EXCEPT ![c] = r]
    /\ UNCHANGED <<account, balance, ledger, base>>

\* ensure_account: the SELECT ...
EnsureAccount(c) ==
    /\ pc[c] = "ensuring"
    /\ Goto(c, IF req[c].owner \in account THEN "finding" ELSE "creating")
    /\ UNCHANGED <<account, balance, ledger, req, base>>

\* ... and the INSERT, with no initial credits.
CreateAccount(c) ==
    /\ pc[c] = "creating"
    /\ req[c].owner \notin account
    /\ account' = account \cup {req[c].owner}
    /\ balance' = [balance EXCEPT ![req[c].owner] = 0]
    /\ Goto(c, "finding")
    /\ UNCHANGED <<ledger, req, base>>

\* Another call created the account since the SELECT: IntegrityError.
CreateConflict(c) ==
    /\ pc[c] = "creating"
    /\ req[c].owner \in account
    /\ CallEnds(c)
    /\ UNCHANGED <<account, balance, ledger>>

\* append_ledger_event: the key is booked already, its event is returned.
FindBooked(c) ==
    /\ pc[c] = "finding"
    /\ Booked(req[c].key)
    /\ CallEnds(c)
    /\ UNCHANGED <<account, balance, ledger>>

\* Mutant: the account is not loaded.
FindSkipsLoad(c) ==
    /\ pc[c] = "finding"
    /\ ~Booked(req[c].key)
    /\ Goto(c, "committing")
    /\ UNCHANGED <<account, balance, ledger, req, base>>

FindUnbooked(c) ==
    /\ pc[c] = "finding"
    /\ ~Booked(req[c].key)
    /\ Goto(c, "loading")
    /\ UNCHANGED <<account, balance, ledger, req, base>>

\* Mutant: any balance will do.
LoadUnchecked(c) ==
    /\ pc[c] = "loading"
    /\ base' = [base EXCEPT ![c] = balance[req[c].owner]]
    /\ Goto(c, "committing")
    /\ UNCHANGED <<account, balance, ledger, req>>

\* The account is loaded and the balance it leads to is not negative.
LoadAccount(c) ==
    /\ pc[c] = "loading"
    /\ balance[req[c].owner] + req[c].delta >= 0
    /\ base' = [base EXCEPT ![c] = balance[req[c].owner]]
    /\ Goto(c, "committing")
    /\ UNCHANGED <<account, balance, ledger, req>>

\* ValueError("Credit balance cannot become negative").
RefuseNegative(c) ==
    /\ pc[c] = "loading"
    /\ balance[req[c].owner] + req[c].delta < 0
    /\ CallEnds(c)
    /\ UNCHANGED <<account, balance, ledger>>

NewEvent(c) ==
    [owner |-> req[c].owner, key |-> req[c].key, delta |-> req[c].delta,
     after |-> base[c] + req[c].delta]

\* The balance the UPDATE leaves: absolute, sent only if it differs from the
\* one loaded.
Updated(c, current) == IF req[c].delta = 0 THEN current ELSE base[c] + req[c].delta

\* Mutants: the key is not UNIQUE; the balance is changed relative to what it
\* is by now; the account is not updated.
CommitDuplicate(c) ==
    /\ pc[c] = "committing"
    /\ EventIdLength(req[c].key) <= EventIdWidth
    /\ balance' = [balance EXCEPT ![req[c].owner] = Updated(c, @)]
    /\ ledger' = Append(ledger, NewEvent(c))
    /\ CallEnds(c)
    /\ UNCHANGED account

CommitRelative(c) ==
    /\ pc[c] = "committing"
    /\ ~Booked(req[c].key)
    /\ EventIdLength(req[c].key) <= EventIdWidth
    /\ balance' = [balance EXCEPT ![req[c].owner] = @ + req[c].delta]
    /\ ledger' = Append(ledger, NewEvent(c))
    /\ CallEnds(c)
    /\ UNCHANGED account

CommitEventOnly(c) ==
    /\ pc[c] = "committing"
    /\ ~Booked(req[c].key)
    /\ EventIdLength(req[c].key) <= EventIdWidth
    /\ ledger' = Append(ledger, NewEvent(c))
    /\ CallEnds(c)
    /\ UNCHANGED <<account, balance>>

\* One commit: UPDATE of the account row and INSERT of the event row.
CommitEvent(c) ==
    /\ pc[c] = "committing"
    /\ ~Booked(req[c].key)
    /\ EventIdLength(req[c].key) <= EventIdWidth
    /\ balance' = [balance EXCEPT ![req[c].owner] = Updated(c, @)]
    /\ ledger' = Append(ledger, NewEvent(c))
    /\ CallEnds(c)
    /\ UNCHANGED account

\* The commit fails and is rolled back: the key was booked since it was looked
\* up (IntegrityError), or event_id does not fit its column (DataError).
CommitFails(c) ==
    /\ pc[c] = "committing"
    /\ Booked(req[c].key) \/ EventIdLength(req[c].key) > EventIdWidth
    /\ CallEnds(c)
    /\ UNCHANGED <<account, balance, ledger>>

\* The process or the connection dies: nothing uncommitted is kept.
Abort(c) ==
    /\ MayAbort
    /\ pc[c] # "idle"
    /\ CallEnds(c)
    /\ UNCHANGED <<account, balance, ledger>>

Proceed(c) ==
    \/ EnsureAccount(c) \/ CreateAccount(c) \/ CreateConflict(c)
    \/ FindBooked(c) \/ FindUnbooked(c)
    \/ LoadAccount(c) \/ RefuseNegative(c)
    \/ CommitEvent(c) \/ CommitFails(c)

\* Of the calls that have loaded an account and not yet committed, no two have
\* loaded the same one: what a lock on the row would see to.
NoOverlap ==
    \A c, d \in Client :
        pc[c] = "committing" /\ pc[d] = "committing" /\ req[c].owner = req[d].owner => c = d

Next ==
    /\ \E c \in Client :
          \/ \E r \in Request : Submit(c, r)
          \/ Proceed(c)
          \/ Abort(c)
    /\ apart' = (apart /\ NoOverlap')

Spec == Init /\ [][Next]_vars

\* A call in progress runs to its end; nobody is obliged to call.
FairSpec == Spec /\ \A c \in Client : WF_state(Proceed(c))

-----------------------------------------------------------------------------
\* However calls with one key interleave, retries included, it is booked once.
BookedOnce ==
    \A i, k \in 1..Len(ledger) : ledger[i].key = ledger[k].key => i = k

\* docs/runbooks/billing_readiness_gate.md:15, the repository "prevents negative
\* balances": also when the balance a call checked is not the one it overwrites.
NeverNegative ==
    /\ \A o \in Owner : balance[o] >= 0
    /\ \A i \in 1..Len(ledger) : ledger[i].after >= 0

\* The account and its events cannot disagree about the present: the balance is
\* the balance_after_event of the owner's last event that moved credits.
BalanceIsLastAfter ==
    \A o \in Owner :
        LET moves == {i \in 1..Len(ledger) : ledger[i].owner = o /\ ledger[i].delta # 0} IN
        \/ moves = {} /\ balance[o] = 0
        \/ \E i \in moves : /\ balance[o] = ledger[i].after
                            /\ \A k \in moves : k <= i

\* Until two calls hold the balance of one account the repository implements
\* AccountLedger, whatever aborts and whatever calls of other accounts do: each
\* commit books the request in one step with its balance, and nothing else does.
Abstract == INSTANCE AccountLedger WITH
    credits <- balance,
    entries <- {ledger[i] : i \in 1..Len(ledger)}

ImplementsAccountLedger ==
    Abstract!Init /\ [][apart' => Abstract!Next \/ UNCHANGED <<balance, ledger>>]_vars

-----------------------------------------------------------------------------
\* What docs and comments say of billing and the code does not do.

\* service.py:40, "Append one durable workflow charge event using backend policy
\* rules": a charge the account can pay, when it is loaded, is booked.
ChargeIsBooked ==
    \A c \in Client, r \in Request :
        (pc[c] = "committing" /\ req[c] = r) ~> Booked(r.key)
=============================================================================
