------------------------- MODULE CreditLedger_proofs -------------------------
(***************************************************************************)
(* Theorems about CreditLedger for every set of owners, calls and clients, *)
(* every key length, with and without broken sessions.                     *)
(***************************************************************************)
EXTENDS CreditLedger, TLAPS

\* Booking an event leaves the earlier ones in place and adds it as the last.
LEMMA AppendEvent ==
    ASSUME NEW l \in Seq(Event), NEW e \in Event
    PROVE  /\ Append(l, e) \in Seq(Event)
           /\ Len(Append(l, e)) = Len(l) + 1
           /\ Append(l, e)[Len(l) + 1] = e
           /\ \A i \in 1..Len(l) : Append(l, e)[i] = l[i]
           /\ Len(l) \in Nat
OBVIOUS

-----------------------------------------------------------------------------
(* Type correctness *)

LEMMA TypeInit == Init => TypeOK
BY CreditLedgerAssumption DEF Init, TypeOK, Step

\* What a call about to commit writes.
LEMMA CommitTypes ==
    ASSUME TypeOK, NEW c \in Client, pc[c] = "committing"
    PROVE  /\ req[c] \in Request
           /\ req[c].owner \in Owner /\ req[c].delta \in Int /\ base[c] \in Int
           /\ NewEvent(c) \in Event
           /\ \A n \in Int : Updated(c, n) \in Int
<1>1. req[c] \in Request /\ base[c] \in Int
  BY DEF TypeOK
<1>2. req[c].owner \in Owner /\ req[c].delta \in Int
  BY <1>1, CreditLedgerAssumption
<1>3. req[c].key \in {r.key : r \in Request}
  BY <1>1
<1> QED
  BY <1>1, <1>2, <1>3 DEF NewEvent, Event, Updated

LEMMA TypeStep == TypeOK /\ [Next]_vars => TypeOK'
<1> SUFFICES ASSUME TypeOK, [Next]_vars PROVE TypeOK'
  OBVIOUS
<1> USE CreditLedgerAssumption DEF Step
<1>0. apart' \in BOOLEAN
  BY DEF Next, TypeOK, vars
<1>1. ASSUME NEW c \in Client, NEW r \in Request, Submit(c, r) PROVE TypeOK'
  BY <1>0, <1>1 DEF TypeOK, Submit, Goto
<1>2. ASSUME NEW c \in Client, EnsureAccount(c) PROVE TypeOK'
  BY <1>0, <1>2 DEF TypeOK, EnsureAccount, Goto
<1>3. ASSUME NEW c \in Client, CreateAccount(c) PROVE TypeOK'
  <2>1. req[c].owner \in Owner
    BY <1>3 DEF TypeOK, CreateAccount
  <2> QED
    BY <1>0, <1>3, <2>1 DEF TypeOK, CreateAccount, Goto
<1>4. ASSUME NEW c \in Client, CallEnds(c), UNCHANGED <<account, balance, ledger>> PROVE TypeOK'
  BY <1>0, <1>4 DEF TypeOK, CallEnds, Goto
<1>5. ASSUME NEW c \in Client, FindUnbooked(c) PROVE TypeOK'
  BY <1>0, <1>5 DEF TypeOK, FindUnbooked, Goto
<1>6. ASSUME NEW c \in Client, LoadAccount(c) PROVE TypeOK'
  <2>1. req[c].owner \in Owner
    BY <1>6 DEF TypeOK, LoadAccount
  <2>2. balance[req[c].owner] \in Int
    BY <2>1 DEF TypeOK
  <2> QED
    BY <1>0, <1>6, <2>2 DEF TypeOK, LoadAccount, Goto
<1>7. ASSUME NEW c \in Client, CommitEvent(c) PROVE TypeOK'
  <2>1. /\ req[c].owner \in Owner
        /\ NewEvent(c) \in Event
        /\ \A n \in Int : Updated(c, n) \in Int
    BY <1>7, CommitTypes DEF CommitEvent
  <2>2. balance' \in [Owner -> Int]
    BY <1>7, <2>1 DEF CommitEvent, TypeOK
  <2>3. ledger' \in Seq(Event)
    BY <1>7, <2>1, AppendEvent DEF CommitEvent, TypeOK
  <2> QED
    BY <1>0, <1>7, <2>2, <2>3 DEF TypeOK, CommitEvent, CallEnds, Goto
<1>8. CASE UNCHANGED vars
  BY <1>0, <1>8 DEF TypeOK, vars, state, calls
<1> QED
  BY <1>1, <1>2, <1>3, <1>4, <1>5, <1>6, <1>7, <1>8
  DEF Next, Proceed, CreateConflict, FindBooked, RefuseNegative, CommitFails, Abort

\* Every reachable state is of the declared types; a call that loads or commits
\* has a request, and one that commits has loaded a balance.
THEOREM TypeCorrect == Spec => []TypeOK
BY TypeInit, TypeStep, PTL DEF Spec

-----------------------------------------------------------------------------
(* The inductive invariant *)

\* Nothing is booked for an owner without an account, and a call beyond
\* ensure_account has one: CreateAccount never resets a balance with events.
Accounts ==
    /\ \A i \in 1..Len(ledger) : ledger[i].owner \in account
    /\ \A c \in Client : pc[c] \in {"finding", "loading", "committing"} => req[c].owner \in account

\* The balance a commit will write is the one the check allowed.
Affordable == \A c \in Client : pc[c] = "committing" => base[c] + req[c].delta >= 0

\* Event m is the last that moved credits of o.
LastMove(o, m) ==
    /\ m \in 1..Len(ledger)
    /\ ledger[m].owner = o /\ ledger[m].delta # 0
    /\ \A k \in 1..Len(ledger) : ledger[k].owner = o /\ ledger[k].delta # 0 => k <= m

Unmoved(o) == \A k \in 1..Len(ledger) : ~(ledger[k].owner = o /\ ledger[k].delta # 0)

\* BalanceIsLastAfter, owner by owner.
Current(o) ==
    \/ Unmoved(o) /\ balance[o] = 0
    \/ \E m \in 1..Len(ledger) : LastMove(o, m) /\ balance[o] = ledger[m].after

IInv ==
    /\ TypeOK
    /\ BookedOnce
    /\ Accounts
    /\ Affordable
    /\ NeverNegative
    /\ \A o \in Owner : Current(o)

LEMMA InvInit == Init => IInv
<1> SUFFICES ASSUME Init PROVE IInv
  OBVIOUS
<1>1. Len(ledger) = 0 /\ 1..Len(ledger) = {}
  BY DEF Init
<1> QED
  BY <1>1, TypeInit
  DEF Init, IInv, BookedOnce, Accounts, Affordable, NeverNegative, Current, Unmoved

\* Steps that leave the rows alone.
LEMMA RowsKept ==
    ASSUME IInv, UNCHANGED <<account, balance, ledger>>
    PROVE  /\ BookedOnce' /\ NeverNegative' /\ \A o \in Owner : Current(o)'
           /\ \A i \in 1..Len(ledger') : ledger'[i].owner \in account'
BY DEF IInv, BookedOnce, NeverNegative, Current, LastMove, Unmoved, Accounts

LEMMA EndKeeps ==
    ASSUME IInv, TypeOK', NEW c \in Client, CallEnds(c), UNCHANGED <<account, balance, ledger>>
    PROVE  IInv'
<1>1. Accounts' /\ Affordable'
  BY RowsKept DEF IInv, TypeOK, Accounts, Affordable, CallEnds, Goto
<1> QED
  BY <1>1, RowsKept DEF IInv

LEMMA CommitKeeps ==
    ASSUME IInv, TypeOK', NEW c \in Client, CommitEvent(c)
    PROVE  IInv'
<1> DEFINE n == Len(ledger) + 1
           o == req[c].owner
           e == NewEvent(c)
<1>1. pc[c] = "committing" /\ TypeOK
  BY DEF IInv, CommitEvent
<1>2. /\ o \in Owner /\ req[c].delta \in Int /\ base[c] \in Int /\ e \in Event
      /\ \A b \in Int : Updated(c, b) \in Int
  BY <1>1, CommitTypes
<1>3. /\ Len(ledger) \in Nat /\ Len(ledger') = n
      /\ ledger'[n] = e
      /\ \A i \in 1..Len(ledger) : ledger'[i] = ledger[i] /\ i \in 1..n /\ i # n
      /\ \A i \in 1..n : i = n \/ i \in 1..Len(ledger)
  <2>1. ledger \in Seq(Event) /\ ledger' = Append(ledger, e)
    BY <1>1 DEF TypeOK, CommitEvent
  <2>2. /\ Len(ledger) \in Nat /\ Len(ledger') = n
        /\ ledger'[n] = e
        /\ \A i \in 1..Len(ledger) : ledger'[i] = ledger[i]
    BY <2>1, <1>2, AppendEvent
  <2> QED
    BY <2>2
<1>4. /\ e.owner = o /\ e.key = req[c].key /\ e.delta = req[c].delta
      /\ e.after = base[c] + req[c].delta
  BY DEF NewEvent
<1>5. BookedOnce'
  <2>1. \A i \in 1..Len(ledger) : ledger[i].key # req[c].key
    BY DEF CommitEvent, Booked
  <2> SUFFICES ASSUME NEW i \in 1..n, NEW k \in 1..n, ledger'[i].key = ledger'[k].key
               PROVE  i = k
    BY <1>3 DEF BookedOnce
  <2>2. CASE i = n \/ k = n
    BY <2>1, <2>2, <1>3, <1>4
  <2>3. CASE i \in 1..Len(ledger) /\ k \in 1..Len(ledger)
    BY <2>3, <1>3 DEF IInv, BookedOnce
  <2> QED
    BY <2>2, <2>3, <1>3
<1>6. Accounts'
  <2>1. o \in account /\ account' = account
    BY <1>1 DEF IInv, Accounts, CommitEvent
  <2>2. \A i \in 1..Len(ledger') : ledger'[i].owner \in account'
    BY <2>1, <1>3, <1>4 DEF IInv, Accounts
  <2> QED
    BY <2>1, <2>2, <1>1 DEF IInv, TypeOK, Accounts, CommitEvent, CallEnds, Goto
<1>7. Affordable'
  BY <1>1 DEF IInv, TypeOK, Affordable, CommitEvent, CallEnds, Goto
<1>8. balance' = [balance EXCEPT ![o] = IF e.delta = 0 THEN balance[o] ELSE e.after]
  BY <1>1, <1>4 DEF CommitEvent, Updated, TypeOK
<1>9. NeverNegative'
  <2>1. e.after >= 0
    BY <1>1, <1>4 DEF IInv, Affordable
  <2>2. \A p \in Owner : balance'[p] >= 0
    BY <1>1, <1>8, <2>1 DEF IInv, NeverNegative, TypeOK
  <2>3. \A i \in 1..Len(ledger') : ledger'[i].after >= 0
    BY <1>3, <2>1 DEF IInv, NeverNegative
  <2> QED
    BY <2>2, <2>3 DEF NeverNegative
<1>10. ASSUME NEW p \in Owner PROVE Current(p)'
  <2>1. Current(p)
    BY DEF IInv
  <2>2. CASE p = o /\ e.delta # 0
    <3>1. balance'[p] = ledger'[n].after
      BY <2>2, <1>1, <1>2, <1>3, <1>8 DEF TypeOK
    <3>2. PICK m \in 1..Len(ledger') : m = n
      BY <1>3
    <3>3. LastMove(p, m)'
      BY <2>2, <3>2, <1>3, <1>4 DEF LastMove
    <3> QED
      BY <3>1, <3>2, <3>3 DEF Current
  <2>3. CASE p # o \/ e.delta = 0
    <3>1. balance'[p] = balance[p]
      BY <2>3, <1>1, <1>8 DEF TypeOK
    <3>2. Unmoved(p) => Unmoved(p)'
      BY <2>3, <1>3, <1>4 DEF Unmoved
    <3>3. \A m \in 1..Len(ledger) : LastMove(p, m) => LastMove(p, m)' /\ ledger'[m] = ledger[m]
      BY <2>3, <1>3, <1>4 DEF LastMove
    <3> QED
      BY <2>1, <3>1, <3>2, <3>3, <1>3 DEF Current
  <2> QED
    BY <2>2, <2>3
<1> QED
  BY <1>5, <1>6, <1>7, <1>9, <1>10 DEF IInv

LEMMA InvStep == IInv /\ [Next]_vars => IInv'
<1> SUFFICES ASSUME IInv, [Next]_vars PROVE IInv'
  OBVIOUS
<1>0. TypeOK /\ TypeOK'
  BY TypeStep DEF IInv
<1>1. ASSUME NEW c \in Client, NEW r \in Request, Submit(c, r) PROVE IInv'
  <2>1. Accounts' /\ Affordable'
    BY <1>1, <1>0, RowsKept DEF IInv, TypeOK, Accounts, Affordable, Submit, Goto
  <2> QED
    BY <1>0, <1>1, <2>1, RowsKept DEF IInv, Submit
<1>2. ASSUME NEW c \in Client, EnsureAccount(c) PROVE IInv'
  <2>1. Accounts' /\ Affordable'
    BY <1>2, <1>0, RowsKept DEF IInv, TypeOK, Accounts, Affordable, EnsureAccount, Goto
  <2> QED
    BY <1>0, <1>2, <2>1, RowsKept DEF IInv, EnsureAccount
<1>3. ASSUME NEW c \in Client, CreateAccount(c) PROVE IInv'
  <2> DEFINE o == req[c].owner
  <2>1. o \in Owner /\ o \notin account
    BY <1>0, <1>3, CreditLedgerAssumption DEF TypeOK, CreateAccount
  <2>2. \A k \in 1..Len(ledger) : ledger[k].owner # o
    BY <2>1 DEF IInv, Accounts
  <2>3. balance' = [balance EXCEPT ![o] = 0] /\ ledger' = ledger
    BY <1>3 DEF CreateAccount
  <2>4. BookedOnce'
    BY <2>3 DEF IInv, BookedOnce
  <2>5. Accounts' /\ Affordable'
    BY <1>3, <1>0 DEF IInv, TypeOK, Accounts, Affordable, CreateAccount, Goto
  <2>6. NeverNegative'
    BY <2>3, <1>0 DEF IInv, NeverNegative, TypeOK
  <2>7. ASSUME NEW p \in Owner PROVE Current(p)'
    <3>1. CASE p = o
      BY <3>1, <2>2, <2>3, <1>0 DEF Current, Unmoved, TypeOK
    <3>2. CASE p # o
      <4>1. Current(p) /\ balance'[p] = balance[p]
        BY <3>2, <2>3, <1>0 DEF IInv, TypeOK
      <4> QED
        BY <4>1, <2>3 DEF Current, Unmoved, LastMove
    <3> QED
      BY <3>1, <3>2
  <2> QED
    BY <1>0, <2>4, <2>5, <2>6, <2>7 DEF IInv
<1>4. ASSUME NEW c \in Client, CallEnds(c), UNCHANGED <<account, balance, ledger>> PROVE IInv'
  BY <1>0, <1>4, EndKeeps
<1>5. ASSUME NEW c \in Client, FindUnbooked(c) PROVE IInv'
  <2>1. Accounts' /\ Affordable'
    BY <1>5, <1>0, RowsKept DEF IInv, TypeOK, Accounts, Affordable, FindUnbooked, Goto
  <2> QED
    BY <1>0, <1>5, <2>1, RowsKept DEF IInv, FindUnbooked
<1>6. ASSUME NEW c \in Client, LoadAccount(c) PROVE IInv'
  <2>1. Accounts' /\ Affordable'
    BY <1>6, <1>0, RowsKept DEF IInv, TypeOK, Accounts, Affordable, LoadAccount, Goto
  <2> QED
    BY <1>0, <1>6, <2>1, RowsKept DEF IInv, LoadAccount
<1>7. ASSUME NEW c \in Client, CommitEvent(c) PROVE IInv'
  BY <1>0, <1>7, CommitKeeps
<1>8. CASE UNCHANGED vars
  <2>1. Accounts' /\ Affordable'
    BY <1>8 DEF IInv, Accounts, Affordable, vars, state, calls
  <2> QED
    BY <1>0, <1>8, <2>1, RowsKept DEF IInv, vars, state
<1> QED
  BY <1>1, <1>2, <1>3, <1>4, <1>5, <1>6, <1>7, <1>8
  DEF Next, Proceed, CreateConflict, FindBooked, RefuseNegative, CommitFails, Abort

LEMMA Invariant == Spec => []IInv
BY InvInit, InvStep, PTL DEF Spec

-----------------------------------------------------------------------------
\* append_ledger_event books a key at most once, whoever calls it and however
\* the look-ups and commits of the calls interleave.
THEOREM KeysBookedOnce == Spec => []BookedOnce
<1>1. IInv => BookedOnce
  BY DEF IInv
<1> QED
  BY <1>1, Invariant, PTL

\* No balance and no balance_after_event is negative, although a balance may be
\* overwritten with one computed from an older balance.
THEOREM BalancesNeverNegative == Spec => []NeverNegative
<1>1. IInv => NeverNegative
  BY DEF IInv
<1> QED
  BY <1>1, Invariant, PTL

\* An account always carries the balance_after_event of its last event that
\* moved credits.
THEOREM BalancesFollowEvents == Spec => []BalanceIsLastAfter
<1>1. IInv => BalanceIsLastAfter
  <2> SUFFICES ASSUME IInv, NEW o \in Owner,
                      NEW moves, moves = {i \in 1..Len(ledger) : ledger[i].owner = o /\ ledger[i].delta # 0}
               PROVE  \/ moves = {} /\ balance[o] = 0
                      \/ \E i \in moves : balance[o] = ledger[i].after /\ \A k \in moves : k <= i
    BY DEF BalanceIsLastAfter
  <2>1. Current(o)
    BY DEF IInv
  <2> QED
    BY <2>1 DEF Current, Unmoved, LastMove
<1> QED
  BY <1>1, Invariant, PTL

-----------------------------------------------------------------------------
(* The refinement, until two calls hold the balance of one account *)

\* The balance a call will overwrite is the one it has loaded.
Fresh == \A c \in Client : pc[c] = "committing" => base[c] = balance[req[c].owner]

ApartInv == apart => NoOverlap /\ Fresh

\* An owner without an account has no credits: creating the row changes none.
LEMMA NoAccountNoCredits ==
    ASSUME IInv, NEW o \in Owner, o \notin account
    PROVE  balance[o] = 0
<1>1. Current(o)
  BY DEF IInv
<1>2. \A m \in 1..Len(ledger) : ledger[m].owner # o
  BY DEF IInv, Accounts
<1> QED
  BY <1>1, <1>2 DEF Current, LastMove

LEMMA CreateKeepsCredits ==
    ASSUME IInv, NEW c \in Client, CreateAccount(c)
    PROVE  balance' = balance
<1> DEFINE o == req[c].owner
<1>1. o \in Owner /\ o \notin account
  BY CreditLedgerAssumption DEF IInv, TypeOK, CreateAccount
<1>2. balance[o] = 0 /\ balance \in [Owner -> Int]
  BY <1>1, NoAccountNoCredits DEF IInv, TypeOK
<1>3. balance' = [balance EXCEPT ![o] = 0]
  BY DEF CreateAccount
<1> QED
  BY <1>1, <1>2, <1>3

LEMMA ApartInit == Init => ApartInv
BY DEF Init, ApartInv, NoOverlap, Fresh

LEMMA FreshStep == IInv /\ Fresh /\ NoOverlap /\ [Next]_vars => Fresh'
<1> SUFFICES ASSUME IInv, Fresh, NoOverlap, [Next]_vars PROVE Fresh'
  OBVIOUS
<1>0. TypeOK
  BY DEF IInv
<1>1. ASSUME NEW c \in Client, NEW r \in Request, Submit(c, r) PROVE Fresh'
  BY <1>0, <1>1 DEF TypeOK, Fresh, Submit, Goto
<1>2. ASSUME NEW c \in Client, EnsureAccount(c) PROVE Fresh'
  BY <1>0, <1>2 DEF TypeOK, Fresh, EnsureAccount, Goto
<1>3. ASSUME NEW c \in Client, CreateAccount(c) PROVE Fresh'
  <2>1. balance' = balance
    BY <1>3, CreateKeepsCredits
  <2> QED
    BY <1>0, <1>3, <2>1 DEF TypeOK, Fresh, CreateAccount, Goto
<1>4. ASSUME NEW c \in Client, CallEnds(c), UNCHANGED <<account, balance, ledger>> PROVE Fresh'
  BY <1>0, <1>4 DEF TypeOK, Fresh, CallEnds, Goto
<1>5. ASSUME NEW c \in Client, FindUnbooked(c) PROVE Fresh'
  BY <1>0, <1>5 DEF TypeOK, Fresh, FindUnbooked, Goto
<1>6. ASSUME NEW c \in Client, LoadAccount(c) PROVE Fresh'
  BY <1>0, <1>6 DEF TypeOK, Fresh, LoadAccount, Goto
<1>7. ASSUME NEW c \in Client, CommitEvent(c) PROVE Fresh'
  <2> SUFFICES ASSUME NEW d \in Client, pc'[d] = "committing"
               PROVE  base'[d] = balance'[req'[d].owner]
    BY DEF Fresh
  <2>1. /\ d # c /\ pc[c] = "committing" /\ pc[d] = "committing"
        /\ base'[d] = base[d] /\ req'[d] = req[d]
    BY <1>0, <1>7 DEF TypeOK, CommitEvent, CallEnds, Goto
  <2>2. req[d].owner # req[c].owner /\ req[d].owner \in Owner
    BY <1>0, <2>1, CommitTypes DEF NoOverlap
  <2>3. balance'[req[d].owner] = balance[req[d].owner]
    BY <1>0, <1>7, <2>2 DEF TypeOK, CommitEvent
  <2> QED
    BY <2>1, <2>3 DEF Fresh
<1>8. CASE UNCHANGED vars
  BY <1>8 DEF Fresh, vars, state, calls
<1> QED
  BY <1>1, <1>2, <1>3, <1>4, <1>5, <1>6, <1>7, <1>8
  DEF Next, Proceed, CreateConflict, FindBooked, RefuseNegative, CommitFails, Abort

\* What AccountLedger sees of the event rows.
Entries == {ledger[i] : i \in 1..Len(ledger)}

LEMMA AbstractInit == Init => Abstract!Init
<1> SUFFICES ASSUME Init PROVE Abstract!Init
  OBVIOUS
<1>1. 1..Len(ledger) = {}
  BY DEF Init
<1>2. {ledger[i] : i \in 1..Len(ledger)} = {}
  BY <1>1
<1> QED
  BY <1>2 DEF Init, Abstract!Init

\* A commit from a fresh balance is the one step that books the request.
LEMMA CommitBooks ==
    ASSUME IInv, Fresh, NEW c \in Client, CommitEvent(c)
    PROVE  Abstract!Book(req[c])
<1> DEFINE o == req[c].owner
           after == balance[o] + req[c].delta
<1>1. pc[c] = "committing" /\ TypeOK
  BY DEF IInv, CommitEvent
<1>2. o \in Owner /\ req[c].delta \in Int /\ base[c] \in Int /\ NewEvent(c) \in Event
  BY <1>1, CommitTypes
<1>3. base[c] = balance[o]
  BY <1>1 DEF Fresh
<1>4. after >= 0
  BY <1>1, <1>3 DEF IInv, Affordable
<1>5. \A e \in Entries : e.key # req[c].key
  BY DEF Entries, CommitEvent, Booked
<1>6. balance' = [balance EXCEPT ![o] = after]
  <2>1. balance[o] \in Int
    BY <1>1, <1>2 DEF TypeOK
  <2>2. Updated(c, balance[o]) = after
    BY <1>2, <1>3, <2>1 DEF Updated
  <2> QED
    BY <2>2 DEF CommitEvent
<1>7. Entries' = Entries \cup {NewEvent(c)}
  <2>1. ledger' = Append(ledger, NewEvent(c)) /\ ledger \in Seq(Event)
    BY <1>1 DEF CommitEvent, TypeOK
  <2>2. /\ Len(ledger) \in Nat /\ Len(ledger') = Len(ledger) + 1
        /\ ledger'[Len(ledger) + 1] = NewEvent(c)
        /\ \A i \in 1..Len(ledger) : ledger'[i] = ledger[i]
    BY <1>2, <2>1, AppendEvent
  <2>3. 1..Len(ledger') = (1..Len(ledger)) \cup {Len(ledger) + 1}
    BY <2>2
  <2> QED
    BY <2>2, <2>3 DEF Entries
<1>8. NewEvent(c) = [owner |-> o, key |-> req[c].key, delta |-> req[c].delta, after |-> after]
  BY <1>3 DEF NewEvent
<1> QED
  BY <1>4, <1>5, <1>6, <1>7, <1>8 DEF Entries, Abstract!Book

LEMMA ApartStep == IInv /\ ApartInv /\ [Next]_vars => ApartInv'
<1> SUFFICES ASSUME IInv, ApartInv, [Next]_vars, apart' PROVE NoOverlap' /\ Fresh'
  BY DEF ApartInv
<1>1. apart /\ NoOverlap'
  <2>1. CASE Next
    BY <2>1 DEF Next
  <2>2. CASE UNCHANGED vars
    BY <2>2 DEF ApartInv, NoOverlap, vars, state, calls
  <2> QED
    BY <2>1, <2>2
<1> QED
  BY <1>1, FreshStep DEF ApartInv

LEMMA AbstractStep == IInv /\ Fresh /\ Next => Abstract!Next \/ UNCHANGED <<balance, ledger>>
<1> SUFFICES ASSUME IInv, Fresh, Next PROVE Abstract!Next \/ UNCHANGED <<balance, ledger>>
  OBVIOUS
<1>1. ASSUME NEW c \in Client, CommitEvent(c) PROVE Abstract!Next
  <2>1. req[c] \in Request
    BY <1>1, CommitTypes DEF IInv, CommitEvent
  <2>2. Abstract!Book(req[c])
    BY <1>1, CommitBooks
  <2> QED
    BY <2>1, <2>2 DEF Abstract!Next, Abstract!Book
<1>2. ASSUME NEW c \in Client, CreateAccount(c) PROVE UNCHANGED <<balance, ledger>>
  BY <1>2, CreateKeepsCredits DEF CreateAccount
<1> QED
  BY <1>1, <1>2
  DEF Next, Proceed, Submit, EnsureAccount, CreateConflict, FindBooked,
      FindUnbooked, LoadAccount, RefuseNegative, CommitFails, Abort

\* Until two calls stand between the load and the commit of one account, the
\* repository takes the steps of AccountLedger: calls of other accounts, aborts
\* and lost races for a key change nothing of it.
THEOREM RefinesApart == Spec => ImplementsAccountLedger
<1> DEFINE Booking == apart' => Abstract!Next \/ UNCHANGED <<balance, ledger>>
<1>1. Init /\ [][Next]_vars /\ []IInv => []ApartInv
  BY ApartInit, ApartStep, PTL
<1>2. IInv /\ ApartInv /\ [Next]_vars => [Booking]_vars
  <2> SUFFICES ASSUME IInv, ApartInv, Next, apart'
               PROVE  Abstract!Next \/ UNCHANGED <<balance, ledger>>
    OBVIOUS
  <2>1. Fresh
    BY DEF ApartInv, Next
  <2> QED
    BY <2>1, AbstractStep
<1> QED
  BY <1>1, <1>2, AbstractInit, Invariant, PTL DEF Spec, ImplementsAccountLedger
=============================================================================
