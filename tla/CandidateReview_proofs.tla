----------------------- MODULE CandidateReview_proofs -----------------------
(***************************************************************************)
(* Theorems about CandidateReview for every set of reviewers, kinds of     *)
(* candidates, and number of decisions and of faults.                      *)
(***************************************************************************)
EXTENDS CandidateReview, TLAPS

\* What a save leaves of the row is again a candidate: per column, the one that
\* was written or the one that was there.
LEMMA Mixture ==
    ASSUME NEW row \in Candidate, NEW new \in Candidate, NEW old \in Candidate,
           NEW mixed, mixed = Written(row, old, new)
    PROVE  /\ mixed \in Candidate
           /\ mixed.status \in {row.status, new.status}
           /\ mixed.ref \in {row.ref, new.ref}
           /\ mixed.reason \in {row.reason, new.reason}
           /\ mixed.by \in {row.by, new.by}
           /\ old = row => mixed = new
<1>1. DOMAIN row = {"status", "ref", "reason", "by"} /\ DOMAIN new = DOMAIN row
  BY DEF Candidate
<1>2. mixed = [status |-> IF new.status = old.status THEN row.status ELSE new.status,
               ref |-> IF new.ref = old.ref THEN row.ref ELSE new.ref,
               reason |-> IF new.reason = old.reason THEN row.reason ELSE new.reason,
               by |-> IF new.by = old.by THEN row.by ELSE new.by]
  BY <1>1 DEF Written
<1>3. ASSUME old = row PROVE mixed = new
  BY <1>1, <1>3 DEF Written, Candidate
<1> QED
  BY <1>2, <1>3 DEF Candidate

-----------------------------------------------------------------------------
(* Type correctness *)

\* Which kinds of candidates have which steps.
Routes ==
    \A r \in Reviewer :
        /\ At(r, "registering") => kind = "context"
        /\ At(r, "deciding") => kind \in {"context", "taxonomy"}
        /\ At(r, "updating") \/ At(r, "auditing") => kind = "taxonomy"
        /\ At(r, "saving") => kind \in {"taxonomy", "marketplace"}

TypeInv == TypeOK /\ Routes

\* What a reviewer makes of the candidate he has in hand.
LEMMA ReviewedType ==
    ASSUME TypeOK, NEW r \in Reviewer, hand[r].decision # "none"
    PROVE  /\ Reviewed(r) \in Candidate
           /\ Reviewed(r).status = Status[hand[r].decision]
           /\ Reviewed(r).ref = Chosen(r) /\ Chosen(r) \in Code \cup {Nothing}
           /\ Promotes(hand[r].decision) => Chosen(r) \in Code
           /\ hand[r].decision \in {"approve", "rename"} /\ kind = "taxonomy" => Chosen(r) \in Code
<1> DEFINE d == hand[r].decision
<1>1. /\ d \in Decisions[kind] /\ kind \in {"taxonomy", "context", "marketplace"}
      /\ hand[r].before \in Candidate
  BY CandidateAssumption DEF TypeOK, Hand
<1>2. d \in {"approve", "reject", "merge", "rename", "confirm", "refine", "keep_open",
             "dismiss", "archive"}
  BY <1>1 DEF Decisions
<1>3. Status[d] \in {"confirmed", "refined", "approved", "merged", "rejected", "archived", "open"}
  BY <1>2 DEF Status
<1>4. Chosen(r) \in Code \cup {Nothing}
  BY <1>1 DEF Chosen, Code, Candidate
<1>5. Reason(r) \in Reviewer \cup {Nothing}
  BY <1>1 DEF Reason, Candidate
<1>6. Promotes(d) => Chosen(r) \in Code
  BY DEF Promotes, Chosen, Code
<1>7. d \in {"approve", "rename"} /\ kind = "taxonomy" => Chosen(r) \in Code
  BY DEF Chosen, Code
<1> QED
  BY <1>3, <1>4, <1>5, <1>6, <1>7 DEF Reviewed, Candidate

LEMMA NothingInHand ==
    /\ Pending \in Candidate /\ Absent \in Candidate
    /\ NoHand \in Hand /\ NoHand.decision = "none"
<1>1. Pending \in Candidate
  BY DEF Pending, Candidate
<1>2. Absent \in Candidate
  BY DEF Absent, Pending, Candidate
<1>3. NoHand \in Hand /\ NoHand.decision = "none"
  BY <1>1 DEF NoHand, Hand
<1> QED
  BY <1>1, <1>2, <1>3

LEMMA TypeInvInit == Init => TypeInv
<1> SUFFICES ASSUME Init PROVE TypeInv
  OBVIOUS
<1>1. candidate \in Candidate /\ hand \in [Reviewer -> Hand]
  BY NothingInHand DEF Init
<1>2. \A r \in Reviewer : pc[r] = "idle" /\ hand[r].decision = "none"
  BY NothingInHand DEF Init
<1>3. pc \in [Reviewer -> {"idle", "registering", "deciding", "updating", "saving", "auditing"}]
  BY DEF Init
<1>4. decisions \in 0..MaxDecisions /\ faults \in 0..MaxFaults
  BY CandidateAssumption DEF Init
<1>5. /\ kind \in Kinds /\ facts \in SUBSET Code /\ catalog \in SUBSET Code
      /\ audit = {} /\ fresh \in SUBSET Reviewer /\ stale \in BOOLEAN
  BY DEF Init, Code
<1>6. TypeOK
  BY <1>1, <1>2, <1>3, <1>4, <1>5 DEF TypeOK
<1> QED
  BY <1>2, <1>6 DEF TypeInv, Routes, At

LEMMA TypeInvStep == TypeInv /\ [Next]_vars => TypeInv'
<1> SUFFICES ASSUME TypeInv, [Next]_vars PROVE TypeInv'
  OBVIOUS
<1> USE CandidateAssumption DEF TypeInv, TypeOK, Routes, At, Goto, outside, seenBy
<1>h. NoHand \in Hand /\ NoHand.decision = "none"
  BY NothingInHand
<1>1. ASSUME NEW r \in Reviewer, LooksUp(r) PROVE TypeInv'
  BY <1>1 DEF LooksUp
<1>2. ASSUME NEW r \in Reviewer, Registers(r) PROVE TypeInv'
  BY <1>2 DEF Registers, SavedBy, Pending, Candidate
<1>3. ASSUME NEW r \in Reviewer, NEW d \in UNION {Decisions[k] : k \in Kinds}, Loads(r, d)
      PROVE  TypeInv'
  BY <1>3 DEF Loads, Decisions, Hand
<1>4. ASSUME NEW r \in Reviewer, SavesContext(r) PROVE TypeInv'
  <2>1. Reviewed(r) \in Candidate /\ (Promotes(hand[r].decision) => Chosen(r) \in Code)
    BY ReviewedType, <1>4 DEF SavesContext
  <2> QED
    BY <1>h, <1>4, <2>1 DEF SavesContext, SavedBy
<1>5. ASSUME NEW r \in Reviewer, EntersCatalog(r) PROVE TypeInv'
  <2>1. hand[r].decision \in {"approve", "rename"} => Chosen(r) \in Code
    BY ReviewedType, <1>5 DEF EntersCatalog
  <2> QED
    BY <1>5, <2>1 DEF EntersCatalog
<1>6. ASSUME NEW r \in Reviewer, LoadsRow(r) PROVE TypeInv'
  BY <1>6 DEF LoadsRow, Hand
<1>7. ASSUME NEW r \in Reviewer, Updates(r) PROVE TypeInv'
  <2>1. Reviewed(r) \in Candidate
    BY ReviewedType, <1>7 DEF Updates
  <2>2. hand[r].seen \in Candidate
    BY DEF Hand
  <2>3. candidate' \in Candidate
    BY <2>1, <2>2, Mixture, <1>7 DEF Updates
  <2> QED
    BY <1>h, <1>7, <2>3 DEF Updates, SavedBy
<1>8. ASSUME NEW r \in Reviewer, Audits(r) PROVE TypeInv'
  <2>1. Reviewed(r) \in Candidate
    BY ReviewedType, <1>8 DEF Audits
  <2>2. hand[r].before \in Candidate
    BY DEF Hand
  <2>3. \A e \in audit' : e.before \in Candidate /\ e.after \in Candidate
    BY <2>1, <2>2, <1>8 DEF Audits
  <2> QED
    BY <1>h, <1>8, <2>3 DEF Audits
<1>9. ASSUME NEW r \in Reviewer, Dies(r) PROVE TypeInv'
  BY <1>h, <1>9 DEF Dies
<1>10. CASE UNCHANGED vars
  BY <1>10 DEF vars
<1> QED
  BY <1>1, <1>2, <1>3, <1>4, <1>5, <1>6, <1>7, <1>8, <1>9, <1>10 DEF Next

\* Every reachable state is of the declared types, whatever reviewers overlap or
\* die; in particular what a save leaves of a candidate is a candidate.
THEOREM TypeCorrect == Spec => []TypeOK
<1>1. TypeInv => TypeOK
  BY DEF TypeInv
<1> QED
  BY <1>1, TypeInvInit, TypeInvStep, PTL DEF Spec

-----------------------------------------------------------------------------
(* What the record of a candidate says *)

\* What a candidate of each kind can be, whoever holds it.
OfItsKind(c) ==
    /\ kind # "context" => c.status \notin {"absent", "open", "confirmed", "refined"}
    /\ kind = "context" => c.reason = Nothing /\ c.by = Nothing

\* What a reviewer since whose load nobody saved still knows.
StillKnows(r) ==
    /\ At(r, "registering") => candidate.status = "absent"
    /\ At(r, "deciding") \/ At(r, "updating") \/ At(r, "saving") => hand[r].before = candidate
    /\ At(r, "saving") => hand[r].seen = candidate

Held ==
    /\ OfItsKind(candidate)
    /\ kind # "context" => facts = {}
    /\ \A r \in Reviewer : OfItsKind(hand[r].before)
    /\ \A r \in fresh : StillKnows(r)
    /\ kind = "context" =>
          \A r \in Reviewer : At(r, "deciding") => hand[r].before.status \in {"pending", "open"}

RecordInv == TypeInv /\ Held /\ RecordFits

\* What a decision makes of a candidate of one kind is of that kind.
LEMMA ReviewedOfItsKind ==
    ASSUME TypeOK, NEW r \in Reviewer, hand[r].decision # "none", OfItsKind(hand[r].before)
    PROVE  /\ OfItsKind(Reviewed(r))
           /\ Reviewed(r).status = "rejected" =>
                 \/ Reviewed(r).reason = Reviewed(r).by
                 \/ kind = "marketplace" /\ Reviewed(r).reason = Nothing
           /\ kind = "marketplace" /\ Reviewed(r).status = "approved" =>
                 Reviewed(r).reason = Nothing
           /\ Reviewed(r).status \in {"confirmed", "refined"} <=> Promotes(hand[r].decision)
<1> DEFINE d == hand[r].decision
<1>1. d \in Decisions[kind] /\ kind \in {"taxonomy", "context", "marketplace"}
  BY CandidateAssumption DEF TypeOK
<1>2. /\ Reviewed(r).status = Status[d] /\ Reviewed(r).reason = Reason(r)
      /\ Reviewed(r).by = IF kind = "context" THEN Nothing ELSE r
  BY DEF Reviewed
<1>3. CASE kind = "taxonomy"
  <2>1. d \in {"approve", "reject", "merge", "rename"}
    BY <1>1, <1>3 DEF Decisions
  <2> QED
    BY <1>2, <1>3, <2>1 DEF Status, Reason, OfItsKind, Promotes
<1>4. CASE kind = "context"
  <2>1. d \in {"confirm", "refine", "reject", "keep_open"}
    BY <1>1, <1>4 DEF Decisions
  <2> QED
    BY <1>2, <1>4, <2>1 DEF Status, Reason, OfItsKind, Promotes
<1>5. CASE kind = "marketplace"
  <2>1. d \in {"approve", "reject", "dismiss", "archive"}
    BY <1>1, <1>5 DEF Decisions
  <2> QED
    BY <1>2, <1>5, <2>1 DEF Status, Reason, OfItsKind, Promotes
<1> QED
  BY <1>1, <1>3, <1>4, <1>5

LEMMA RecordInvInit == Init => RecordInv
<1> SUFFICES ASSUME Init PROVE RecordInv
  OBVIOUS
<1>1. TypeInv
  BY TypeInvInit
<1>2. /\ candidate.status = IF kind = "context" THEN "absent" ELSE "pending"
      /\ candidate.reason = Nothing /\ candidate.by = Nothing
      /\ \A r \in Reviewer : hand[r].before = Pending
  BY DEF Init, Absent, Pending, NoHand
<1>3. Held
  BY <1>2 DEF Init, Held, OfItsKind, At, Pending
<1>4. RecordFits
  BY <1>2 DEF Init, RecordFits
<1> QED
  BY <1>1, <1>3, <1>4 DEF RecordInv

LEMMA RecordInvStep == RecordInv /\ [Next]_vars => RecordInv'
<1> SUFFICES ASSUME RecordInv, [Next]_vars PROVE RecordInv'
  OBVIOUS
<1>t. TypeInv'
  BY TypeInvStep DEF RecordInv
<1> USE DEF RecordInv
<1>s. SUFFICES Held' /\ RecordFits'
  BY <1>t
<1> USE DEF TypeInv
<1>a. \A r \in Reviewer : hand[r].before \in Candidate /\ hand[r].seen \in Candidate
  BY DEF TypeOK, Hand
<1>1. ASSUME NEW r \in Reviewer, LooksUp(r) PROVE Held' /\ RecordFits'
  BY <1>1 DEF LooksUp, Goto, At, outside, TypeOK, Held, OfItsKind, StillKnows, RecordFits
<1>2. ASSUME NEW r \in Reviewer, Registers(r) PROVE Held' /\ RecordFits'
  <2>1. kind = "context"
    BY <1>2 DEF Registers, Routes
  <2>2. Held'
    BY <1>2, <2>1 DEF Registers, SavedBy, Goto, At, outside, TypeOK, Held, OfItsKind, Pending
  <2>3. ~stale' => candidate.status = "absent" /\ ~stale
    BY <1>2 DEF Registers, SavedBy, Held, StillKnows
  <2>4. RecordFits'
    BY <1>2, <2>1, <2>3 DEF Registers, outside, Pending, RecordFits
  <2> QED
    BY <2>2, <2>4
<1>3. ASSUME NEW r \in Reviewer, NEW d \in UNION {Decisions[k] : k \in Kinds}, Loads(r, d)
      PROVE  Held' /\ RecordFits'
  <2>1. /\ hand' = [hand EXCEPT ![r] = [decision |-> d, before |-> candidate, seen |-> candidate]]
        /\ pc' = [pc EXCEPT ![r] = IF kind = "marketplace" THEN "saving" ELSE "deciding"]
        /\ fresh' = fresh \cup {r}
        /\ UNCHANGED <<kind, candidate, facts, stale>>
    BY <1>3 DEF Loads, Goto, outside
  <2>2. hand'[r].before = candidate /\ hand'[r].seen = candidate
    BY <2>1 DEF TypeOK
  <2>3. \A q \in Reviewer \ {r} : hand'[q] = hand[q] /\ pc'[q] = pc[q]
    BY <2>1 DEF TypeOK
  <2>4. pc'[r] \in {"saving", "deciding"}
    BY <2>1 DEF TypeOK
  <2>5. kind = "context" => candidate.status \in {"pending", "open"}
    BY <1>3 DEF Loads, CanBeDecided
  <2>6. fresh \subseteq Reviewer
    BY DEF TypeOK
  <2>7. Held'
    BY <2>1, <2>2, <2>3, <2>4, <2>5, <2>6 DEF Held, OfItsKind, StillKnows, At
  <2> QED
    BY <2>1, <2>7 DEF RecordFits
<1>4. ASSUME NEW r \in Reviewer, SavesContext(r) PROVE Held' /\ RecordFits'
  <2>1. hand[r].decision # "none" /\ kind = "context" /\ pc[r] = "deciding"
    BY <1>4 DEF SavesContext, TypeOK, At
  <2>2. OfItsKind(hand[r].before) /\ hand[r].before.status \in {"pending", "open"}
    BY <2>1 DEF Held, At
  <2> DEFINE rev == Reviewed(r)
  <2>3. /\ OfItsKind(rev)
        /\ rev.status = "rejected" => rev.reason = rev.by
        /\ rev.status \in {"confirmed", "refined"} <=> Promotes(hand[r].decision)
    BY <2>1, <2>2, ReviewedOfItsKind
  <2>4. rev.ref = Chosen(r)
    BY DEF Reviewed
  <2>5. /\ candidate' = rev /\ kind' = kind /\ fresh' = {}
        /\ facts' = IF Promotes(hand[r].decision) THEN facts \cup {Chosen(r)} ELSE facts
        /\ stale' = (stale \/ r \notin fresh)
        /\ hand' = [hand EXCEPT ![r] = NoHand] /\ pc' = [pc EXCEPT ![r] = "idle"]
    BY <1>4 DEF SavesContext, SavedBy, Goto
  <2>6. \A q \in Reviewer : hand'[q].before \in {hand[q].before, Pending}
    BY <2>5 DEF TypeOK, NoHand
  <2>7. OfItsKind(Pending)
    BY DEF OfItsKind, Pending
  <2>8. Held'
    <3>1. \A q \in Reviewer : OfItsKind(hand'[q].before)
      BY <2>6, <2>7 DEF Held
    <3>2. \A q \in Reviewer : pc'[q] = "deciding" => hand'[q] = hand[q] /\ pc[q] = "deciding"
      BY <2>5 DEF TypeOK
    <3> HIDE DEF rev
    <3> QED
      BY <2>1, <2>3, <2>5, <3>1, <3>2 DEF Held, OfItsKind, At
  <2>9. ~stale' => ~stale /\ candidate.status \in {"pending", "open"}
    BY <2>1, <2>2, <2>5 DEF Held, StillKnows, At
  <2> HIDE DEF rev
  <2>10. RecordFits'
    BY <2>1, <2>3, <2>4, <2>5, <2>9 DEF RecordFits
  <2> QED
    BY <2>8, <2>10
<1>5. ASSUME NEW r \in Reviewer, EntersCatalog(r) PROVE Held' /\ RecordFits'
  BY <1>5 DEF EntersCatalog, seenBy, Goto, At, TypeOK, Held, OfItsKind, StillKnows, RecordFits
<1>6. ASSUME NEW r \in Reviewer, LoadsRow(r) PROVE Held' /\ RecordFits'
  <2>1. /\ hand' = [hand EXCEPT ![r].seen = candidate] /\ pc' = [pc EXCEPT ![r] = "saving"]
        /\ UNCHANGED <<kind, candidate, facts, fresh, stale>> /\ pc[r] = "updating"
    BY <1>6 DEF LoadsRow, Goto, At, outside, seenBy
  <2>2. \A q \in Reviewer : hand'[q].before = hand[q].before
    BY <2>1 DEF TypeOK, Hand
  <2>3. hand'[r].seen = candidate
    BY <2>1 DEF TypeOK, Hand
  <2>4. \A q \in Reviewer \ {r} : hand'[q] = hand[q] /\ pc'[q] = pc[q]
    BY <2>1 DEF TypeOK
  <2>5. pc'[r] = "saving" /\ fresh \subseteq Reviewer
    BY <2>1 DEF TypeOK
  <2>6. Held'
    BY <2>1, <2>2, <2>3, <2>4, <2>5 DEF Held, OfItsKind, StillKnows, At
  <2> QED
    BY <2>1, <2>6 DEF RecordFits
<1>7. ASSUME NEW r \in Reviewer, Updates(r) PROVE Held' /\ RecordFits'
  <2>1. hand[r].decision # "none" /\ kind \in {"taxonomy", "marketplace"} /\ pc[r] = "saving"
    BY <1>7 DEF Updates, TypeOK, Routes, At
  <2>2. OfItsKind(hand[r].before)
    BY DEF Held
  <2> DEFINE rev == Reviewed(r)
  <2>3. /\ OfItsKind(rev)
        /\ rev.status = "rejected" =>
              rev.reason = rev.by \/ (kind = "marketplace" /\ rev.reason = Nothing)
        /\ kind = "marketplace" /\ rev.status = "approved" => rev.reason = Nothing
    BY <2>1, <2>2, ReviewedOfItsKind
  <2>4. rev \in Candidate
    BY <2>1, ReviewedType
  <2>5. /\ candidate' = Written(candidate, hand[r].seen, rev) /\ kind' = kind /\ fresh' = {}
        /\ facts' = facts /\ stale' = (stale \/ r \notin fresh)
        /\ hand' = [hand EXCEPT ![r] = IF kind = "taxonomy" THEN @ ELSE NoHand]
        /\ pc' = [pc EXCEPT ![r] = IF kind = "taxonomy" THEN "auditing" ELSE "idle"]
    BY <1>7 DEF Updates, SavedBy, Goto, outside
  <2> HIDE DEF rev
  <2>6. /\ candidate'.status \in {candidate.status, rev.status}
        /\ hand[r].seen = candidate => candidate' = rev
    BY <1>a, <2>4, <2>5, Mixture DEF TypeOK
  <2>7. \A q \in Reviewer : hand'[q].before \in {hand[q].before, Pending}
    BY <2>5 DEF TypeOK, NoHand
  <2>8. OfItsKind(Pending)
    BY DEF OfItsKind, Pending
  <2>9. \A q \in Reviewer : OfItsKind(hand'[q].before)
    BY <2>7, <2>8 DEF Held
  <2>10. Held'
    BY <2>1, <2>3, <2>5, <2>6, <2>9 DEF Held, OfItsKind
  <2>11. ~stale' => candidate' = rev
    BY <2>1, <2>5, <2>6 DEF Held, StillKnows, At
  <2>12. candidate'.status \notin {"confirmed", "refined"}
    BY <2>1, <2>10, <2>5 DEF Held, OfItsKind
  <2>13. RecordFits'
    BY <2>1, <2>3, <2>5, <2>11, <2>12 DEF RecordFits
  <2> QED
    BY <2>10, <2>13
<1>8. ASSUME NEW r \in Reviewer, Audits(r) PROVE Held' /\ RecordFits'
  BY <1>8 DEF Audits, seenBy, Goto, At, TypeOK, Held, OfItsKind, StillKnows, RecordFits, NoHand, Pending
<1>9. ASSUME NEW r \in Reviewer, Dies(r) PROVE Held' /\ RecordFits'
  BY <1>9 DEF Dies, outside, Goto, At, TypeOK, Held, OfItsKind, StillKnows, RecordFits, NoHand, Pending
<1>10. CASE UNCHANGED vars
  BY <1>10 DEF vars, outside, seenBy, At, Held, OfItsKind, StillKnows, RecordFits
<1> QED
  BY <1>1, <1>2, <1>3, <1>4, <1>5, <1>6, <1>7, <1>8, <1>9, <1>10 DEF Next

\* Whatever decisions overlap, a confirmed context candidate names a fact that
\* was saved; until somebody saves over what he had not seen, it names the only
\* one, and the reason of a rejection is that of the reviewer it names.
THEOREM RecordsFit == Spec => []RecordFits
<1>1. RecordInv => RecordFits
  BY DEF RecordInv
<1> QED
  BY <1>1, RecordInvInit, RecordInvStep, PTL DEF Spec

-----------------------------------------------------------------------------
(* What the audit log of the taxonomy tells *)

PastCatalog(r) == At(r, "updating") \/ At(r, "saving") \/ At(r, "auditing")
Enters(r) == hand[r].decision \in {"approve", "rename"}

\* The candidates the audit log knows, and those it is about to know.
Told ==
    {Pending} \cup {e.after : e \in audit} \cup {Reviewed(r) : r \in {q \in Reviewer : At(q, "auditing")}}

\* The codes it knows, and those whose reviewers it is yet to hear from.
CodesTold ==
    {Known} \cup {e.after.ref : e \in audit}
            \cup {Chosen(r) : r \in {q \in Reviewer : PastCatalog(q) /\ Enters(q)}}

Catalogued ==
    /\ Known \in catalog
    /\ \A r \in Reviewer : PastCatalog(r) /\ Enters(r) => Chosen(r) \in catalog
    /\ ~stale /\ candidate.status \in {"approved", "merged"} => candidate.ref \in catalog

Trail ==
    /\ candidate \in Told
    /\ \A e \in audit : e.before \in Told
    /\ \A r \in Reviewer : hand[r].before \in Told
    /\ catalog \subseteq CodesTold

AuditInv ==
    /\ RecordInv
    /\ kind = "taxonomy" => Catalogued
    /\ kind = "taxonomy" /\ ~stale /\ faults = 0 => Trail

\* Only what a reviewer has in hand tells what he makes of the candidate.
LEMMA SameHand ==
    ASSUME NEW q \in Reviewer, kind' = kind,
           hand'[q].decision = hand[q].decision, hand'[q].before = hand[q].before
    PROVE  Reviewed(q)' = Reviewed(q) /\ Chosen(q)' = Chosen(q) /\ Enters(q)' = Enters(q)
BY DEF Reviewed, Chosen, Reason, Enters

\* What was told, or about to be, stays so.
LEMMA ToldStays ==
    ASSUME audit \subseteq audit',
           \A q \in Reviewer : At(q, "auditing") =>
               \/ At(q, "auditing")' /\ Reviewed(q)' = Reviewed(q)
               \/ \E e \in audit' : e.after = Reviewed(q),
           \A q \in Reviewer : PastCatalog(q) /\ Enters(q) =>
               \/ PastCatalog(q)' /\ Enters(q)' /\ Chosen(q)' = Chosen(q)
               \/ \E e \in audit' : e.after.ref = Chosen(q)
    PROVE  Told \subseteq Told' /\ CodesTold \subseteq CodesTold'
<1>1. ASSUME NEW x \in Told PROVE x \in Told'
  <2>1. CASE x = Pending
    BY <2>1 DEF Told, Pending
  <2>2. CASE \E e \in audit : x = e.after
    BY <2>2 DEF Told
  <2>3. CASE \E q \in Reviewer : At(q, "auditing") /\ x = Reviewed(q)
    BY <2>3 DEF Told
  <2> QED
    BY <1>1, <2>1, <2>2, <2>3 DEF Told
<1>2. ASSUME NEW x \in CodesTold PROVE x \in CodesTold'
  <2>1. CASE x = Known
    BY <2>1 DEF CodesTold
  <2>2. CASE \E e \in audit : x = e.after.ref
    BY <2>2 DEF CodesTold
  <2>3. CASE \E q \in Reviewer : PastCatalog(q) /\ Enters(q) /\ x = Chosen(q)
    BY <2>3 DEF CodesTold
  <2> QED
    BY <1>2, <2>1, <2>2, <2>3 DEF CodesTold
<1> QED
  BY <1>1, <1>2

LEMMA AuditInvInit == Init => AuditInv
<1> SUFFICES ASSUME Init PROVE AuditInv
  OBVIOUS
<1>1. RecordInv
  BY RecordInvInit
<1>2. \A r \in Reviewer : pc[r] = "idle" /\ hand[r].before = Pending
  BY DEF Init, NoHand
<1>3. kind = "taxonomy" => candidate = Pending /\ catalog = {Known} /\ audit = {}
  BY DEF Init
<1>4. kind = "taxonomy" => Catalogued
  BY <1>2, <1>3 DEF Catalogued, PastCatalog, At, Pending
<1>5. kind = "taxonomy" => Trail
  BY <1>2, <1>3 DEF Trail, Told, CodesTold
<1> QED
  BY <1>1, <1>4, <1>5 DEF AuditInv

LEMMA AuditInvStep == AuditInv /\ [Next]_vars => AuditInv'
<1> SUFFICES ASSUME AuditInv, [Next]_vars PROVE AuditInv'
  OBVIOUS
<1>r. RecordInv'
  BY RecordInvStep DEF AuditInv
<1>k. kind' = kind
  BY DEF Next, vars, LooksUp, Registers, Loads, SavesContext, EntersCatalog, LoadsRow, Updates,
         Audits, Dies
<1>s. SUFFICES ASSUME kind = "taxonomy"
               PROVE  Catalogued' /\ (~stale' /\ faults' = 0 => Trail')
  BY <1>r, <1>k DEF AuditInv
<1>y. /\ TypeOK /\ Held /\ Catalogued /\ pc \in [Reviewer -> {"idle", "registering", "deciding",
         "updating", "saving", "auditing"}] /\ hand \in [Reviewer -> Hand]
      /\ ~stale /\ faults = 0 => Trail
  BY <1>s DEF AuditInv, RecordInv, TypeInv, TypeOK
<1>1. ASSUME NEW r \in Reviewer, LooksUp(r) \/ Registers(r) \/ SavesContext(r) PROVE FALSE
  BY <1>1, <1>s DEF LooksUp, Registers, SavesContext, AuditInv, RecordInv, TypeInv, Routes
<1>2. ASSUME NEW r \in Reviewer, NEW d \in UNION {Decisions[k] : k \in Kinds}, Loads(r, d)
      PROVE  Catalogued' /\ (~stale' /\ faults' = 0 => Trail')
  <2>1. /\ hand' = [hand EXCEPT ![r] = [decision |-> d, before |-> candidate, seen |-> candidate]]
        /\ pc' = [pc EXCEPT ![r] = "deciding"] /\ pc[r] = "idle"
        /\ UNCHANGED <<candidate, catalog, audit, stale, faults>>
    BY <1>2, <1>s DEF Loads, Goto, At, outside
  <2>2. \A q \in Reviewer : PastCatalog(q)' => q # r /\ PastCatalog(q)
    BY <1>y, <2>1 DEF PastCatalog, At
  <2>3. \A q \in Reviewer \ {r} : hand'[q] = hand[q] /\ pc'[q] = pc[q]
    BY <1>y, <2>1
  <2>4. \A q \in Reviewer \ {r} :
          Reviewed(q)' = Reviewed(q) /\ Chosen(q)' = Chosen(q) /\ Enters(q)' = Enters(q)
    BY <1>k, <2>3, SameHand
  <2>5. Catalogued'
    BY <1>y, <2>1, <2>2, <2>4 DEF Catalogued
  <2>6. Told \subseteq Told' /\ CodesTold \subseteq CodesTold'
    <3>1. ~PastCatalog(r) /\ ~At(r, "auditing")
      BY <2>1 DEF PastCatalog, At
    <3>2. \A q \in Reviewer \ {r} : PastCatalog(q)' = PastCatalog(q) /\ At(q, "auditing")' = At(q, "auditing")
      BY <2>3 DEF PastCatalog, At
    <3> QED
      BY <2>1, <2>4, <3>1, <3>2, ToldStays
  <2>7. hand'[r].before = candidate
    BY <1>y, <2>1
  <2> QED
    BY <1>y, <2>1, <2>3, <2>5, <2>6, <2>7 DEF Trail
<1>3. ASSUME NEW r \in Reviewer, EntersCatalog(r) PROVE Catalogued' /\ (~stale' /\ faults' = 0 => Trail')
  <2>1. /\ catalog' = IF Enters(r) THEN catalog \cup {Chosen(r)} ELSE catalog
        /\ pc' = [pc EXCEPT ![r] = "updating"] /\ pc[r] = "deciding"
        /\ UNCHANGED <<candidate, audit, hand, stale, faults>>
    BY <1>3 DEF EntersCatalog, Goto, At, seenBy, Enters
  <2>2. \A q \in Reviewer :
          Reviewed(q)' = Reviewed(q) /\ Chosen(q)' = Chosen(q) /\ Enters(q)' = Enters(q)
    BY <1>k, <2>1, SameHand
  <2>3. \A q \in Reviewer \ {r} : pc'[q] = pc[q]
    BY <1>y, <2>1
  <2>4. PastCatalog(r)' /\ ~PastCatalog(r)
    BY <1>y, <2>1 DEF PastCatalog, At
  <2>5. \A q \in Reviewer \ {r} : PastCatalog(q)' = PastCatalog(q) /\ At(q, "auditing")' = At(q, "auditing")
    BY <2>3 DEF PastCatalog, At
  <2>6. Catalogued'
    BY <1>y, <2>1, <2>2, <2>4, <2>5 DEF Catalogued
  <2>7. Told \subseteq Told' /\ CodesTold \subseteq CodesTold'
    <3>1. ~At(r, "auditing")
      BY <2>1 DEF At
    <3> QED
      BY <2>1, <2>2, <2>4, <2>5, <3>1, ToldStays
  <2>8. Enters(r) => Chosen(r) \in CodesTold'
    <3>1. Enters(r) => Chosen(r)' \in CodesTold'
      BY <2>2, <2>4 DEF CodesTold
    <3> QED
      BY <2>2, <3>1
  <2> QED
    BY <1>y, <2>1, <2>6, <2>7, <2>8 DEF Trail
<1>4. ASSUME NEW r \in Reviewer, LoadsRow(r) PROVE Catalogued' /\ (~stale' /\ faults' = 0 => Trail')
  <2>1. /\ hand' = [hand EXCEPT ![r].seen = candidate]
        /\ pc' = [pc EXCEPT ![r] = "saving"] /\ pc[r] = "updating"
        /\ UNCHANGED <<candidate, catalog, audit, stale, faults>>
    BY <1>4 DEF LoadsRow, Goto, At, outside, seenBy
  <2>2. \A q \in Reviewer : hand'[q].before = hand[q].before /\ hand'[q].decision = hand[q].decision
    BY <1>y, <2>1 DEF Hand
  <2>3. \A q \in Reviewer :
          Reviewed(q)' = Reviewed(q) /\ Chosen(q)' = Chosen(q) /\ Enters(q)' = Enters(q)
    BY <1>k, <2>2, SameHand
  <2>4. \A q \in Reviewer : PastCatalog(q)' = PastCatalog(q) /\ At(q, "auditing")' = At(q, "auditing")
    BY <1>y, <2>1 DEF PastCatalog, At
  <2>5. Catalogued'
    BY <1>y, <2>1, <2>3, <2>4 DEF Catalogued
  <2>6. Told \subseteq Told' /\ CodesTold \subseteq CodesTold'
    BY <2>1, <2>3, <2>4, ToldStays
  <2> QED
    BY <1>y, <2>1, <2>2, <2>5, <2>6 DEF Trail
<1>5. ASSUME NEW r \in Reviewer, Updates(r) PROVE Catalogued' /\ (~stale' /\ faults' = 0 => Trail')
  <2>1. /\ candidate' = Written(candidate, hand[r].seen, Reviewed(r))
        /\ pc' = [pc EXCEPT ![r] = "auditing"] /\ pc[r] = "saving" /\ hand' = hand
        /\ stale' = (stale \/ r \notin fresh)
        /\ UNCHANGED <<catalog, audit, faults>>
    <3>1. hand' = [hand EXCEPT ![r] = hand[r]]
      BY <1>5, <1>s DEF Updates
    <3> QED
      BY <1>5, <1>s, <1>y, <3>1 DEF Updates, SavedBy, Goto, At, outside
  <2>2. \A q \in Reviewer :
          Reviewed(q)' = Reviewed(q) /\ Chosen(q)' = Chosen(q) /\ Enters(q)' = Enters(q)
    BY <1>k, <2>1, SameHand
  <2>3. /\ \A q \in Reviewer : PastCatalog(q)' = PastCatalog(q)
        /\ \A q \in Reviewer : At(q, "auditing") => At(q, "auditing")'
        /\ At(r, "auditing")'
    BY <1>y, <2>1 DEF PastCatalog, At
  <2>4. hand[r].decision # "none" /\ hand[r].decision \in Decisions["taxonomy"] \cup {"none"}
    BY <1>y, <1>s, <2>1 DEF TypeOK
  <2>5. hand[r].seen \in Candidate /\ Reviewed(r) \in Candidate /\ candidate \in Candidate
    BY <1>y, <2>4, ReviewedType DEF Hand, TypeOK
  <2>6. ~stale' => candidate' = Reviewed(r) /\ ~stale
    <3>1. ~stale' => ~stale /\ hand[r].seen = candidate
      BY <1>y, <2>1 DEF Held, StillKnows, At
    <3>2. hand[r].seen = candidate => candidate' = Reviewed(r)
      BY <2>1, <2>5, Mixture
    <3> QED
      BY <3>1, <3>2
  <2>7. Reviewed(r).status \in {"approved", "merged"} => Reviewed(r).ref \in catalog
    <3>1. PastCatalog(r)
      BY <2>1 DEF PastCatalog, At
    <3>2. Reviewed(r).status = Status[hand[r].decision] /\ Reviewed(r).ref = Chosen(r)
      BY DEF Reviewed
    <3>3. hand[r].decision \in {"approve", "reject", "merge", "rename"}
      BY <2>4 DEF Decisions
    <3>4. CASE Enters(r)
      BY <1>y, <3>1, <3>2, <3>4 DEF Catalogued
    <3>5. CASE hand[r].decision = "merge"
      <4>1. Chosen(r) = Known
        BY <3>5 DEF Chosen
      <4> QED
        BY <1>y, <3>2, <4>1 DEF Catalogued
    <3>6. CASE hand[r].decision = "reject"
      BY <3>2, <3>6 DEF Status
    <3> QED
      BY <3>3, <3>4, <3>5, <3>6 DEF Enters
  <2>8. Catalogued'
    <3>1. \A q \in Reviewer : PastCatalog(q)' /\ Enters(q)' => Chosen(q)' \in catalog'
      BY <1>y, <2>1, <2>2, <2>3 DEF Catalogued
    <3> QED
      BY <1>y, <2>1, <2>6, <2>7, <3>1 DEF Catalogued
  <2>9. Told \subseteq Told' /\ CodesTold \subseteq CodesTold'
    BY <2>1, <2>2, <2>3, ToldStays
  <2>10. ~stale' => candidate' \in Told'
    <3>1. Reviewed(r)' \in Told'
      BY <2>3 DEF Told
    <3> QED
      BY <2>2, <2>6, <3>1
  <2> QED
    BY <1>y, <2>1, <2>6, <2>8, <2>9, <2>10 DEF Trail
<1>6. ASSUME NEW r \in Reviewer, Audits(r) PROVE Catalogued' /\ (~stale' /\ faults' = 0 => Trail')
  <2> DEFINE entry == [before |-> hand[r].before, after |-> Reviewed(r)]
  <2>1. /\ audit' = audit \cup {entry}
        /\ pc' = [pc EXCEPT ![r] = "idle"] /\ pc[r] = "auditing"
        /\ hand' = [hand EXCEPT ![r] = NoHand]
        /\ UNCHANGED <<candidate, catalog, stale, faults>>
    BY <1>6 DEF Audits, Goto, At, seenBy
  <2>2. \A q \in Reviewer \ {r} : hand'[q] = hand[q] /\ pc'[q] = pc[q]
    BY <1>y, <2>1
  <2>3. \A q \in Reviewer \ {r} :
          Reviewed(q)' = Reviewed(q) /\ Chosen(q)' = Chosen(q) /\ Enters(q)' = Enters(q)
    BY <1>k, <2>2, SameHand
  <2>4. \A q \in Reviewer \ {r} : PastCatalog(q)' = PastCatalog(q) /\ At(q, "auditing")' = At(q, "auditing")
    BY <2>2 DEF PastCatalog, At
  <2>5. ~PastCatalog(r)' /\ hand'[r].before = Pending
    BY <1>y, <2>1 DEF PastCatalog, At, NoHand
  <2>6. Catalogued'
    BY <1>y, <2>1, <2>3, <2>4, <2>5 DEF Catalogued
  <2>7. entry \in audit' /\ entry.after = Reviewed(r) /\ entry.after.ref = Chosen(r)
        /\ entry.before = hand[r].before
    BY <2>1 DEF Reviewed
  <2>8. Told \subseteq Told' /\ CodesTold \subseteq CodesTold'
    <3> HIDE DEF entry
    <3>1. \A q \in Reviewer : At(q, "auditing") =>
               \/ At(q, "auditing")' /\ Reviewed(q)' = Reviewed(q)
               \/ \E e \in audit' : e.after = Reviewed(q)
      BY <2>3, <2>4, <2>7
    <3>2. \A q \in Reviewer : PastCatalog(q) /\ Enters(q) =>
               \/ PastCatalog(q)' /\ Enters(q)' /\ Chosen(q)' = Chosen(q)
               \/ \E e \in audit' : e.after.ref = Chosen(q)
      BY <2>3, <2>4, <2>7
    <3>3. audit \subseteq audit'
      BY <2>1
    <3> QED
      BY <3>1, <3>2, <3>3, ToldStays
  <2>9. Pending \in Told'
    BY DEF Told, Pending
  <2> HIDE DEF entry
  <2>10. ASSUME ~stale', faults' = 0 PROVE Trail'
    <3>1. Trail
      BY <1>y, <2>1, <2>10
    <3>2. \A e \in audit' : e.before \in Told'
      BY <2>1, <2>7, <2>8, <3>1 DEF Trail
    <3>3. \A q \in Reviewer : hand'[q].before \in Told'
      BY <2>2, <2>5, <2>8, <2>9, <3>1 DEF Trail
    <3> QED
      BY <2>1, <2>8, <3>1, <3>2, <3>3 DEF Trail
  <2> QED
    BY <2>6, <2>10
<1>7. ASSUME NEW r \in Reviewer, Dies(r) PROVE Catalogued' /\ (~stale' /\ faults' = 0 => Trail')
  <2>1. /\ faults' = faults + 1 /\ faults \in Nat
        /\ pc' = [pc EXCEPT ![r] = "idle"]
        /\ hand' = [hand EXCEPT ![r] = NoHand]
        /\ UNCHANGED <<candidate, catalog, stale>>
    BY <1>7, <1>y, CandidateAssumption DEF Dies, Goto, outside, TypeOK
  <2>2. \A q \in Reviewer \ {r} : hand'[q] = hand[q] /\ pc'[q] = pc[q]
    BY <1>y, <2>1
  <2>3. \A q \in Reviewer \ {r} : Chosen(q)' = Chosen(q) /\ Enters(q)' = Enters(q)
    BY <1>k, <2>2, SameHand
  <2>4. \A q \in Reviewer : PastCatalog(q)' => PastCatalog(q) /\ q # r
    BY <1>y, <2>1 DEF PastCatalog, At
  <2>5. Catalogued'
    BY <1>y, <2>1, <2>3, <2>4 DEF Catalogued
  <2> QED
    BY <2>1, <2>5
<1>8. CASE UNCHANGED vars
  <2>1. UNCHANGED <<candidate, catalog, audit, pc, hand, stale, faults>>
    BY <1>8 DEF vars, outside, seenBy
  <2>2. \A q \in Reviewer :
          Reviewed(q)' = Reviewed(q) /\ Chosen(q)' = Chosen(q) /\ Enters(q)' = Enters(q)
    BY <1>k, <2>1, SameHand
  <2>3. \A q \in Reviewer : PastCatalog(q)' = PastCatalog(q) /\ At(q, "auditing")' = At(q, "auditing")
    BY <2>1 DEF PastCatalog, At
  <2>4. Catalogued'
    BY <1>y, <2>1, <2>2, <2>3 DEF Catalogued
  <2>5. Told \subseteq Told' /\ CodesTold \subseteq CodesTold'
    BY <2>1, <2>2, <2>3, ToldStays
  <2> QED
    BY <1>y, <2>1, <2>4, <2>5 DEF Trail
<1> QED
  BY <1>1, <1>2, <1>3, <1>4, <1>5, <1>6, <1>7, <1>8 DEF Next

\* Until a reviewer saves over what he had not seen, an approved or merged
\* garment type is in the catalog under its code; once all are done and none
\* died, the audit log leads from the proposal to the candidate as it is, and
\* tells who brought each new code into the catalog.
THEOREM AuditsTell == Spec => []AuditTells
<1>1. AuditInv => AuditTells
  <2> SUFFICES ASSUME AuditInv, kind = "taxonomy", ~stale PROVE AuditTells
    BY DEF AuditTells
  <2>1. candidate.status \in {"approved", "merged"} => candidate.ref \in catalog
    BY DEF AuditInv, Catalogued
  <2>2. ASSUME Quiet, faults = 0
        PROVE  /\ candidate \in {e.after : e \in audit} \cup {Pending}
               /\ \A e \in audit : e.before \in {f.after : f \in audit} \cup {Pending}
               /\ catalog \ {Known} \subseteq {e.after.ref : e \in audit}
    <3>1. Trail
      BY <2>2 DEF AuditInv
    <3>2. \A r \in Reviewer : ~At(r, "auditing") /\ ~PastCatalog(r)
      BY <2>2 DEF Quiet, At, PastCatalog
    <3>3. Told = {e.after : e \in audit} \cup {Pending}
      BY <3>2 DEF Told
    <3>4. CodesTold = {Known} \cup {e.after.ref : e \in audit}
      BY <3>2 DEF CodesTold
    <3> QED
      BY <3>1, <3>3, <3>4 DEF Trail
  <2> QED
    BY <2>1, <2>2 DEF AuditTells
<1> QED
  BY <1>1, AuditInvInit, AuditInvStep, PTL DEF Spec

=============================================================================
