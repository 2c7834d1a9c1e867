-------------------------- MODULE CandidateReview --------------------------
(***************************************************************************)
(* One candidate and those who decide about it: a garment type an agent    *)
(* proposes for the taxonomy, a fact a source suggests about its context,  *)
(* or a marketplace offer found for the search.                            *)
(*                                                                         *)
(* Only the context candidate asks whether it is still open.  Its save     *)
(* overwrites all of it, with the fact it confirms, in one commit.  The    *)
(* other two load a row and write the columns that differ from it; an      *)
(* approved garment type is put into the catalog by a commit before that,  *)
(* and audited by one after it.                                            *)
(*                                                                         *)
(* The catalog code or the fact value of a candidate is "proposed"; a      *)
(* refined value, a renamed code and a reason are identified with the      *)
(* reviewer who chose them, the codes that are in the catalog with Known.  *)
(* The reasons given for context candidates are left out.                  *)
(***************************************************************************)
EXTENDS Integers

CONSTANTS
    Reviewer,     \* concurrent requests
    Kinds,        \* kinds of candidates
    Proposed, Known, Nothing,
    MaxDecisions, \* bound on requests
    MaxFaults     \* bound on requests that die

ASSUME CandidateAssumption ==
    /\ Kinds \subseteq {"taxonomy", "context", "marketplace"}
    /\ Proposed # Known /\ Nothing \notin {Proposed, Known}
    /\ {Proposed, Known, Nothing} \cap Reviewer = {}
    /\ MaxDecisions \in Nat /\ MaxFaults \in Nat

VARIABLES
    kind,       \* what the candidate is
    candidate,  \* the persisted candidate
    facts,      \* confirmed facts that were saved
    catalog,    \* codes of the taxonomy catalog
    audit,      \* audit log of the taxonomy: candidate before and after
    pc,         \* next step of each reviewer
    hand,       \* what a reviewer has in hand
    decisions,  \* requests so far
    fresh,      \* history: reviewers since whose load nobody else has saved
    stale,      \* history: some save overwrote one its reviewer had not seen
    faults      \* history: requests that died

seenBy == <<fresh, stale>>
outside == <<facts, catalog, audit>>
vars == <<kind, candidate, outside, pc, hand, decisions, seenBy, faults>>

Code == Reviewer \cup {Proposed, Known}
Candidate ==
    [status : {"absent", "pending", "open", "confirmed", "refined", "approved", "merged",
               "rejected", "archived"},
     ref : Code \cup {Nothing},        \* confirmed_fact_id, approved_catalog_item_code
     reason : Reviewer \cup {Nothing}, \* review_reason, rejection_reason
     by : Reviewer \cup {Nothing}]     \* reviewed_by
\* A marketplace offer is dismissed if it is rejected without a reason.
Decisions ==
    [taxonomy |-> {"approve", "reject", "merge", "rename"},
     context |-> {"confirm", "refine", "reject", "keep_open"},
     marketplace |-> {"approve", "reject", "dismiss", "archive"}]
Promotes(d) == d \in {"confirm", "refine"}

Pending == [status |-> "pending", ref |-> Nothing, reason |-> Nothing, by |-> Nothing]
Absent == [Pending EXCEPT !.status = "absent"]
Hand == [decision : (UNION {Decisions[k] : k \in Kinds}) \cup {"none"},
         before : Candidate, seen : Candidate]
NoHand == [decision |-> "none", before |-> Pending, seen |-> Pending]

TypeOK ==
    /\ kind \in Kinds
    /\ candidate \in Candidate
    /\ facts \in SUBSET Code /\ catalog \in SUBSET Code
    /\ \A e \in audit : e.before \in Candidate /\ e.after \in Candidate
    /\ pc \in [Reviewer -> {"idle", "registering", "deciding", "updating", "saving", "auditing"}]
    /\ hand \in [Reviewer -> Hand]
    /\ decisions \in 0..MaxDecisions /\ faults \in 0..MaxFaults
    /\ fresh \in SUBSET Reviewer /\ stale \in BOOLEAN
    /\ \A r \in Reviewer : hand[r].decision \in Decisions[kind] \cup {"none"}
    /\ \A r \in Reviewer : pc[r] \in {"idle", "registering"} <=> hand[r].decision = "none"

Init ==
    /\ kind \in Kinds
    /\ candidate = IF kind = "context" THEN Absent ELSE Pending
    /\ facts = {}
    /\ catalog = {Known}
    /\ audit = {}
    /\ pc = [r \in Reviewer |-> "idle"]
    /\ hand = [r \in Reviewer |-> NoHand]
    /\ decisions = 0
    /\ fresh = {}
    /\ stale = FALSE
    /\ faults = 0

At(r, step) == pc[r] = step
Goto(r, step) == pc' = [pc EXCEPT ![r] = step]

\* A save is stale if somebody else saved since its reviewer loaded the candidate.
SavedBy(r) ==
    /\ stale' = (stale \/ r \notin fresh)
    /\ fresh' = {}

-----------------------------------------------------------------------------
(* Source-context candidates *)

\* A registration finds no candidate with its correlation id ...
LooksUp(r) ==
    /\ At(r, "idle") /\ decisions < MaxDecisions
    /\ kind = "context" /\ candidate.status = "absent"
    /\ decisions' = decisions + 1
    /\ fresh' = fresh \cup {r}
    /\ Goto(r, "registering")
    /\ UNCHANGED <<kind, candidate, outside, hand, stale, faults>>

\* ... and saves a new one, under an id made of it.
Registers(r) ==
    /\ At(r, "registering")
    /\ candidate' = Pending
    /\ SavedBy(r)
    /\ Goto(r, "idle")
    /\ UNCHANGED <<kind, outside, hand, decisions, faults>>

\* Mutant: any candidate can be decided.
Resolvable == TRUE

\* A context candidate that was confirmed, refined or rejected is not decided
\* again: the answer is the earlier one, or an error.
CanBeDecided == kind = "context" => candidate.status \in {"pending", "open"}

\* Mutant: every decision is taken of every kind of candidate.
LoadsForAny(r, d) ==
    /\ At(r, "idle") /\ decisions < MaxDecisions
    /\ candidate.status # "absent"
    /\ CanBeDecided
    /\ decisions' = decisions + 1
    /\ hand' = [hand EXCEPT ![r] = [decision |-> d, before |-> candidate, seen |-> candidate]]
    /\ fresh' = fresh \cup {r}
    /\ Goto(r, IF kind = "marketplace" THEN "saving" ELSE "deciding")
    /\ UNCHANGED <<kind, candidate, outside, stale, faults>>

\* The candidate is loaded; the marketplace keeps the row it loaded.
Loads(r, d) ==
    /\ At(r, "idle") /\ decisions < MaxDecisions
    /\ candidate.status # "absent"
    /\ CanBeDecided
    /\ d \in Decisions[kind]
    /\ decisions' = decisions + 1
    /\ hand' = [hand EXCEPT ![r] = [decision |-> d, before |-> candidate, seen |-> candidate]]
    /\ fresh' = fresh \cup {r}
    /\ Goto(r, IF kind = "marketplace" THEN "saving" ELSE "deciding")
    /\ UNCHANGED <<kind, candidate, outside, stale, faults>>

Status ==
    [confirm |-> "confirmed", refine |-> "refined", reject |-> "rejected", keep_open |-> "open",
     approve |-> "approved", rename |-> "approved", merge |-> "merged", dismiss |-> "rejected",
     archive |-> "archived"]

Chosen(r) ==
    LET d == hand[r].decision IN
    CASE d = "confirm" \/ (d = "approve" /\ kind = "taxonomy") -> Proposed
      [] d \in {"refine", "rename"} -> r
      [] d = "merge" -> Known
      [] OTHER -> hand[r].before.ref

\* Only rejections come with a reason; the marketplace takes it back when it
\* approves, the taxonomy does not.
Reason(r) ==
    LET d == hand[r].decision IN
    CASE kind # "context" /\ d = "reject" -> r
      [] kind = "marketplace" /\ d \in {"approve", "dismiss"} -> Nothing
      [] OTHER -> hand[r].before.reason

Reviewed(r) ==
    [status |-> Status[hand[r].decision], ref |-> Chosen(r), reason |-> Reason(r),
     by |-> IF kind = "context" THEN Nothing ELSE r]

\* A fact is saved with the candidate it confirms; nothing else is looked at.
SavesContext(r) ==
    /\ At(r, "deciding") /\ kind = "context"
    /\ candidate' = Reviewed(r)
    /\ facts' = IF Promotes(hand[r].decision) THEN facts \cup {Chosen(r)} ELSE facts
    /\ SavedBy(r)
    /\ hand' = [hand EXCEPT ![r] = NoHand]
    /\ Goto(r, "idle")
    /\ UNCHANGED <<kind, catalog, audit, decisions, faults>>

-----------------------------------------------------------------------------
(* Taxonomy and marketplace candidates *)

\* What is approved enters the catalog first.
EntersCatalog(r) ==
    /\ At(r, "deciding") /\ kind = "taxonomy"
    /\ catalog' = IF hand[r].decision \in {"approve", "rename"}
                  THEN catalog \cup {Chosen(r)} ELSE catalog
    /\ Goto(r, "updating")
    /\ UNCHANGED <<kind, candidate, facts, audit, hand, decisions, seenBy, faults>>

LoadsRow(r) ==
    /\ At(r, "updating")
    /\ hand' = [hand EXCEPT ![r].seen = candidate]
    /\ Goto(r, "saving")
    /\ UNCHANGED <<kind, candidate, outside, decisions, seenBy, faults>>

\* A row is written per column: those that differ from what was loaded.
Written(row, old, new) ==
    [c \in DOMAIN row |-> IF new[c] = old[c] THEN row[c] ELSE new[c]]

Updates(r) ==
    LET audited == kind = "taxonomy" IN
    /\ At(r, "saving")
    /\ candidate' = Written(candidate, hand[r].seen, Reviewed(r))
    /\ SavedBy(r)
    /\ hand' = [hand EXCEPT ![r] = IF audited THEN @ ELSE NoHand]
    /\ Goto(r, IF audited THEN "auditing" ELSE "idle")
    /\ UNCHANGED <<kind, outside, decisions, faults>>

\* Mutant: a merge is not audited.
AuditsUnlessMerged(r) ==
    /\ At(r, "auditing")
    /\ audit' = IF hand[r].decision = "merge" THEN audit
                ELSE audit \cup {[before |-> hand[r].before, after |-> Reviewed(r)]}
    /\ hand' = [hand EXCEPT ![r] = NoHand]
    /\ Goto(r, "idle")
    /\ UNCHANGED <<kind, candidate, facts, catalog, decisions, seenBy, faults>>

Audits(r) ==
    /\ At(r, "auditing")
    /\ audit' = audit \cup {[before |-> hand[r].before, after |-> Reviewed(r)]}
    /\ hand' = [hand EXCEPT ![r] = NoHand]
    /\ Goto(r, "idle")
    /\ UNCHANGED <<kind, candidate, facts, catalog, decisions, seenBy, faults>>

\* The process dies or a commit raises.
Dies(r) ==
    /\ faults < MaxFaults
    /\ ~At(r, "idle")
    /\ faults' = faults + 1
    /\ hand' = [hand EXCEPT ![r] = NoHand]
    /\ fresh' = fresh \ {r}
    /\ Goto(r, "idle")
    /\ UNCHANGED <<kind, candidate, outside, decisions, stale>>

Next ==
    \E r \in Reviewer :
        \/ LooksUp(r) \/ Registers(r)
        \/ \E d \in UNION {Decisions[k] : k \in Kinds} : Loads(r, d)
        \/ SavesContext(r)
        \/ EntersCatalog(r) \/ LoadsRow(r) \/ Updates(r) \/ Audits(r)
        \/ Dies(r)

Spec == Init /\ [][Next]_vars

-----------------------------------------------------------------------------
Quiet == \A r \in Reviewer : At(r, "idle")

\* A confirmed context candidate has its fact, whatever decisions overlap.  As
\* long as nobody saved over what he had not seen, that is the only fact, a
\* candidate that is not confirmed has none, the reason of a rejection is that
\* of the reviewer it names, and an approved offer has none.
RecordFits ==
    LET confirmed == candidate.status \in {"confirmed", "refined"} IN
    /\ confirmed => candidate.ref \in facts
    /\ ~stale =>
          /\ kind = "context" => facts = IF confirmed THEN {candidate.ref} ELSE {}
          /\ candidate.status = "rejected" =>
                candidate.reason = candidate.by \/ (kind = "marketplace" /\ candidate.reason = Nothing)
          /\ kind = "marketplace" /\ candidate.status = "approved" => candidate.reason = Nothing

\* As long as no reviewer saved over what he had not seen, an approved or merged
\* garment type is in the catalog under the code it names.  Once all of them are
\* done, and none died, the audit log leads from the proposal to the candidate
\* as it is, and tells who brought each new code into the catalog.
AuditTells ==
    kind = "taxonomy" /\ ~stale =>
        /\ candidate.status \in {"approved", "merged"} => candidate.ref \in catalog
        /\ Quiet /\ faults = 0 =>
              /\ candidate \in {e.after : e \in audit} \cup {Pending}
              /\ \A e \in audit : e.before \in {f.after : f \in audit} \cup {Pending}
              /\ catalog \ {Known} \subseteq {e.after.ref : e \in audit}
=============================================================================
