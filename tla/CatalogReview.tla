--------------------------- MODULE CatalogReview ---------------------------
(***************************************************************************)
(* One product of the business catalog: its owner uploads images and       *)
(* submits it, administrators validate its category, approve, reject and   *)
(* archive it, and the queue indexes it for the search.                    *)
(*                                                                         *)
(* Every request works on the product it once loaded and saves all of it.  *)
(* save_product loads the row again and writes the columns that differ     *)
(* from it, in one commit (session.merge); a save is therefore three steps *)
(* and can mix columns of two writers.  The indexer updates its columns    *)
(* whatever the product has become.                                        *)
(*                                                                         *)
(* An index job is enqueued under a key made of the product's updated_at,  *)
(* here a number, or, by a batch approval, of the ids in the batch.  The   *)
(* queue is the one JobDelivery specifies; no scan takes an execution for  *)
(* dead here: jobs of two keys execute the same handler anyway.            *)
(***************************************************************************)
EXTENDS FiniteSets, Integers

CONSTANTS
    Request,     \* concurrent requests of owner and administrators
    Execution,   \* concurrent handler calls of the queue's workers
    ImageLimit,  \* images_per_product of the merchant's tier
    MaxRequests, \* bound on requests
    MaxFaults    \* bound on requests and executions that die, and restarts

ASSUME CatalogAssumption ==
    /\ IsFiniteSet(Request) /\ Request # {}
    /\ ImageLimit \in Nat \ {0} /\ MaxRequests \in Nat /\ MaxFaults \in Nat

VARIABLES
    row,        \* the persisted product
    images,     \* images attached so far; an image is identified with its number
    primary,    \* the first of its primary images, 0 if there is none
    clock,      \* latest updated_at handed out
    cached,     \* the result of the upload with an idempotency key is cached
    known, begun, again, executing, closed,  \* the queue
    pc,         \* next step of each request
    hand,       \* what a request has in hand
    step,       \* next step of each execution
    requests,   \* requests so far
    decision,   \* history: what was last decided about the product
    fresh,      \* history: requests since whose load nobody else has saved
    stale,      \* history: some save overwrote one its request had not seen
    late,       \* history: an image came to a public product or during a validation
    keyed,      \* history: images attached with the idempotency key
    overlap,    \* history: two uploads with the key went on together
    unsent,     \* history: a batch approval found its index job begun before
    faults      \* history: requests and executions that died, restarts

queue == <<known, begun, again, executing, closed>>
gallery == <<images, primary, late, keyed>>
seenBy == <<fresh, stale>>
local == <<pc, hand, requests>>
vars == <<row, gallery, clock, cached, queue, local, step, decision, seenBy, overlap,
          unsent, faults>>

Stamp == 0..(2 * MaxRequests)
BatchKey == 2 * MaxRequests + 1
NoKey == BatchKey + 1
QueueJob == Stamp \cup {BatchKey}

Queue == INSTANCE JobDelivery WITH Job <- QueueJob, Worker <- Execution, NoJob <- NoKey

Image == 0..(MaxRequests + 1)  \* at most one a request, and that of Init
Verdict == [result : {"not_checked", "matched", "other"}, image : Image]
Product ==
    [status : {"draft", "submitted", "active", "rejected", "archived"},
     review : {"not_required", "pending", "approved", "rejected"},
     verdict : Verdict,
     index : {"not_indexed", "pending", "indexed", "failed"},
     updated : Stamp]
Place == {"idle", "storing", "attaching", "listed", "analyzing", "loaded", "merging", "enqueueing"}
Operation == {"none", "upload", "keyed_upload", "submit", "validate", "approve", "batch",
              "reject", "archive", "retry"}
Hand == [op : Operation, as : Product, seen : Product, image : Image]

Unchecked == [result |-> "not_checked", image |-> 0]
Draft == [status |-> "draft", review |-> "not_required", verdict |-> Unchecked,
          index |-> "not_indexed", updated |-> 0]
NoHand == [op |-> "none", as |-> Draft, seen |-> Draft, image |-> 0]

TypeOK ==
    /\ row \in Product
    /\ images \in Image /\ primary \in 0..images /\ late \in BOOLEAN
    /\ keyed \in 0..images
    /\ clock \in Stamp /\ row.updated <= clock
    /\ cached \in BOOLEAN /\ overlap \in BOOLEAN /\ unsent \in BOOLEAN /\ stale \in BOOLEAN
    /\ known \in SUBSET QueueJob /\ begun \in SUBSET known
    /\ again = {} /\ closed \in SUBSET known
    /\ executing \in [Execution -> QueueJob \cup {NoKey}]
    /\ pc \in [Request -> Place]
    /\ hand \in [Request -> Hand]
    /\ step \in [Execution -> {"idle", "reading", "indexing", "skipping", "returned"}]
    /\ requests \in 0..MaxRequests /\ faults \in 0..MaxFaults
    /\ decision \in {"created", "submitted", "approved", "rejected", "archived"}
    /\ fresh \in SUBSET Request

\* A product just created, and one submitted with a primary image that matches.
Init ==
    /\ \/ row = Draft /\ images = 0 /\ decision = "created"
       \/ /\ row = [Draft EXCEPT !.status = "submitted", !.review = "pending",
                                 !.verdict = [result |-> "matched", image |-> 1]]
          /\ images = 1 /\ decision = "submitted"
    /\ primary = images
    /\ clock = 0
    /\ cached = FALSE
    /\ Queue!Init
    /\ pc = [r \in Request |-> "idle"]
    /\ hand = [r \in Request |-> NoHand]
    /\ step = [e \in Execution |-> "idle"]
    /\ requests = 0
    /\ fresh = {}
    /\ stale = FALSE
    /\ late = FALSE
    /\ keyed = 0
    /\ overlap = FALSE
    /\ unsent = FALSE
    /\ faults = 0

Public == row.status = "active" /\ row.review = "approved"

-----------------------------------------------------------------------------
(* Requests *)

At(r, place) == pc[r] = place
Goto(r, place) == pc' = [pc EXCEPT ![r] = place]
others == <<row, gallery, cached, queue, step, decision, stale, unsent, faults>>

Arrives(r) ==
    /\ At(r, "idle")
    /\ requests < MaxRequests
    /\ requests' = requests + 1

\* A request has loaded the product and is going to save it as "as".
Saves(r, op, as) ==
    /\ hand' = [hand EXCEPT ![r] = [NoHand EXCEPT !.op = op, !.as = as]]
    /\ fresh' = fresh \cup {r}
    /\ Goto(r, "loaded")

Now == clock + 1
Touches == clock' = Now
Leaves == clock' = clock

\* Mutant: one more image than the tier allows.
UploadsOneMore(r, op) ==
    /\ Arrives(r)
    /\ images <= ImageLimit
    /\ op = "keyed_upload" => ~cached
    /\ hand' = [hand EXCEPT ![r].op = op]
    /\ overlap' = (overlap \/ (op = "keyed_upload" /\ \E s \in Request : hand[s].op = op))
    /\ Goto(r, "storing")
    /\ UNCHANGED <<others, clock, fresh>>

\* An upload finds no cached result under its key and room for its image.
Uploads(r, op) ==
    /\ Arrives(r)
    /\ images + 1 <= ImageLimit
    /\ op = "keyed_upload" => ~cached
    /\ hand' = [hand EXCEPT ![r].op = op]
    /\ overlap' = (overlap \/ (op = "keyed_upload" /\ \E s \in Request : hand[s].op = op))
    /\ Goto(r, "storing")
    /\ UNCHANGED <<others, clock, fresh>>

\* Mutant: the validation is kept.
StoresValidated(r) ==
    /\ At(r, "storing")
    /\ hand' = [hand EXCEPT ![r].as = row]
    /\ fresh' = fresh \cup {r}
    /\ Goto(r, "attaching")
    /\ UNCHANGED <<others, clock, requests, overlap>>

\* The file is stored; the product is loaded, to be saved as not validated.
Stores(r) ==
    /\ At(r, "storing")
    /\ hand' = [hand EXCEPT ![r].as = [row EXCEPT !.verdict = Unchecked]]
    /\ fresh' = fresh \cup {r}
    /\ Goto(r, "attaching")
    /\ UNCHANGED <<others, clock, requests, overlap>>

\* Mutant: the product refers to an image that was not saved.
AttachesNothing(r, first) ==
    /\ At(r, "attaching")
    /\ primary' = IF first THEN images + 1 ELSE primary
    /\ Touches
    /\ hand' = [hand EXCEPT ![r].as.updated = Now]
    /\ Goto(r, "loaded")
    /\ UNCHANGED <<row, images, late, keyed, cached, queue, step, decision, seenBy, requests,
                   overlap, unsent, faults>>

\* The image is saved before the product is.  It may come first.
Attaches(r, first) ==
    LET new == images + 1 IN
    /\ At(r, "attaching")
    /\ images' = new
    /\ primary' = IF first THEN new ELSE primary
    /\ late' = (late \/ Public \/ \E s \in Request : At(s, "analyzing"))
    /\ keyed' = IF hand[r].op = "keyed_upload" THEN keyed + 1 ELSE keyed
    /\ Touches
    /\ hand' = [hand EXCEPT ![r].as.updated = Now]
    /\ Goto(r, "loaded")
    /\ UNCHANGED <<row, cached, queue, step, decision, seenBy, requests, overlap, unsent, faults>>

Submits(r) ==
    /\ Arrives(r)
    /\ primary # 0
    /\ Saves(r, "submit", [row EXCEPT !.status = "submitted", !.review = "pending"])
    /\ Leaves
    /\ UNCHANGED <<others, overlap>>

\* An administrator states what he sees on the primary image.
Judges(r, result) ==
    /\ Arrives(r)
    /\ Saves(r, "validate", [row EXCEPT !.verdict = [result |-> result, image |-> primary],
                                        !.updated = Now])
    /\ Touches
    /\ UNCHANGED <<others, overlap>>

\* Or he has an agent look at it ...
Validates(r) ==
    /\ Arrives(r)
    /\ primary # 0
    /\ hand' = [hand EXCEPT ![r].op = "validate", ![r].image = primary]
    /\ Goto(r, "analyzing")
    /\ UNCHANGED <<others, clock, fresh, overlap>>

\* ... whose answer is recorded in the product as it is by then.
Analyzed(r, result) ==
    /\ At(r, "analyzing")
    /\ Saves(r, "validate", [row EXCEPT !.verdict = [result |-> result, image |-> hand[r].image],
                                        !.updated = Now])
    /\ Touches
    /\ UNCHANGED <<others, requests, overlap>>

Approved == [row EXCEPT !.status = "active", !.review = "approved", !.index = "pending"]

\* Approval asks for a match and nothing else.
Approves(r) ==
    /\ Arrives(r)
    /\ row.verdict.result = "matched"
    /\ Saves(r, "approve", Approved)
    /\ Leaves
    /\ UNCHANGED <<others, overlap>>

\* A batch approval lists the matching products under review ...
Lists(r) ==
    /\ Arrives(r)
    /\ row.review = "pending" /\ row.verdict.result = "matched"
    /\ hand' = [hand EXCEPT ![r].op = "batch"]
    /\ Goto(r, "listed")
    /\ UNCHANGED <<others, clock, fresh, overlap>>

\* ... and approves each of them as it is by then.
ApprovesListed(r) ==
    /\ At(r, "listed")
    /\ row.verdict.result = "matched"
    /\ Saves(r, "batch", Approved)
    /\ Leaves
    /\ UNCHANGED <<others, requests, overlap>>

Rejects(r) ==
    /\ Arrives(r)
    /\ Saves(r, "reject", [row EXCEPT !.status = "rejected", !.review = "rejected"])
    /\ Leaves
    /\ UNCHANGED <<others, overlap>>

\* Mutant: only the status is archived.
ArchivesStatus(r) ==
    /\ Arrives(r)
    /\ Saves(r, "archive", [row EXCEPT !.status = "archived"])
    /\ Leaves
    /\ UNCHANGED <<others, overlap>>

Archives(r) ==
    /\ Arrives(r)
    /\ Saves(r, "archive", [row EXCEPT !.status = "archived", !.review = "not_required",
                                       !.index = "not_indexed", !.updated = Now])
    /\ Touches
    /\ UNCHANGED <<others, overlap>>

Retries(r) ==
    /\ Arrives(r)
    /\ Public
    /\ Saves(r, "retry", [row EXCEPT !.index = "pending", !.updated = Now])
    /\ Touches
    /\ UNCHANGED <<others, overlap>>

-----------------------------------------------------------------------------
(* save_product and what follows it *)

Merges(r) ==
    /\ At(r, "loaded")
    /\ hand' = [hand EXCEPT ![r].seen = row]
    /\ Goto(r, "merging")
    /\ UNCHANGED <<others, clock, requests, fresh, overlap>>

Decided(op) ==
    CASE op = "submit" -> "submitted" [] op \in {"approve", "batch"} -> "approved"
      [] op = "reject" -> "rejected" [] op = "archive" -> "archived"
      [] OTHER -> decision

\* Of the columns of a row, those are written that differ from what was loaded.
Written(current, old, new) ==
    [c \in DOMAIN current |-> IF new[c] = old[c] THEN current[c] ELSE new[c]]

\* The product is saved.  The result of an
\* upload is cached now; what was approved or retried is to be indexed.
Commits(r) ==
    LET h == hand[r]
        indexes == h.op \in {"approve", "batch", "retry"}
    IN
    /\ At(r, "merging")
    /\ row' = Written(row, h.seen, h.as)
    /\ stale' = (stale \/ r \notin fresh)
    /\ fresh' = {}
    /\ decision' = Decided(h.op)
    /\ cached' = (cached \/ h.op = "keyed_upload")
    /\ hand' = [hand EXCEPT ![r] = IF indexes THEN [h EXCEPT !.seen = Draft] ELSE NoHand]
    /\ Goto(r, IF indexes THEN "enqueueing" ELSE "idle")
    /\ UNCHANGED <<gallery, clock, queue, step, requests, overlap, unsent, faults>>

KeyOf(r) == IF hand[r].op = "batch" THEN BatchKey ELSE hand[r].as.updated

\* A key that was enqueued before is not enqueued again.
Enqueues(r) ==
    LET q == KeyOf(r) IN
    /\ At(r, "enqueueing")
    /\ IF q \in known THEN UNCHANGED queue ELSE Queue!Enqueue(q)
    /\ unsent' = (unsent \/ (q = BatchKey /\ q \in begun))
    /\ hand' = [hand EXCEPT ![r] = NoHand]
    /\ Goto(r, "idle")
    /\ UNCHANGED <<row, gallery, clock, cached, step, requests, decision, seenBy, overlap, faults>>

\* The storage, an agent or the list of a batch gives nothing to save.
Stops(r) ==
    /\ At(r, "storing") \/ At(r, "analyzing") \/ At(r, "listed")
    /\ hand' = [hand EXCEPT ![r] = NoHand]
    /\ Goto(r, "idle")
    /\ UNCHANGED <<others, clock, requests, fresh, overlap>>

\* The request dies, or a commit or the enqueue raises.
RequestDies(r) ==
    /\ faults < MaxFaults
    /\ ~At(r, "idle")
    /\ faults' = faults + 1
    /\ hand' = [hand EXCEPT ![r] = NoHand]
    /\ fresh' = fresh \ {r}
    /\ Goto(r, "idle")
    /\ UNCHANGED <<row, gallery, clock, cached, queue, step, decision, stale, requests, overlap,
                   unsent>>

\* The cache of results is in memory.
Restarts ==
    /\ faults < MaxFaults
    /\ cached
    /\ cached' = FALSE
    /\ faults' = faults + 1
    /\ UNCHANGED <<row, gallery, clock, queue, local, step, decision, seenBy, overlap, unsent>>

-----------------------------------------------------------------------------
(* The index handler *)

StepTo(e, place) == step' = [step EXCEPT ![e] = place]
indexer == <<gallery, cached, local, decision, stale, overlap, unsent>>

Begin(e, q) ==
    /\ Queue!Begin(e, q)
    /\ StepTo(e, "reading")
    /\ UNCHANGED <<indexer, row, clock, fresh, faults>>

\* Only an active, approved product is found, unless its offer is out of stock.
Reads(e) ==
    /\ step[e] = "reading"
    /\ (Public /\ StepTo(e, "indexing")) \/ StepTo(e, "skipping")
    /\ UNCHANGED <<indexer, row, clock, queue, fresh, faults>>

Indexed(e, index) ==
    /\ row' = [row EXCEPT !.index = index, !.updated = Now]
    /\ Touches
    /\ fresh' = {}
    /\ StepTo(e, "returned")
    /\ UNCHANGED <<indexer, queue, faults>>

\* Mutant: a failure is raised and not recorded.
MarksSuccess(e) ==
    /\ step[e] = "indexing"
    /\ \/ Indexed(e, "indexed")
       \/ StepTo(e, "returned") /\ UNCHANGED <<indexer, row, clock, queue, fresh, faults>>

\* Embedding and upsert succeed, or not; both are recorded.
Marks(e) ==
    /\ step[e] = "indexing"
    /\ Indexed(e, "indexed") \/ Indexed(e, "failed")

MarksMissing(e) ==
    /\ step[e] = "skipping"
    /\ Indexed(e, "failed")

Returns(e) ==
    /\ step[e] = "returned"
    /\ Queue!End(e)
    /\ closed' = closed \cup {executing[e]}
    /\ StepTo(e, "idle")
    /\ UNCHANGED <<indexer, row, clock, fresh, faults>>

ExecutionDies(e) ==
    /\ faults < MaxFaults
    /\ step[e] # "idle"
    /\ faults' = faults + 1
    /\ Queue!End(e)
    /\ closed' = closed
    /\ StepTo(e, "idle")
    /\ UNCHANGED <<indexer, row, clock, fresh>>

-----------------------------------------------------------------------------
Handles(r) ==
    \/ Stores(r) \/ \E first \in BOOLEAN : Attaches(r, first)
    \/ \E result \in {"matched", "other"} : Analyzed(r, result)
    \/ ApprovesListed(r) \/ Merges(r) \/ Commits(r) \/ Enqueues(r) \/ Stops(r)

Executes(e) ==
    \/ Reads(e) \/ Marks(e) \/ MarksMissing(e) \/ Returns(e)
    \/ \E q \in QueueJob : Begin(e, q)

Next ==
    \/ \E r \in Request :
          \/ \E op \in {"upload", "keyed_upload"} : Uploads(r, op)
          \/ \E result \in {"matched", "other"} : Judges(r, result)
          \/ Submits(r) \/ Validates(r) \/ Approves(r) \/ Lists(r)
          \/ Rejects(r) \/ Archives(r) \/ Retries(r)
          \/ Handles(r) \/ RequestDies(r)
    \/ Restarts
    \/ \E e \in Execution : Executes(e) \/ ExecutionDies(e)

Spec == Init /\ [][Next]_vars

\* A request that has arrived is answered, and the queue calls the handler of
\* every job that it was given (JobQueue!EveryJobComesToRest).
FairSpec ==
    /\ Spec
    /\ \A r \in Request : WF_vars(Handles(r))
    /\ \A e \in Execution : WF_vars(Executes(e))

-----------------------------------------------------------------------------
\* An upload has saved its image and not yet the product.
Attached(r) ==
    /\ hand[r].op \in {"upload", "keyed_upload"}
    /\ At(r, "loaded") \/ At(r, "merging")

\* What status and review say is what was decided last, whatever images,
\* verdicts and index results are saved in between, as long as nobody saves over
\* what he has not seen.
DecisionStands ==
    ~stale =>
        CASE decision = "created" -> row.status = "draft" /\ row.review = "not_required"
          [] decision = "submitted" -> row.status = "submitted" /\ row.review = "pending"
          [] decision = "approved" -> Public
          [] decision = "rejected" -> row.status = "rejected" /\ row.review = "rejected"
          [] decision = "archived" -> row.status = "archived" /\ row.review = "not_required"

\* The public sees no image that nobody judged, unless images were attached to
\* a public product or while an agent looked at another, or an upload is not over.
\* A later verdict that does not match leaves the product public.
PublicIsJudged ==
    Public /\ ~stale /\ faults = 0 /\ (\A r \in Request : ~Attached(r)) =>
        \/ row.verdict.result # "not_checked" /\ row.verdict.image = primary
        \/ late

\* The limit of the tier is exceeded by no more than the uploads that can pass
\* the check together, and an idempotency key attaches one image, unless uploads
\* with it overlap, one dies after it saved its image, or the cache is lost.
UploadsGuarded ==
    /\ images <= ImageLimit + Cardinality(Request) - 1
    /\ keyed <= 1 \/ overlap \/ faults > 0

\* docs/superpowers/plans/2026-07-02-post-billing-testing-readiness-plan.md:320,
\* "Search indexing marks approved products `indexed`", or failed: no product
\* stays pending, unless a save overwrites what it has not seen, or its batch
\* was approved before.
PendingEnds ==
    Public /\ row.index = "pending" ~>
        ~Public \/ row.index # "pending" \/ stale \/ unsent \/ faults > 0
=============================================================================
