# FitFabrica: a formal model of the backend's workflow core

This directory holds TLA+ modules of the FitFabrica backend, the TLC configurations that
check them on small instances, and TLAPS proofs of what they satisfy for every instance.
File names below are relative to the repository's `src/` package unless they begin with
`docs/`.

Contents: [the system](#the-system), [the plan](#the-plan), [the modules](#the-modules),
[the runs](#the-runs), [the proofs](#the-proofs), [what is not modelled](#what-is-not-modelled).

## The system

FitFabrica is an asynchronous FastAPI service in front of image and text models. Clients
upload photos; *workflows* (try-on, product card, content package, pricing, search indexing)
run in the background and leave results, versions and charges behind. State lives in
PostgreSQL (SQLAlchemy, one session per repository method, READ COMMITTED, no row locks), in
a Redis list, in a vector index, and for the older conversational part in Firestore.
Nothing spans two of them, and few operations span two commits safely; what makes the system
hard is what happens between the commits.

| Component | State it keeps | Operations | Hard behaviour | What makes it correct |
|---|---|---|---|---|
| **Workflow queue and worker** (`use_cases/operations`, `services/workers`, `adapters/queue`, `worker.py`) | job rows, lease rows, the Redis list of ids | enqueue, publish, pop, reclaim, mark, lease, run, record | crash between row and list, slow execution taken for dead, racing workers | one delivery per key, truthful and final outcomes, bounded attempts, no job forgotten |
| **Billing ledger** (`use_cases/billing`) | account rows with a balance, event rows | charge, refund, adjust | unlocked read-modify-write of a shared account, retries under one key | one event per key, no negative balance, balance and events agree |
| **Try-On workflow** (`use_cases/try_on`, `entrypoints/try_on_routes.py`) | the job aggregate (row and ten child tables) | create, execute, continue, select wear controls, read | whole-aggregate saves by several writers, charge and completion in two transactions, retry and repair loop | coherent final outcome, charged iff delivered, bounded effort |
| **Product card, content package, pricing** (`use_cases/product_card`, `content_package`, `pricing`) | job, version, analysis and artifact rows, stored photos | create, execute, read | version, completion and charge in three commits; object keys made of file names; only the card has a failure path | completed jobs are paid, charged ones delivered, versions belong to their photos |
| **Business catalog and search index** (`use_cases/business_catalog`) | merchants, products, offers, images, imports, index status | owner edits, submit, review, bulk review, archive, index | whole-row saves of owner, administrator and indexer; check-then-act limits; check-then-act idempotency | the last decision stands, only reviewed content is public, the index follows the product |
| **Event processing** (`adapters/database/firestore/event_state_machine*.py`) | one document per inbound event | start, renew, mark step, complete, fail | leases, reclaims, retry of a failed event outside the transaction | one processor per event, steps once |
| **CRM binding** (`crm_binding_store.py`, `services/crm`) | one document per identity | claim, create contact, finalise | a claim expires while its owner creates the contact | one external contact per identity |
| **Source-context validation** (`use_cases/context_validation`) | candidates and confirmed facts | register, confirm, refine, reject | two decisions at once | a decision is final, a fact has a confirmed candidate |
| **Identity resolution** (`identity_core`) | channel identities, leads, bindings, audit | resolve | two first contacts at once | one active binding, no orphan lead |
| **Garment taxonomy review** (`use_cases/garment_taxonomy`) | catalog items, candidates, audit | approve, reject, merge, rename | three commits per review, reviews not re-checked | reviewed once, item and candidate agree |
| **Rate limiter** (`services/rate_limit`) | a sorted set per key | allow | counting and adding are two transactions | at most `max_events` per window |
| **Similar search, workspace, public requests, lead, dialog, inbound, timezone** | projections, single-row inserts, none | queries and transformations | none of their own | functional correctness |
| **Agent runtimes and providers** (`llm`, `adk_agents`, `runtime_agents`) | none | prompts and model calls | arbitrary answers, errors, delays | callers cope with every answer |
| **Application, settings, migrations, front-end** | configuration, schema | wiring | none modelled | - |

How they interact: a route persists a job of its workflow, calls `enqueue_workflow` with a
key made from the job id, and starts one `run_one_cycle` as a background task of the API
process; the worker process runs the same cycle in a loop. A cycle calls the handler of the
job's `workflow_type` (`entrypoints/runtime_dependency_operations_builders.py`), which is the
`execute` method of the workflow service; that method saves the workflow's own rows and calls
`charge_workflow` of the billing service. Routes read and change the same rows at the same
time. All persons share one credit account (`public-person`) and all businesses another
(`public-business`), so charges of unrelated users meet on one row.

The hazards found while reading are listed, each at its line, in `PROJECT.json`.

## The plan

In the order of importance; all of it is done except what the last item names.

1. `JobQueue` with its abstract specification `JobDelivery`, and proofs, including the
   refinement. Everything else runs on top of it.
2. `CreditLedger` with its abstract specification `AccountLedger`, and proofs.
3. `TryOnWorkflow`, composed with `JobDelivery` instead of `JobQueue`: the queue's promise
   is proved, so a workflow only has to be checked against the promise.
4. `VersionWorkflow`: product card, content package and pricing on `JobDelivery`, which differ
   in who pays, what is stored before the version, and what happens on failure.
5. `CatalogReview`: owner, administrators and indexer on one product row, the index jobs on
   `JobDelivery`.
6. `CandidateReview`: the three kinds of candidates people decide about, which differ in what
   a decision checks and in how it is saved.
7. `CatalogImport`: the merchant row that owner and administrator both save whole, and the
   products and import jobs that a CSV file leaves behind, commit by commit.
8. Proofs of every invariant the runs check, module by module, and of the action properties
   `OutcomeFinal`, `SettledForGood` and `ExhaustedForGood`; the refinement of `AccountLedger`.
9. Left: an abstract specification of what the workflows on `JobDelivery` have in common (a job
   is charged once and delivered), and the proof that `VersionWorkflow` implements it.

Event processing, CRM binding and identity resolution were candidates for modules; no
production code calls them at this commit (see [what is not modelled](#what-is-not-modelled)).

Properties of two components are composed where they interact: workflow modules INSTANCE
`JobDelivery` and keep from the ledger one bit, whether their key is booked, which
`BookedOnce` and the committed event of `CreditLedger` justify.

## The modules

| Module | What it is |
|---|---|
| `JobDelivery` | abstract: what the queue promises the handlers of its jobs |
| `JobQueue` | the queue, its dispatch and its workers, one action per repository call |
| `MCJobQueue` | values of its constants for TLC |
| `JobQueue_proofs` | theorems about `JobQueue` |
| `AccountLedger` | abstract: a ledger that books an event and changes the balance in one step |
| `CreditLedger` | `BillingService` over `SqlBillingRepository` |
| `MCCreditLedger` | calls, owners and key lengths for TLC |
| `CreditLedger_proofs` | theorems about `CreditLedger` |
| `TryOnWorkflow` | one try-on job: executions, routes, saves; INSTANCEs `JobDelivery` |
| `MCTryOnWorkflow` | values of its constants for TLC |
| `TryOnWorkflow_proofs` | theorems about `TryOnWorkflow` |
| `VersionWorkflow` | jobs of the product-card, content-package and pricing workflows; INSTANCEs `JobDelivery` |
| `MCVersionWorkflow` | jobs, file names and balances for TLC |
| `VersionWorkflow_proofs` | theorems about `VersionWorkflow` |
| `CatalogReview` | one catalog product, its reviewers and the indexer; INSTANCEs `JobDelivery` |
| `MCCatalogReview` | values of its constants for TLC |
| `CatalogReview_proofs` | theorems about `CatalogReview` |
| `CatalogImport` | the merchant of one owner, its products and the CSV import |
| `MCCatalogImport` | requests, files, limits and symmetry for TLC |
| `CatalogImport_proofs` | theorems about `CatalogImport` |
| `CandidateReview` | one taxonomy, source-context or marketplace candidate and its reviewers |
| `MCCandidateReview` | values of its constants and symmetry for TLC |
| `CandidateReview_proofs` | theorems about `CandidateReview` |

Three conventions hold in all of them.

*A repository method is one action or two.* Each opens a session, reads, and commits.
Where others may commit between the read and the write and the difference can be told, the
read and the commit are two actions; where a method only overwrites a status it is one.

*An UPDATE is what SQLAlchemy sends:* absolute values, and of the columns assigned only
those that differ from what was loaded (`Written`). Child rows and inserted rows are written
as they are.

*Mutants.* Definitions commented "Mutant" are deliberately wrong variants of the definition
that follows them. No specification uses them; they stand beside the code they vary so that
one can check that a property notices.

### JobQueue

State: the job row (`status`, `attempt`, and `stale` for an `updated_at` older than
`stale_reclaim_seconds`), the lease row's status, the Redis list `queue`; each call of
`enqueue_workflow` and of `run_one_cycle` as a process with a step (`dpc`, `wpc`), its job and
the columns its session has loaded. A job is identified with its idempotency key, which is
UNIQUE. The history variables `begun`, `done`, `reclaimed` and `faults` only record; no code
guard reads them, except `faults`, which bounds the faults.

- `LookupMissing`, `InsertJob`/`InsertConflict`, `PublishJob` are the three repository calls
  of `enqueue_workflow`. A lookup that finds the row returns it and changes nothing: it is
  the absence of a step.
- `ClaimNext` or `PollEmpty`, then `SelectStale`/`SelectNone`, `ReclaimJob`: how a cycle gets a
  job. `LoadJob`, `MarkProcessing`, `LoadLease`, `AcquireLease`/`LeaseConflict`: how it
  prepares. `HandlerReturns`/`HandlerRaises`, `MarkCompleted`/`MarkFailed`, `ReleaseLease`:
  how it ends. A job without a registered handler goes from the lease to `MarkFailed`.
- `DispatchFault` and `WorkerFault` end a call at any step: the process dies, or a repository
  call raises (nothing in `run_one_cycle` or in the loop of `worker.py` catches that; the
  container is restarted). An error text longer than the 255 characters of `last_error` is
  one of these raising calls.
- `Age` lets a row become stale, also while its worker is alive: a slow handler.

The lease is modelled as it is used: acquired over whoever holds it, released by whoever
finishes. Nothing reads it to decide, and `renew_lease` has no caller. The scan's order by
`updated_at` is not kept, so a scan may take any stale row. `queue_job_id` is made from the
clock in microseconds; that two inserts of different keys could get the same one is left out.

`JobDelivery` is what remains when queue, rows, leases and steps are hidden: jobs are
enqueued, their handler begins once, or again after somebody took the execution for dead,
also in parallel; and once a job is closed no handler is called again. The refinement maps
`known` to the rows that exist, `again` to the reclaimed jobs, `executing` to the workers in
a handler, and `closed` to the jobs that are `Settled`: their outcome recorded and
everybody who still holds them about to release the lease.

### CreditLedger

State: existing accounts, `balance` (`available_credits`), the `ledger` of events in commit
order; each call with its step, its request, and the balance its session has loaded. `Charge`,
`Refund` and `Adjustment` build the request and the idempotency key exactly of the parts the
service joins, so what two calls share or do not share a key is the code's doing: a free
retry has another key than the standard charge, a refund's key ignores the amount.
`EnsureAccount`, `CreateAccount`/`CreateConflict`, `FindBooked`/`FindUnbooked`,
`LoadAccount`/`RefuseNegative`, `CommitEvent`/`CommitFails` are the steps of
`ensure_account` and `append_ledger_event`; the UPDATE of the account and the INSERT of the
event commit together. `EventIdLength` is a parameter: `event_id` contains the whole key and
has 64 characters. Two keys of different parts that join to the same text (parts that contain
colons) are not distinguished from different keys. Of the three operations only charges have
callers at this commit. `_get_or_create_account_row` never creates here, because the service
has ensured the account before; its creation branch is left out.

`AccountLedger` books an event and changes the balance in one step. `CreditLedger` implements it until two
calls stand between the load and the commit of one account (`apart`, a history variable), whatever
aborts and whatever calls of other accounts do; afterwards it does not (see the runs).

### TryOnWorkflow

State: the persisted aggregate `record` with the fields the properties tell apart (status,
whether analyses are stored, the selected wear controls, the controls the instruction was
made for, the controls the result was generated with, whether there is an error); `charged`,
whether the ledger has booked the job's key; the queue jobs "start" and "generate" with their
mode; and for every writer (executions, and clients in the middle of a PUT) the aggregate it
has in hand.

- `EnqueueStart`, `Admit`, `EnqueueGenerate`: the two POST routes. `Admit` is the status check
  of the generate route, `EnqueueGenerate` the enqueue that follows it.
- `PutLoads`, `PutResolves` or `PutRefused`, `Commit`: the wear-controls route.
- `Begin` (the queue calls the handler, which loads the aggregate) up to `Returns` or `Dies`:
  `execute_job`, one action per stage. A stage ends in a save. What the agents answer is
  chosen freely among what they can answer: an analysis passes or blocks, an instruction is
  made or fails, a generation fails or gets any decision of the quality policy, the same for
  a repair.
- `Save` and `Commit` are the two halves of `repository.save`. `get` reads eleven tables one
  after the other and is modelled as one read. A save that changes no column sends no UPDATE
  and so does not wait for another writer's row lock; that its child rows could then
  interleave with the other's is left out.
- The queue is `Queue == INSTANCE JobDelivery` with the two jobs; its actions `Enqueue`,
  `Begin`, `End`, `Suspect`, `Close` are conjuncts of the actions here. `Redelivery = FALSE`
  forbids `Suspect`: no execution outlives the reclaim time and none dies unnoticed.

Billing is assumed configured, and a charge the ledger refuses raises, which is `Dies`. The
charge may already be booked by an earlier execution; then it succeeds without effect.

`fresh` and `stale` are history: a writer is fresh while nobody else has saved since it
loaded; `stale` becomes TRUE for good when one that is not fresh commits. They let a
property say "as long as nobody saved over what he had not seen", which separates what the
workflow guarantees from what its whole-aggregate saves destroy.

### VersionWorkflow

The three `workflow_service.py` have one shape, and the module has the kind of a job as a
variable. State: per job how far its POST has come (`post`), the status of its row, the saved
analysis, whose artifacts are stored and which call's version is saved; for all jobs the
photos under their object keys, the balances of the two owners, which charges are booked.

- `Admits`, `Uploads`, `Creates`, `Enqueues` are the POST. Only the product card compares the
  balance with the price first, and only it uploads; packages and prices start at `Creates`.
  A request may stop after each step. `Uploads` overwrites whatever is stored under keys made
  of the same file names (`ProductCardObjectStorage.store_many`).
- `Begin`, then `Analyzes` and `SavesAnalysis` (card), `Stores` (package), `Inserts`: what a call
  generates is identified with the call. The version's key is made of the job's id, so the
  insert of a second call raises outside the `try`: it ends the call. `Raises` is an agent,
  the storage or the source of comparables failing: the card marks its job failed and
  raises, the others just raise.
- `LoadsRow`, `Marks`: `mark_completed` and `mark_failed`; neither looks at the status it
  replaces. `LoadsAccount`, `Books`: what `CreditLedger` does in more steps, for a ledger key
  that is the job's own. The lost updates of two bookings are therefore in this module too.
- `Dies` ends a call at any step: the process dies, or a commit or the ledger raises. On
  PostgreSQL every charge of these workflows is such a case, because its `event_id` does not fit
  its column (`CreditLedger_eventid`).

Jobs are pairwise different in their ids, which `create_job` makes of the clock in
microseconds.

### CatalogReview

State: the persisted `row` with status, review, verdict of the category validation, index
status and `updated_at` (a number handed out by `clock`); the number of images and which
one is primary; whether the idempotency store has a result; for every request the product it
loaded, changed, and is about to save; for every execution of the index handler its step.

- `Uploads` (cache, product and image count), `Stores` (the file, then the product is
  loaded), `Attaches` (the image row), and the save: the image upload. `Submits`, `Judges`,
  `Approves`, `Rejects`, `Archives`, `Retries` load the product and check what the service checks;
  `Validates` and `Analyzed` are the two ends of the agent's analysis, `Lists` and
  `ApprovesListed` of a batch approval.
- `Merges` and `Commits` are `save_product`: `session.merge` loads the row again and sends the
  columns that differ from it. `Enqueues` follows an approval or a retry, under the key
  `KeyOf` computes; a key that exists is not enqueued again, whatever became of its job.
- `Reads`, `Marks`, `MarksMissing`, `Returns`: `index_product_ids`. It updates index status and
  `updated_at` of the product whatever it has become by then.
- `Stops` is storage or agent refusing, `RequestDies` and `ExecutionDies` end anything
  anywhere, `Restarts` loses the results of the in-memory idempotency store.

`fresh` and `stale` are the history variables of `TryOnWorkflow`, here about `row`. The verdicts
"mismatch" and "uncertain" have the same effect and are one ("other"). The batch validation is
`Validates` for each product, and a batch has one product here.

### CatalogImport

State: the persisted `merchant` (whether it exists, the request that made its profile, its
tier, and the request that assigned it); the persisted `products`, the `offers` of them, the
import `jobs` and whose row errors are `reported`; the result `cached` under the one
idempotency key; per request its step, what it has in hand, and the import it got as an
`answer`. A request's identity stands for whatever is new about it: a profile, an assignment,
product and import ids. A file is the sequence of what becomes of its rows, so that the
parser is `Accepted` and `Errors`: a "bad" row has one error, a "worse" one two, and
`rejected_rows` counts errors, not rows. Two kinds of rows pass the parser and are refused
later: a title above 255 characters ("long") by `CreateProductRequest`, before its product is
saved, and a price above `Numeric(12, 2)` ("dear") by the offer's column, after. What makes the
parser itself raise (a URL or a price it does not expect) is "broken".

- `SavesProfile` and `AssignsTier` load the merchant and build the one they save. The first
  takes over id, status and `created_at` of the row it found, and nothing about the tier.
  `Inserts`, or `Merges` and `Commits`, are `save_merchant`.
- `Creates` is the POST of one product, `Imports` that of a file: the lookup in the idempotency
  store. `Admits` asks for the profile, the tier's row limit and the parser. `SavesProduct` and
  `SavesOffer` are the two commits of each row, `SavesJob`, `SavesErrors` those of the import.
  `ErrorsRefused` is the second one raising, which `MarksFailed` handles. `Answers` keeps the
  result under the key.
- `Dies` is the request's end at any step, `Restarts` the process's, which forgets the results.

Of the limits the size in bytes is left out; it is asked where the row limit is.
`profile`, `assigned`, `fresh`, `stale`, `mixed`, `overlap` and `lost` are history: who saved the profile
last, which assignment was saved last with no profile save after it, whether some save overwrote what its request had not seen, whether one wrote its columns
into another row than it compared them with, whether imports with the key overlapped,
whether results were forgotten.

### CandidateReview

State: the `candidate` (status, the code or fact it refers to, reason and reviewer), confirmed
`facts`, the `catalog` of garment types, the `audit` log as the set of its entries; per reviewer
the decision and the candidate it loaded.

- `LooksUp` and `Registers`: a source-context candidate is looked up by correlation id and
  saved. `Loads` starts a decision; `CanBeDecided` is the status check, which only the
  source-context use case has.
- `SavesContext` saves candidate and fact together. The repository is a port without an
  implementation in production; its method is called `save_candidate_with_confirmed_fact`
  and the module takes it at its word.
- `EntersCatalog` (`upsert_item`), `LoadsRow` and `Updates` (`update_candidate`), `Audits`: the commits
  of a taxonomy decision. A marketplace decision has `Updates` only, on the row it loaded. As
  everywhere, only columns that differ from the row loaded are sent.

## The runs

| Run | Question | Instance |
|---|---|---|
| `JobQueue_safety` | Are deliveries, attempts and outcomes consistent, and is `JobDelivery` implemented? | 2 jobs (one without handler), 2 workers, 2 callers, 3 attempts, 2 faults; 1.3 million states |
| `JobQueue_live` | Does every enqueued job end, and where? | 2 jobs, 2 workers, 1 caller, 2 attempts, 1 fault |
| `JobQueue_unpublished` | Is a persisted job always published and taken? **No.** | 1 job, 1 worker, 1 caller, 1 fault |
| `CreditLedger_concurrent` | Do concurrent calls keep keys unique, balances non-negative, account and events in agreement, and implement the atomic ledger until two hold one account? | 2 owners, 7 requests, 2 concurrent calls, aborts anywhere; 3.2 million states |
| `CreditLedger_eventid` | Is an affordable charge booked? **No**, at real key lengths. | 1 owner, 1 call at a time |
| `TryOnWorkflow_delivered` | With each job delivered once, is the outcome coherent, final and paid for, with bounded effort? | 2 executions, 1 client, every mode, repair configured, 1 fault |
| `TryOnWorkflow_redelivered` | What survives redelivery? | 2 executions, modes the web client uses, no repair, 1 fault; 2.9 million states |
| `VersionWorkflow` | Are versions delivered, paid for and made of the right photos, is every job answered? | 2 jobs (two cards, or a package and a price), 2 executions, 2 calls per job, 1 fault; 0.3 million states |
| `CatalogReview` | Does the last decision stand, and do images, verdicts, keys and index follow? | 3 requests, 2 at a time, 1 indexer, 2 images, 1 fault; 1.3 million states |
| `CatalogImport` | Does the merchant fit its saves, does an import job tell the truth, does a key import once? | 3 requests, 7 files of 1 to 3 rows, 2 faults; 1.7 million states |
| `CatalogImport_demotion` | Does a change of the tier name an administrator? **No.** | 2 requests, no fault |
| `CandidateReview` | Do decisions leave a consistent record? | 3 reviewers, 4 decisions, every kind, 1 fault; 3.2 million states |

### What they show

*Queue.* An id is published only after its row is committed (`ClaimedIsPersisted`), once
(`SingleDelivery`). Until a scan takes the job for dead one worker has it and its row and
lease say so (`ExclusiveExecution`): reclaim is the only thing that breaks mutual
exclusion, and it does, because the lease keeps nobody out. Outcomes are truthful and final
(`OutcomeTruthful`, `OutcomeSettles`, `SettledForGood`); once the attempts
are used up and no worker is on its way to one more, the job is never taken again
(`ExhaustedForGood`). That is all `max_attempts` gives. Workers that select a row together
overshoot it by one attempt each; and since a mark writes the count it loaded plus one, a worker
that loaded long ago takes the count back below the limit, which opens the scan again. With
three workers, three attempts and six faults TLC takes the count to 6, by which time the row was
marked more than six times: the count is not even below the limit plus the workers. Every job ends settled unless a fault
left it `Lost` (queued, and in no list) or `Spent` (processing, with no attempts left):
`EveryJobComesToRest`. Nothing recovers these two. The first refutes the docstring of
`enqueue_workflow` (`JobQueue_unpublished`): the retry of a caller returns the row and does
not publish. A reclaim selects a processing row and later writes "queued" over whatever the row
has become, so that a job completed in between is queued and executed again. `SettledForGood` holds all the same, because a job that somebody is about to reclaim
is not yet settled; nor does the first outcome of a reclaimed job settle it.

*Ledger.* `BookedOnce`, `NeverNegative` and `BalanceIsLastAfter` hold under every interleaving:
a lost update changes no balance to a negative one, because what is written was checked, and
account and last event always agree. What is lost is the history: when two calls overlap, the
balance need not be the sum of the events, because both add to the balance they loaded.
Until two calls hold the balance of one account it is: every step is one of the atomic ledger or none, aborts
and overlapping calls of other accounts included (`ImplementsAccountLedger`, whose history variable
`apart` says whether two have). `CreditLedger_eventid`: "billing_evt_" and the key
of a try-on charge have 98 characters, the column 64; PostgreSQL refuses the INSERT.
`BILLING_CORE_ENABLED` is off in the checked-in environments, which hides both.

*Try-on.* With each queue job delivered once, executions do not overlap (`OneExecution`), a job
that nobody works on is decided (`QuietIsDecided`), a completed job shows the image made for
the controls it lists and a failed one its error (`OutcomeCoherent`), outcomes are final
(`OutcomeFinal`), the retry and repair loop is bounded (`EffortBounded`, the `"Auto-retry is
limited to one additional generation attempt"` of docs/01_ACTION_LOG_CHECKLIST.md:714), and a charge is followed by its result (`ChargedIsDelivered`). Under
redelivery a completed job still is a charged one (`CompletedIsCharged`). What does not hold is
part of the model and excluded by the conditions of these properties:

- A redelivered execution starts over from a completed job, and may fail it with the charge
  kept, which `"Failed/blocked cases charge `0` credits."`
  (docs/superpowers/plans/2026-07-02-post-billing-testing-readiness-plan.md:265) does not foresee.
- A PUT that passed its status check may be saved when the job is over: status and child
  rows are those of before, the result is gone, and a new generate request finds its key
  used. The docstring of the route (`try_on_routes.py:303`) puts the selection "before
  generation". Since the status column is sent only when it differs from the row loaded
  last, the same save can also leave status "completed" without a result, for which
  `GET /result` answers 202 for ever. In the same way a selection that was persisted is
  overwritten by an execution that loaded the job before it.

*Versions.* What is charged has a version, and its job is completed (`ChargedIsDelivered`); the
exception the property states is a redelivered card whose second call fails, which marks the
completed and charged job failed, although agents' failures `do not charge completion credits`
(docs/current_system_full_documentation.md:206). What is completed is paid (`CompletedIsPaid`), unless a
fault came between the two commits or the owner could no longer pay, for a card because
another card of the shared account was charged since it was admitted; a package and a price
never ask. A version shows the photos of its own POST unless another POST used the same file
names (`ShowsItsOwn`). Every begun job gets an
outcome, except packages and prices whose sources fail, which stay accepted for ever
(`Answered`). A call that died after it inserted its version leaves a job that no later call
can complete, because their insert raises.

*Catalog.* As long as no save overwrites what its request has not seen, status and review are
what was decided last (`DecisionStands`). Otherwise they are not: a submission saved late
takes a rejection back, an upload saved late an archiving, and both can do it to a part of
the columns. The public sees judged images only (`PublicIsJudged`), unless an image comes to
a public product, which nothing hides, or during an analysis, whose verdict is then recorded
for the product as it is. A verdict that no longer matches leaves the product public. docs/01_ACTION_LOG_CHECKLIST.md
says more than that. Line 1011, `mismatched or uncertain visual category cannot enter approved or search
indexing`: an approval that found a match can be saved over a verdict of mismatch, writes the columns it
changed, and leaves the verdict on an approved product. Line 1013, by which approval stays locked until
the primary image is matched: the match that unlocks it may be that of the image before. The image limit is overshot by no more than the uploads that check it together, and a key
attaches one image unless its uploads overlap, one dies or the API restarts
(`UploadsGuarded`). A product waiting to be indexed is indexed or marked failed (`PendingEnds`); left pending it may
be by a stale save, a crash, or a batch approval whose key, made of the product ids alone,
was used before. Line 1017 of the same document lets a batch approval enqueue a job for the
products it approved; the second approval of one product does not.

*Imports.* The merchant is what was saved to it last (`MerchantFits`). The tier, and the administrator
it names, are those of the last save that touched them: an assignment sets both, a profile save takes
both away, and the next one does not bring them back. `assigned` remembers this from the saves and not
from the row. Only when a save was compared with one row and written into another (`mixed`) can
tier and administrator come from two of them. The profile is the one saved last unless a save was
stale. Even so a merchant is large only after an assignment of the large tier was saved, and no file
above the standard limit comes in before. That a profile save takes the tier away is what the
code does, not what it should: docs/superpowers/plans/2026-06-28-b2b-product-catalog-implementation-plan.md:663
asks for `no automatic promotion/demotion without admin actor id and audit-ready reason`, and in
`CatalogImport_demotion` (`TierNeedsAdministrator`) a merchant that corrects its city is "standard" again and
names nobody.

An import job that exists is truthful: what it accepted is in the catalog with its offers, and it
counts errors that cannot be read only while it says that it failed (`ImportIsTold`), or if its
request died between the two commits. But an import whose row raises (a long title, a dear price) or
whose request dies has no job at all, and leaves the rows before it, the last perhaps without an
offer. The same plan wants such a job `failed or completed_with_errors with explicit reason` (line
712). Results are kept for imports that returned, in
memory: a key does not import twice (`OncePerKey`) unless its imports overlap, one was broken off, or
the API restarted; in these cases a retry adds all rows again, where line 714 asks for `no duplicate
products on retry`.

*Candidates.* A confirmed source-context candidate has its fact; without stale saves, only that
fact, and no other candidate has one (`RecordFits`). With them, a rejection can replace a
confirmation whose fact stays, and a second registration can reset a decided candidate. Taxonomy
and marketplace decisions check no status: the last one wins, and stale ones mix columns, as a
rejection's reason with an approval. As long as that does not happen an approved type is in
the catalog, and the audit log leads from the proposal to the candidate (`AuditTells`); a
crash between the commits leaves a type without a decision or a decision without an entry. The
latter is not the approval `with audit` of the docstring at `use_cases/garment_taxonomy/service.py:156`.

### Bounds

Two workers and two callers are the least that race. For the safety properties the proofs say
that a third adds nothing; it need not be so, as the bound on attempts that only three workers
break has shown (see [the proofs](#the-proofs)). `MaxAttempts` 2 or 3 lets a job be reclaimed, overshoot and run out. One or two faults put a
crash at every step, and a second one into the recovery. `faults` guards the fault actions
and nothing else. In the ledger the requests contain an amount that two charges need and
only one can have, the retry of one key, a free retry and two refunds under one key; every
request may be submitted again and again. In the try-on module two executions are all there
can be without redelivery, and the least that overlap with it. `MaxRetries` is the constant
of the code. No counter is cut off by a constraint: in these instances attempts are bounded by the scan,
generations by the loop, the queue by `SingleDelivery`, the ledger by `BookedOnce`.

`CHECK_DEADLOCK FALSE` is set for the try-on runs: once both queue jobs are closed and the
status is no longer "analysis_ready", nothing about a job can happen any more. It is set for
the four modules after it for the same reason: requests and calls are bounded in number.

Two version jobs are the least that share an account or a file name, and the balances pay
one card, or one package or two prices. `MaxCalls` 2 lets a job be redelivered once.
Three catalog requests, two of them at once, from a new or a submitted product: a decision, one
that overlaps it and one after; an image limit of 2 leaves room for two uploads from one image
or from none. `Stamp` is as large as the requests and index results can make it. Three requests let a
profile save, an assignment and an import meet, or an import be retried twice; the files have
every kind of row, among them each outcome of an import and one row more than the standard
limit, which is 2 here and 1000 in the code. Two faults are a refused commit or a death, and a
restart. Three
reviewers and four decisions let one reviewer decide on what two others left.

Symmetry (workers, callers, executions, clients) is used in runs of safety properties only. The runs
that answer "No" are the smallest instances in which it happens.

### Fairness

`JobQueue`: a call in progress goes on, a worker polls again (`worker.py` loops and its container
is restarted), handlers return or raise, time passes (`Age`). Nobody has to enqueue and
nothing has to fail. Weak fairness is enough, because a step of a call stays enabled until
it is taken. `CreditLedger` (`CreditLedger_eventid` only): a call in progress runs to its end.
`TryOnWorkflow`: agents, storage and ledger answer, so a step of an execution in progress
is taken. No fairness for clients, for the queue or for `Dies`. `VersionWorkflow`: the same; its
`Answered` starts from a job that was begun. `CatalogReview`: a request that arrived is
answered, and the queue calls the handler of a job it was given, which is
`EveryJobComesToRest` of `JobQueue`; requests need not arrive. `CatalogImport` and
`CandidateReview` have no liveness property and no fairness: a request that stops is an
outcome their properties speak about.

## The proofs

`tlapm` checks the seven proof modules. Each rests on the one assumption named in the module it is
about, and on nothing else:

| Assumption | What it asks, and why the code justifies it |
|---|---|
| `JobQueueAssumption` | `Handled` contains jobs, `NoJob` is not one, at least one attempt (`max_attempts` is `ge=1`) |
| `CreditLedgerAssumption` | requests have an owner and an integer amount |
| `TryOnAssumption` | clients, executions and `Absent` are different things; the modes are those the two routes accept |
| `VersionAssumption` | every case asked has a kind and a file name per job; balances are natural numbers |
| `CatalogAssumption` | finitely many requests, at least one; an image limit of at least one |
| `ImportAssumption` | `Nobody` is not a request; files are finite sequences of rows |
| `CandidateAssumption` | the kinds are the three there are; proposed and known code differ |

The other sets and bounds are arbitrary, infinite ones included: any number of jobs, workers,
callers, executions, clients, reviewers, calls, rows of a file, retries and faults. Only
`CatalogReview` needs finitely many requests, because two of its properties count them.

All proofs have the same form. An inductive invariant is the type invariant, plus what a process
at each of its steps knows (of the row it loaded, of what it has in hand), plus the property. It is
checked by TLC on the run's instance, then proved: one step per action, and lemmas for what
many actions have in common, mostly "whoever is not taking the step stays where he is" and "a
save writes these columns". Modules with `fresh` and `stale` have one idea more: what a *fresh*
process knows is true of the persisted row, because nobody has saved since it loaded; and a save
of one that is not fresh sets `stale`, under which nothing is claimed.

**JobQueue.** The inductive invariant `IInv` is the conjunction of `TypeInv`, `Delivery` and
`Execution`. `TypeInv` adds to `TypeOK` which steps have a job and which columns a session has
loaded. `Delivery` is `ClaimedIsPersisted` and `SingleDelivery` strengthened by what makes them
inductive: a call that is about to insert has its key, and an id in the list or about to
be published has no holder and a queued row. `Execution` says, per step of a worker, what its
job's row and lease are as long as the job was not reclaimed, and what has been begun and
done. Each action is one step of the proof, and the parts of the invariant it cannot disturb
are discharged by a lemma. From it follow `AlwaysPersisted`, `DeliveredOnce`, `ExecutedByOne`,
`OutcomesTrue`, `OutcomesSettle` and, as an action property, `SettledStays`.
`ExhaustedStays` needs `FirstAttempt`: an id still in the list has had no attempt, so that neither the
list nor the scan offers an exhausted job. It stands in the place of an invariant that was
checked before, that attempts stay below `max_attempts` plus the number of workers. Its proof
failed at `MarkProcessing`, for a good reason: it is true for two workers, the instance of the run,
and false for three.
`KeepsDelivery` is the refinement: initial states map to initial states, and every step maps
to the step of `JobDelivery` named by the lemmas `MapsToEnqueue`, `MapsToBegin`, `MapsToEnd`,
`MapsToSuspect`, `MapsToClose`, or to a stutter. It needs one fact more (`FirstCall`): a worker
on its way to the handler of a job that was not reclaimed is the first to call it.

**CreditLedger.** `TypeCorrect` first. `IInv` joins `BookedOnce`, `NeverNegative`,
`BalanceIsLastAfter`, and that the balance a call is about to write was checked to be
non-negative, which is why unlocked overwrites cannot make a balance negative.
`RefinesApart` is the refinement of `AccountLedger` and says exactly what the missing row lock
costs: steps are followed until two calls have loaded one account and neither has committed.
Until then (`ApartInv`) a call overwrites the balance it loaded (`Fresh`), so that a commit
is `Book` (`CommitBooks`) and every other step a stutter; `CreateAccount` is one because an owner
without an account has no credits (`NoAccountNoCredits`). A lock on the row from load to commit
would keep `apart` true for ever.

**TryOnWorkflow.** `TypeInv` adds to `TypeOK` which writers can be at which step and that a handler is
called for a job that was enqueued. `EffortsBounded` follows from `EffortInv`, which tells apart who has
generated since its last retry; `CompletedCharged` from `ChargeInv`: nobody has a completed job in
hand, loaded or about to be saved, that is not charged. `OneAtATime` needs `FlowInv`: until the first
execution makes its last save, the job is `NotReady`, so no route can have enqueued the second.
`OutcomesCohere` needs `OutcomeInv`: what fresh writers have in hand is coherent, and a save finds the columns it
had loaded. `OutcomesStay`, an action property, joins both in `FinalInv`: while the job is known to
somebody fresh, it has no outcome yet. `QuietDecided` needs `QuietInv`: whoever saves for the last time
saves something decided. That one was stated for jobs that are not redelivered; the proof never used it,
and the condition is gone from the property.

**VersionWorkflow.** `ChargeInv` has three parts beside the type: what the queue and the POST leave of a job
that is called (`Called`); that a job not taken for dead is called once and, until its only call gets there, has
no version, outcome or charge (`OnceCalled`); and what an execution past its agents knows
(`Closed`). From it `ChargesDelivered`. `CompletedPaid` adds that an admitted card can be paid until another charge of
the same account. `VersionsShowTheirOwn` adds that photos stored under an unshared name stay those of
the card from upload to version, and that analysis and artifacts are those of the call at work.

**CatalogReview.** The type invariant is the hard part: `updated_at` is a number handed out by a clock, and
that it stays in `Stamp` needs `Counts`, in which every request still to save (`Owing`) and every index job
still to be marked (`Outstanding`) owes at most one stamp, two per request in all. The proof found the
type of images too small for some constants: the first image is there before any request, so
`Image` reaches to `MaxRequests + 1`. `Counts` also gives the first half of `UploadsAreGuarded` (the uploads past their
check, `Storing`, are counted in the images to be), `KeyInv` the second: one keyed upload at a time, which
finds no image attached under the key. `DecisionsStand`: a fresh request saves what its operation decides
over the row it loaded. `PublicJudged` adds what it knows of images: a verdict is about the primary
image, or an upload whose image is attached is about to take it back (`Depicts`).

**CatalogImport.** `Shape` is what the step of a request says of it. `ImportsTold` follows from `Told`, which
relates the rows left of a file to the products and offers persisted so far, for files of any length;
`MerchantsFit` from `MerchantInv`: an assignment in hand names its own request and a profile save nobody, so
that a save that is not `mixed` leaves tier and administrator as `assigned` says; and a tier found large, by a
save that loaded it or by a file above the standard limit, was assigned and saved before; `KeysImportOnce` from `KeyInv`: one import at a time
is past the cache, and everybody before it cached a result, failed or died.

**CandidateReview.** `RecordsFit` needs what reviewers have loaded: candidates of their kind, and for fresh ones the
candidate as it is. `AuditsTell` needs two sets that are closed under what reviewers do next: `Told`, the
candidates the log knows or is about to know, and `CodesTold`, the codes. Everything in hand or in the
catalog is among them, as long as nobody dies or saves a stale row.

Only model-checked: the liveness properties (`EveryJobComesToRest`, `ChargedIsDelivered` of
`TryOnWorkflow`, `Answered`, `PendingEnds`), because progress under fairness is out of the prover's
reach. What `Min` of a set
of rows returns is proved by well-founded induction on the library's theorem about natural
numbers; no other operator here is recursive.

## What is not modelled

- Event processing (`event_state_machine*.py`), CRM binding (`crm_binding_store.py`) and identity
  resolution (`identity_core`): nothing in `src/` outside their own packages calls them at this
  commit, so neither the order of their operations nor what callers do with their answers is
  fixed. Of the identity package only the audit recorder is built.
- Of the catalog, `update_product` and `archive_product`, which no route calls, and the
  recommendation of tiers, which only reads.
- The capture of an unknown garment as a taxonomy candidate: one insert under a new id.
- The similar search: it retrieves and ranks within one request. Nothing in production calls
  the methods that would create marketplace candidates.
- The rate limiter: no production code calls it at this commit.
- `renew_lease`, `EXPIRED` leases and health counters: nothing that changes state calls them.
- The in-memory repositories and queue: for tests and local use, without concurrency
  between processes.
- Try-on uploads, their validation and storage, `status_history`, `cost_events` and the
  contents of analyses, instructions and images: data no property here tells apart.
- Model providers and agents: their answers are nondeterministic choices.
- Workspace views, public requests, lead and dialog processing, time zones:
  no concurrent state of their own.
- Settings and wiring, migrations, scripts, deployment and the web front-end.
