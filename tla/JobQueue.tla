------------------------------ MODULE JobQueue ------------------------------
(***************************************************************************)
(* The durable workflow queue: WorkflowDispatchService persists a job row  *)
(* and publishes its id, WorkerRuntime pops ids, runs the handler of the   *)
(* job and records the outcome, and reclaims rows that stayed too long in  *)
(* "processing".  The row lives in PostgreSQL, the id in a Redis list, and *)
(* nothing ties the two together.                                          *)
(*                                                                         *)
(* Every repository method opens its own session, SELECTs a row, changes   *)
(* attributes and commits an UPDATE by primary key (READ COMMITTED, no row *)
(* lock).  A method whose read matters is therefore two actions, the read  *)
(* and the commit.  An UPDATE writes absolute values, and only the columns *)
(* that differ from the loaded ones (Written).  A method whose split       *)
(* cannot be told from one step (it only sets a status) is one action.     *)
(*                                                                         *)
(* A job is identified with its idempotency key: the key is UNIQUE.  Time  *)
(* is abstracted to the set stale of rows whose updated_at is older than   *)
(* stale_reclaim_seconds.  The rows' order by updated_at is not kept: a    *)
(* scan may pick any stale row.                                            *)
(***************************************************************************)
EXTENDS Integers, Sequences, FiniteSets

CONSTANTS
    Job,          \* idempotency keys callers enqueue under, one job row each
    Worker,       \* concurrent run_one_cycle calls: worker process, API tasks
    Dispatcher,   \* concurrent enqueue_workflow calls
    Handled,      \* jobs whose workflow_type has a registered handler
    MaxAttempts,  \* max_attempts of every job
    MaxFaults,    \* bound on crashes and failing writes in a behaviour
    NoJob         \* the job of a worker or dispatcher that has none

ASSUME JobQueueAssumption ==
    /\ Handled \subseteq Job
    /\ NoJob \notin Job
    /\ MaxAttempts \in Nat \ {0}
    /\ MaxFaults \in Nat

VARIABLES
    status,      \* job row: status, "none" before the INSERT
    attempt,     \* job row: attempt_count
    stale,       \* rows whose updated_at is old enough to reclaim
    lease,       \* lease row: status, "none" before the INSERT
    queue,       \* the Redis list of job ids
    dpc, djob,   \* enqueue_workflow calls: next step, key
    wpc, wjob,   \* run_one_cycle calls: next step, claimed job
    loaded,      \* column values a worker's open session has loaded
    begun,       \* history: jobs whose handler has been called
    done,        \* history: jobs whose handler has returned normally
    reclaimed,   \* history: jobs some scan has selected as stale
    faults       \* history: faults so far

rows == <<status, attempt, stale, lease>>
dispatch == <<dpc, djob>>
workers == <<wpc, wjob, loaded>>
history == <<begun, done, reclaimed>>
vars == <<rows, queue, dispatch, workers, history, faults>>

Status == {"none", "queued", "processing", "completed", "failed"}
Terminal == {"completed", "failed"}
LeaseStatus == {"none", "active", "released"}
DispatchStep == {"idle", "inserting", "publishing"}
\* Steps before the row is marked processing, while the job is executed, and
\* after the outcome is recorded.
BeforeMark == {"found", "marking"}
Executing == {"marked", "leasing", "running", "completing", "failing", "unhandled"}
WorkerStep == {"idle", "scanning", "reclaiming", "releasing"} \cup BeforeMark \cup Executing

Loaded == [status : Status, attempt : Nat, lease : LeaseStatus]
NothingLoaded == [status |-> "none", attempt |-> 0, lease |-> "none"]

TypeOK ==
    /\ status \in [Job -> Status]
    /\ attempt \in [Job -> Nat]
    /\ stale \in SUBSET Job
    /\ lease \in [Job -> LeaseStatus]
    /\ queue \in Seq(Job)
    /\ dpc \in [Dispatcher -> DispatchStep]
    /\ djob \in [Dispatcher -> Job \cup {NoJob}]
    /\ wpc \in [Worker -> WorkerStep]
    /\ wjob \in [Worker -> Job \cup {NoJob}]
    /\ loaded \in [Worker -> Loaded]
    /\ begun \in SUBSET Job
    /\ done \in SUBSET Job
    /\ reclaimed \in SUBSET Job
    /\ faults \in 0..MaxFaults

Init ==
    /\ status = [j \in Job |-> "none"]
    /\ attempt = [j \in Job |-> 0]
    /\ stale = {}
    /\ lease = [j \in Job |-> "none"]
    /\ queue = <<>>
    /\ dpc = [d \in Dispatcher |-> "idle"]
    /\ djob = [d \in Dispatcher |-> NoJob]
    /\ wpc = [w \in Worker |-> "idle"]
    /\ wjob = [w \in Worker |-> NoJob]
    /\ loaded = [w \in Worker |-> NothingLoaded]
    /\ begun = {}
    /\ done = {}
    /\ reclaimed = {}
    /\ faults = 0

\* The value an UPDATE leaves in a column: SQLAlchemy sends the column only
\* when the value set differs from the one loaded.
Written(current, old, new) == IF new = old THEN current ELSE new

-----------------------------------------------------------------------------
(* enqueue_workflow *)

\* Mutant: the id is published before the row is committed.
PublishFirst(d, j) ==
    /\ dpc[d] = "idle"
    /\ status[j] = "none"
    /\ queue' = Append(queue, j)
    /\ dpc' = [dpc EXCEPT ![d] = "inserting"]
    /\ djob' = [djob EXCEPT ![d] = j]
    /\ UNCHANGED <<rows, workers, history, faults>>

\* The key has no row yet: go on to the INSERT.
LookupMissing(d, j) ==
    /\ dpc[d] = "idle"
    /\ status[j] = "none"
    /\ dpc' = [dpc EXCEPT ![d] = "inserting"]
    /\ djob' = [djob EXCEPT ![d] = j]
    /\ UNCHANGED <<rows, queue, workers, history, faults>>

DispatchEnds(d) ==
    /\ dpc' = [dpc EXCEPT ![d] = "idle"]
    /\ djob' = [djob EXCEPT ![d] = NoJob]

\* Mutant: idempotency_key is not UNIQUE.
InsertDuplicate(d) ==
    /\ dpc[d] = "inserting"
    /\ status' = [status EXCEPT ![djob[d]] = "queued"]
    /\ dpc' = [dpc EXCEPT ![d] = "publishing"]
    /\ UNCHANGED <<attempt, stale, lease, queue, djob, workers, history, faults>>

\* Mutant: the call no longer knows its job when it publishes.
InsertForgetsJob(d) ==
    /\ dpc[d] = "inserting"
    /\ status[djob[d]] = "none"
    /\ status' = [status EXCEPT ![djob[d]] = "queued"]
    /\ dpc' = [dpc EXCEPT ![d] = "publishing"]
    /\ djob' = [djob EXCEPT ![d] = NoJob]
    /\ UNCHANGED <<attempt, stale, lease, queue, workers, history, faults>>

\* INSERT of the queued row.
InsertJob(d) ==
    /\ dpc[d] = "inserting"
    /\ status[djob[d]] = "none"
    /\ status' = [status EXCEPT ![djob[d]] = "queued"]
    /\ dpc' = [dpc EXCEPT ![d] = "publishing"]
    /\ UNCHANGED <<attempt, stale, lease, queue, djob, workers, history, faults>>

\* Another call inserted the key since the lookup: IntegrityError to the caller.
InsertConflict(d) ==
    /\ dpc[d] = "inserting"
    /\ status[djob[d]] # "none"
    /\ DispatchEnds(d)
    /\ UNCHANGED <<rows, queue, workers, history, faults>>

\* RPUSH of the id.
PublishJob(d) ==
    /\ dpc[d] = "publishing"
    /\ queue' = Append(queue, djob[d])
    /\ DispatchEnds(d)
    /\ UNCHANGED <<rows, workers, history, faults>>

\* The API process dies, or the INSERT or the RPUSH raises.
DispatchFault(d) ==
    /\ faults < MaxFaults
    /\ dpc[d] # "idle"
    /\ faults' = faults + 1
    /\ DispatchEnds(d)
    /\ UNCHANGED <<rows, queue, workers, history>>

-----------------------------------------------------------------------------
(* run_one_cycle *)

At(w, step) == wpc[w] = step
Goto(w, step) == wpc' = [wpc EXCEPT ![w] = step]

\* The cycle is over: it returned, or it raised and the process restarts.
CycleEnds(w) ==
    /\ Goto(w, "idle")
    /\ wjob' = [wjob EXCEPT ![w] = NoJob]
    /\ loaded' = [loaded EXCEPT ![w] = NothingLoaded]

\* Mutant: the head is read and left in the list.
ClaimByPeek(w) ==
    /\ At(w, "idle")
    /\ queue # <<>>
    /\ wjob' = [wjob EXCEPT ![w] = Head(queue)]
    /\ Goto(w, "found")
    /\ UNCHANGED <<rows, queue, dispatch, loaded, history, faults>>

\* LPOP returns an id.  get_job then reads only columns that never change, and
\* finds the row (ClaimedIsPersisted), so it is no step of its own.
ClaimNext(w) ==
    /\ At(w, "idle")
    /\ queue # <<>>
    /\ queue' = Tail(queue)
    /\ wjob' = [wjob EXCEPT ![w] = Head(queue)]
    /\ Goto(w, "found")
    /\ UNCHANGED <<rows, dispatch, loaded, history, faults>>

\* LPOP returns nothing: look for a stale row.
PollEmpty(w) ==
    /\ At(w, "idle")
    /\ queue = <<>>
    /\ Goto(w, "scanning")
    /\ UNCHANGED <<rows, queue, dispatch, wjob, loaded, history, faults>>

\* Mutants of the scan's WHERE clause: no status, no attempt limit, one attempt
\* less than allowed.
ReclaimableAnyStatus(j) == status[j] # "none" /\ j \in stale /\ attempt[j] < MaxAttempts
ReclaimableForEver(j) == status[j] = "processing" /\ j \in stale
ReclaimableOneLess(j) == status[j] = "processing" /\ j \in stale /\ attempt[j] + 1 < MaxAttempts

Reclaimable(j) ==
    /\ status[j] = "processing"
    /\ j \in stale
    /\ attempt[j] < MaxAttempts

\* The SELECT of claim_stale_processing_job returns row j.
SelectStale(w, j) ==
    /\ At(w, "scanning")
    /\ Reclaimable(j)
    /\ wjob' = [wjob EXCEPT ![w] = j]
    /\ reclaimed' = reclaimed \cup {j}
    /\ Goto(w, "reclaiming")
    /\ UNCHANGED <<rows, queue, dispatch, loaded, begun, done, faults>>

\* The SELECT returns no row: an idle cycle.
SelectNone(w) ==
    /\ At(w, "scanning")
    /\ ~ \E j \in Job : Reclaimable(j)
    /\ CycleEnds(w)
    /\ UNCHANGED <<rows, queue, dispatch, history, faults>>

\* The UPDATE of claim_stale_processing_job, whatever the row is by now.
ReclaimJob(w) ==
    /\ At(w, "reclaiming")
    /\ status' = [status EXCEPT ![wjob[w]] = "queued"]
    /\ stale' = stale \ {wjob[w]}
    /\ Goto(w, "found")
    /\ UNCHANGED <<attempt, lease, queue, dispatch, wjob, loaded, history, faults>>

\* mark_job_processing loads the row ...
LoadJob(w) ==
    /\ At(w, "found")
    /\ loaded' = [loaded EXCEPT ![w] = [status |-> status[wjob[w]],
                                        attempt |-> attempt[wjob[w]], lease |-> "none"]]
    /\ Goto(w, "marking")
    /\ UNCHANGED <<rows, queue, dispatch, wjob, history, faults>>

\* ... and writes it back with one attempt more than loaded.
MarkProcessing(w) ==
    LET j == wjob[w] IN
    /\ At(w, "marking")
    /\ status' = [status EXCEPT ![j] = Written(@, loaded[w].status, "processing")]
    /\ attempt' = [attempt EXCEPT ![j] = loaded[w].attempt + 1]
    /\ stale' = stale \ {j}
    /\ loaded' = [loaded EXCEPT ![w] = NothingLoaded]
    /\ Goto(w, "marked")
    /\ UNCHANGED <<lease, queue, dispatch, wjob, history, faults>>

\* acquire_lease loads the lease row ...
LoadLease(w) ==
    /\ At(w, "marked")
    /\ loaded' = [loaded EXCEPT ![w] = [status |-> "none", attempt |-> 0,
                                        lease |-> lease[wjob[w]]]]
    /\ Goto(w, "leasing")
    /\ UNCHANGED <<rows, queue, dispatch, wjob, history, faults>>

\* ... and inserts it, or updates it whoever holds it.  The handler lookup that
\* follows decides the next step.
AcquireLease(w) ==
    LET j == wjob[w] IN
    /\ At(w, "leasing")
    /\ loaded[w].lease = "none" => lease[j] = "none"
    /\ lease' = [lease EXCEPT ![j] = Written(@, loaded[w].lease, "active")]
    /\ loaded' = [loaded EXCEPT ![w] = NothingLoaded]
    /\ Goto(w, IF j \in Handled THEN "running" ELSE "unhandled")
    /\ begun' = begun \cup ({j} \cap Handled)
    /\ UNCHANGED <<status, attempt, stale, queue, dispatch, wjob, done, reclaimed, faults>>

\* The lease row appeared since it was loaded: IntegrityError ends the cycle.
LeaseConflict(w) ==
    /\ At(w, "leasing")
    /\ loaded[w].lease = "none"
    /\ lease[wjob[w]] # "none"
    /\ CycleEnds(w)
    /\ UNCHANGED <<rows, queue, dispatch, history, faults>>

HandlerReturns(w) ==
    /\ At(w, "running")
    /\ done' = done \cup {wjob[w]}
    /\ Goto(w, "completing")
    /\ UNCHANGED <<rows, queue, dispatch, wjob, loaded, begun, reclaimed, faults>>

\* Mutant: the exception is swallowed.
HandlerSwallows(w) ==
    /\ At(w, "running")
    /\ Goto(w, "completing")
    /\ UNCHANGED <<rows, queue, dispatch, wjob, loaded, history, faults>>

HandlerRaises(w) ==
    /\ At(w, "running")
    /\ Goto(w, "failing")
    /\ UNCHANGED <<rows, queue, dispatch, wjob, loaded, history, faults>>

\* mark_job_completed and mark_job_failed write whatever the row is by now.
RecordOutcome(w, outcome) ==
    /\ status' = [status EXCEPT ![wjob[w]] = outcome]
    /\ stale' = stale \ {wjob[w]}
    /\ Goto(w, "releasing")
    /\ UNCHANGED <<attempt, lease, queue, dispatch, wjob, loaded, history, faults>>

MarkCompleted(w) == At(w, "completing") /\ RecordOutcome(w, "completed")
MarkFailed(w) == (At(w, "failing") \/ At(w, "unhandled")) /\ RecordOutcome(w, "failed")

ReleaseLease(w) ==
    /\ At(w, "releasing")
    /\ lease' = [lease EXCEPT ![wjob[w]] = "released"]
    /\ CycleEnds(w)
    /\ UNCHANGED <<status, attempt, stale, queue, dispatch, history, faults>>

\* The process dies or a repository call raises (at "failing" also because the
\* error text exceeds last_error's 255 characters); the worker restarts idle.
WorkerFault(w) ==
    /\ faults < MaxFaults
    /\ ~At(w, "idle")
    /\ faults' = faults + 1
    /\ CycleEnds(w)
    /\ UNCHANGED <<rows, queue, dispatch, history>>

\* stale_reclaim_seconds pass without a write to the row.
Age(j) ==
    /\ status[j] # "none"
    /\ j \notin stale
    /\ stale' = stale \cup {j}
    /\ UNCHANGED <<status, attempt, lease, queue, dispatch, workers, history, faults>>

-----------------------------------------------------------------------------
DispatchProceeds(d) == InsertJob(d) \/ InsertConflict(d) \/ PublishJob(d)

WorkerProceeds(w) ==
    \/ ClaimNext(w) \/ PollEmpty(w)
    \/ SelectNone(w) \/ \E j \in Job : SelectStale(w, j)
    \/ ReclaimJob(w)
    \/ LoadJob(w) \/ MarkProcessing(w)
    \/ LoadLease(w) \/ AcquireLease(w) \/ LeaseConflict(w)
    \/ HandlerReturns(w) \/ HandlerRaises(w)
    \/ MarkCompleted(w) \/ MarkFailed(w)
    \/ ReleaseLease(w)

Next ==
    \/ \E d \in Dispatcher :
          \/ \E j \in Job : LookupMissing(d, j)
          \/ DispatchProceeds(d)
          \/ DispatchFault(d)
    \/ \E w \in Worker : WorkerProceeds(w) \/ WorkerFault(w)
    \/ \E j \in Job : Age(j)

Spec == Init /\ [][Next]_vars

\* A call in progress goes on, a worker polls for ever (worker.py) and its
\* handlers return, and time passes.  Nobody is obliged to enqueue or to fail.
Fairness ==
    /\ \A d \in Dispatcher : WF_vars(DispatchProceeds(d))
    /\ \A w \in Worker : WF_vars(WorkerProceeds(w))
    /\ \A j \in Job : WF_vars(Age(j))

FairSpec == Spec /\ Fairness

-----------------------------------------------------------------------------
InQueue(j) == \E i \in 1..Len(queue) : queue[i] = j
Publishing(d, j) == dpc[d] = "publishing" /\ djob[d] = j
Holds(w, j) == wjob[w] = j

\* An id is published only after its row is committed, so whoever holds one
\* finds the row: the skipped_jobs path and the LookupErrors of the repository
\* are never taken.
ClaimedIsPersisted ==
    \A j \in Job :
        \/ InQueue(j)
        \/ \E d \in Dispatcher : Publishing(d, j)
        \/ \E w \in Worker : Holds(w, j)
        => status[j] # "none"

\* However many callers enqueue the key and retry, its id is published once:
\* it is about to be, or in the list once, or with workers, never two of these.
SingleDelivery ==
    /\ \A i, k \in 1..Len(queue) : queue[i] = queue[k] => i = k
    /\ \A j \in Job, d \in Dispatcher : Publishing(d, j) =>
          /\ ~InQueue(j)
          /\ \A e \in Dispatcher : Publishing(e, j) => e = d
    /\ \A j \in Job : (InQueue(j) \/ \E d \in Dispatcher : Publishing(d, j)) =>
          /\ status[j] = "queued"
          /\ \A w \in Worker : ~Holds(w, j)

\* A job no scan has taken for stale has one worker, and while that worker
\* executes it the row is "processing" and, once acquired, the lease active.
\* Nothing but the reclaim breaks mutual exclusion.
ExclusiveExecution ==
    \A j \in Job \ reclaimed, w \in Worker : Holds(w, j) =>
        /\ \A v \in Worker : Holds(v, j) => v = w
        /\ wpc[w] \in Executing => status[j] = "processing" /\ attempt[j] = 1
        /\ wpc[w] \in Executing \ {"marked", "leasing"} => lease[j] = "active"

\* A "completed" row means the handler returned.  A "failed" row means it did
\* not, unless the job was reclaimed and two outcomes raced.
OutcomeTruthful ==
    \A j \in Job :
        /\ status[j] = "completed" => j \in done
        /\ status[j] = "failed" /\ j \notin reclaimed => j \notin done

\* The attempts are used up and no worker is on its way to one more: none has
\* selected or claimed the row without having marked it.
Exhausted(j) ==
    /\ attempt[j] >= MaxAttempts
    /\ \A w \in Worker : Holds(w, j) => wpc[w] \notin {"reclaiming"} \cup BeforeMark

\* An exhausted job is never taken again.  That is all max_attempts gives: it is
\* checked by the scan and not by the claim, so workers that selected the row
\* together overshoot it; and a mark writes an absolute value, so one that read
\* the row long ago takes the count back below it and the scan opens again.
ExhaustedForGood == [][\A j \in Job : Exhausted(j) => Exhausted(j)']_vars

\* The outcome is recorded and whoever still holds the job has only its lease
\* to release.
Settled(j) ==
    /\ status[j] \in Terminal
    /\ \A w \in Worker : Holds(w, j) => wpc[w] = "releasing"

\* A settled job is settled for good: no retry of the enqueue, no poll and no
\* scan executes it again or rewrites its outcome.
SettledForGood == [][\A j \in Job : Settled(j) => Settled(j)']_vars

\* The outcome of a job that was never reclaimed settles it.
OutcomeSettles ==
    \A j \in Job \ reclaimed : status[j] \in Terminal => Settled(j)

\* Together: the queue keeps the promises of JobDelivery.
Delivered == INSTANCE JobDelivery WITH
    known <- {j \in Job : status[j] # "none"},
    again <- reclaimed,
    executing <- [w \in Worker |-> IF At(w, "running") THEN wjob[w] ELSE NoJob],
    closed <- {j \in Job : Settled(j)}

ImplementsJobDelivery == Delivered!Spec

-----------------------------------------------------------------------------
\* A row nobody works on and no poll or scan can reach: published never or
\* popped and dropped ...
Lost(j) ==
    /\ status[j] = "queued"
    /\ ~InQueue(j)
    /\ \A w \in Worker : ~Holds(w, j)
    /\ \A d \in Dispatcher : ~Publishing(d, j)

\* ... or dropped by its last attempt.
Spent(j) ==
    /\ status[j] = "processing"
    /\ attempt[j] >= MaxAttempts
    /\ \A w \in Worker : ~Holds(w, j)

\* Every enqueued job ends settled, also when its handler is slow enough to be
\* reclaimed while it runs.  Only after a fault may it be Lost or Spent instead:
\* the scan recovers every row that is "processing" with attempts left.
EveryJobComesToRest ==
    \A j \in Job :
        status[j] # "none" ~> [](Settled(j) \/ (faults > 0 /\ (Lost(j) \/ Spent(j))))

-----------------------------------------------------------------------------
\* What a docstring says of the queue and the code does not do.

\* dispatch_service.py:33, "Persist and publish one idempotent workflow queue
\* job": what is persisted is published, at the latest by a retry, and taken.
QueuedIsTaken == \A j \in Job : status[j] = "queued" ~> status[j] # "queued"
=============================================================================
