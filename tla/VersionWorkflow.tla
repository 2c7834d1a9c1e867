-------------------------- MODULE VersionWorkflow --------------------------
(***************************************************************************)
(* Product cards, content packages and price recommendations: a POST saves *)
(* an accepted job and enqueues it, an execution generates one version of  *)
(* its product, saves it, completes the job and charges it, each of these  *)
(* in a commit of its own.                                                 *)
(*                                                                         *)
(* The queue is the one JobDelivery specifies: a job whose execution was   *)
(* taken for dead is called again, also while that execution goes on.      *)
(*                                                                         *)
(* A photo is identified with the job whose POST uploaded it, what a call  *)
(* of a handler generates with the number of that call.  What an agent     *)
(* answers is known in the step that saves what it leads to.               *)
(***************************************************************************)
EXTENDS Integers

CONSTANTS
    Job,         \* jobs that may be posted
    Execution,   \* concurrent handler calls of the queue's workers
    NoJob,       \* no queue job, no photo
    Asked,       \* what may be asked for: kind and file names of every job
    Balances,    \* initial balances: [Owner -> Nat]
    MaxCalls,    \* bound on handler calls per job
    MaxFaults,   \* bound on executions that die
    Slow         \* jobs whose execution a scan may take for dead

Kind == {"product_card", "content_package", "pricing"}
Owner == {"person", "business"}

ASSUME VersionAssumption ==
    /\ NoJob \notin Job
    /\ \A a \in Asked : a.kind \in [Job -> Kind] /\ DOMAIN a.names = Job
    /\ Balances \subseteq [Owner -> Nat]
    /\ MaxCalls \in Nat \ {0} /\ MaxFaults \in Nat
    /\ Slow \subseteq Job

VARIABLES
    kind,       \* what is asked for
    names,      \* the file names its photos are stored under
    post,       \* how far the POST of a job has come
    stored,     \* whose photo the object storage holds under each name
    status,     \* status column of the job's row
    analysis,   \* saved garment analysis: the call that made it, its photo
    artifacts,  \* call whose artifacts the object storage holds
    version,    \* call whose version is saved
    credits,    \* the balance of every owner
    charged,    \* jobs whose charge is booked
    calls,      \* handler calls of each job so far
    known, begun, again, executing, closed,  \* the queue
    pc,         \* next step of each execution
    work,       \* what an execution has in hand
    faults,     \* history: executions that died
    erred,      \* history: jobs an agent or source failed on
    broke       \* history: jobs whose owner could not pay

queue == <<known, begun, again, executing, closed>>
asked == <<kind, names>>
rows == <<status, analysis, version>>
account == <<credits, charged>>
objects == <<stored, artifacts>>
history == <<faults, erred, broke>>
vars == <<asked, post, rows, objects, account, calls, queue, pc, work, history>>

Queue == INSTANCE JobDelivery WITH Worker <- Execution

Outcome == {"completed", "failed"}
Status == {"none", "accepted"} \cup Outcome
Step == {"idle", "analyzing", "analyzed", "generating", "inserting", "closing", "marking",
         "charging", "booking", "returned"}
Call == 0..MaxCalls

Cost == [product_card |-> 18, content_package |-> 14, pricing |-> 6]
Payer == [product_card |-> "person", content_package |-> "business", pricing |-> "business"]
PriceOf(j) == Cost[kind[j]]
OwnerOf(j) == Payer[kind[j]]

Analysis == [call : Call, photo : Job \cup {NoJob}]
Work == [call : Call, photo : Job \cup {NoJob}, mark : Status, seen : Status, balance : Nat]
NoAnalysis == [call |-> 0, photo |-> NoJob]
NoWork == [call |-> 0, photo |-> NoJob, mark |-> "none", seen |-> "none", balance |-> 0]

TypeOK ==
    /\ \E a \in Asked : kind = a.kind /\ names = a.names
    /\ post \in [Job -> {"new", "admitted", "uploaded", "saved"}]
    /\ \A j \in Job : stored[names[j]] \in Job \cup {NoJob}
    /\ status \in [Job -> Status]
    /\ analysis \in [Job -> Analysis]
    /\ artifacts \in [Job -> Call] /\ version \in [Job -> Call] /\ calls \in [Job -> Call]
    /\ credits \in [Owner -> Nat] /\ charged \in SUBSET Job
    /\ known \in SUBSET Job /\ begun \in SUBSET known
    /\ again \in SUBSET known /\ closed \in SUBSET known
    /\ executing \in [Execution -> Job \cup {NoJob}]
    /\ pc \in [Execution -> Step]
    /\ work \in [Execution -> Work]
    /\ faults \in 0..MaxFaults
    /\ erred \in SUBSET known /\ broke \in SUBSET known
    /\ \A e \in Execution : pc[e] = "idle" <=> executing[e] = NoJob

Init ==
    /\ \E a \in Asked : kind = a.kind /\ names = a.names
    /\ post = [j \in Job |-> "new"]
    /\ stored = [n \in {names[j] : j \in Job} |-> NoJob]
    /\ status = [j \in Job |-> "none"]
    /\ analysis = [j \in Job |-> NoAnalysis]
    /\ artifacts = [j \in Job |-> 0]
    /\ version = [j \in Job |-> 0]
    /\ credits \in Balances
    /\ charged = {}
    /\ calls = [j \in Job |-> 0]
    /\ Queue!Init
    /\ pc = [e \in Execution |-> "idle"]
    /\ work = [e \in Execution |-> NoWork]
    /\ faults = 0
    /\ erred = {}
    /\ broke = {}

-----------------------------------------------------------------------------
(* The POST routes and the queue.  A request may stop after any step. *)

Posted(j, step) == post' = [post EXCEPT ![j] = step]
unqueued == <<asked, account, calls, queue, pc, work, history>>

\* Only the product card looks at the balance before it takes a job.
Admits(j) ==
    /\ post[j] = "new" /\ kind[j] = "product_card"
    /\ credits[OwnerOf(j)] >= PriceOf(j)
    /\ Posted(j, "admitted")
    /\ UNCHANGED <<unqueued, rows, objects>>

\* Mutant: the name is not made of the file names.
UploadsForAll(j) ==
    /\ post[j] = "admitted"
    /\ stored' = [n \in DOMAIN stored |-> j]
    /\ Posted(j, "uploaded")
    /\ UNCHANGED <<unqueued, rows, artifacts>>

\* The photos are stored under a name made of their file names.
Uploads(j) ==
    /\ post[j] = "admitted"
    /\ stored' = [stored EXCEPT ![names[j]] = j]
    /\ Posted(j, "uploaded")
    /\ UNCHANGED <<unqueued, rows, artifacts>>

Creates(j) ==
    /\ post[j] = IF kind[j] = "product_card" THEN "uploaded" ELSE "new"
    /\ status' = [status EXCEPT ![j] = "accepted"]
    /\ Posted(j, "saved")
    /\ UNCHANGED <<unqueued, analysis, version, objects>>

Enqueues(j) ==
    /\ post[j] = "saved"
    /\ Queue!Enqueue(j)
    /\ UNCHANGED <<asked, post, rows, objects, account, calls, pc, work, history>>

\* The queue settles a job nobody executes, or takes an execution for dead.
QueueMoves(j) ==
    /\ Queue!Close(j) \/ (j \in Slow /\ Queue!Suspect(j))
    /\ UNCHANGED <<asked, post, rows, objects, account, calls, pc, work, history>>

-----------------------------------------------------------------------------
(* The three execute_..._job *)

At(e, step) == pc[e] = step
Goto(e, step) == pc' = [pc EXCEPT ![e] = step]
IsCard(e) == kind[executing[e]] = "product_card"
called == <<asked, post, calls, queue, faults>>

Begin(e, j) ==
    /\ calls[j] < MaxCalls
    /\ Queue!Begin(e, j)
    /\ calls' = [calls EXCEPT ![j] = @ + 1]
    /\ work' = [work EXCEPT ![e].call = calls[j] + 1]
    /\ Goto(e, IF kind[j] = "product_card" THEN "analyzing" ELSE "generating")
    /\ UNCHANGED <<asked, post, rows, objects, account, history>>

\* The analyzer looks at the photos the job's keys name.
Analyzes(e) ==
    /\ At(e, "analyzing")
    /\ work' = [work EXCEPT ![e].photo = stored[names[executing[e]]]]
    /\ Goto(e, "analyzed")
    /\ UNCHANGED <<called, rows, objects, account, erred, broke>>

\* Its analysis is merged into the row of the job.
SavesAnalysis(e) ==
    /\ At(e, "analyzed")
    /\ analysis' = [analysis EXCEPT ![executing[e]] =
                      [call |-> work[e].call, photo |-> work[e].photo]]
    /\ Goto(e, "generating")
    /\ UNCHANGED <<called, status, version, objects, account, work, erred, broke>>

\* The artifacts of a content package are stored under keys of the job.
Stores(e) ==
    /\ At(e, "generating") /\ kind[executing[e]] = "content_package"
    /\ artifacts' = [artifacts EXCEPT ![executing[e]] = work[e].call]
    /\ Goto(e, "inserting")
    /\ UNCHANGED <<called, rows, stored, account, work, erred, broke>>

\* Mutant: a card that fails is not marked.
RaisesUnmarked(e) ==
    /\ At(e, "analyzing") \/ At(e, "analyzed") \/ At(e, "generating")
    /\ erred' = erred \cup {executing[e]}
    /\ Goto(e, "returned")
    /\ UNCHANGED <<called, rows, objects, account, work, broke>>

\* An agent or the storage fails, or no comparables are found.  Only the card
\* marks its job failed, the others just raise.
Raises(e) ==
    /\ At(e, "analyzing") \/ At(e, "analyzed") \/ At(e, "generating")
    /\ erred' = erred \cup {executing[e]}
    /\ work' = [work EXCEPT ![e].mark = IF IsCard(e) THEN "failed" ELSE @]
    /\ Goto(e, IF IsCard(e) THEN "closing" ELSE "returned")
    /\ UNCHANGED <<called, rows, objects, account, broke>>

\* Mutant: the job is charged and not completed.
InsertsForCharge(e) ==
    LET j == executing[e] IN
    /\ At(e, "inserting") \/ (At(e, "generating") /\ kind[j] # "content_package")
    /\ IF version[j] = 0
       THEN /\ version' = [version EXCEPT ![j] = work[e].call]
            /\ Goto(e, "charging")
       ELSE /\ Goto(e, "returned")
            /\ UNCHANGED version
    /\ UNCHANGED <<called, status, analysis, objects, account, work, erred, broke>>

\* The version is inserted under a key made of the job's id, unless an earlier
\* call did so: that raises, and nothing catches it.
Inserts(e) ==
    LET j == executing[e] IN
    /\ At(e, "inserting") \/ (At(e, "generating") /\ kind[j] # "content_package")
    /\ IF version[j] = 0
       THEN /\ version' = [version EXCEPT ![j] = work[e].call]
            /\ work' = [work EXCEPT ![e].mark = "completed"]
            /\ Goto(e, "closing")
       ELSE /\ Goto(e, "returned")
            /\ UNCHANGED <<version, work>>
    /\ UNCHANGED <<called, status, analysis, objects, account, erred, broke>>

\* mark_completed and mark_failed load the row and send a status that differs
\* from the one loaded; whatever it was.
LoadsRow(e) ==
    /\ At(e, "closing")
    /\ work' = [work EXCEPT ![e].seen = status[executing[e]]]
    /\ Goto(e, "marking")
    /\ UNCHANGED <<called, rows, objects, account, erred, broke>>

Marks(e) ==
    LET j == executing[e]
        w == work[e]
    IN
    /\ At(e, "marking")
    /\ status' = [status EXCEPT ![j] = IF w.seen = w.mark THEN @ ELSE w.mark]
    /\ Goto(e, IF w.mark = "completed" THEN "charging" ELSE "returned")
    /\ UNCHANGED <<called, analysis, version, objects, account, work, erred, broke>>

\* Mutant: the ledger key lacks the job's id.
LoadsForKind(e) ==
    LET j == executing[e]
        booked == \E k \in charged : kind[k] = kind[j]
        unpaid == ~booked /\ credits[OwnerOf(j)] < PriceOf(j)
    IN
    /\ At(e, "charging")
    /\ broke' = IF unpaid THEN broke \cup {j} ELSE broke
    /\ work' = [work EXCEPT ![e].balance = credits[OwnerOf(j)]]
    /\ Goto(e, IF booked \/ unpaid THEN "returned" ELSE "booking")
    /\ UNCHANGED <<called, rows, objects, account, erred>>

\* charge_workflow finds the event of this job, or loads the balance, which may
\* be too low: that raises.
LoadsAccount(e) ==
    LET j == executing[e]
        booked == j \in charged
        unpaid == ~booked /\ credits[OwnerOf(j)] < PriceOf(j)
    IN
    /\ At(e, "charging")
    /\ broke' = IF unpaid THEN broke \cup {j} ELSE broke
    /\ work' = [work EXCEPT ![e].balance = credits[OwnerOf(j)]]
    /\ Goto(e, IF booked \/ unpaid THEN "returned" ELSE "booking")
    /\ UNCHANGED <<called, rows, objects, account, erred>>

\* It commits the event and the balance computed from the one loaded.
Books(e) ==
    LET j == executing[e] IN
    /\ At(e, "booking")
    /\ credits' = [credits EXCEPT ![OwnerOf(j)] = work[e].balance - PriceOf(j)]
    /\ charged' = charged \cup {j}
    /\ Goto(e, "returned")
    /\ UNCHANGED <<called, rows, objects, work, erred, broke>>

CallEnds(e) ==
    /\ Queue!End(e)
    /\ Goto(e, "idle")
    /\ work' = [work EXCEPT ![e] = NoWork]
    /\ UNCHANGED <<asked, post, rows, objects, account, calls, erred, broke>>

\* Mutant: the worker does not notice that the handler returned.
ReturnsUnnoticed(e) ==
    /\ At(e, "returned")
    /\ Goto(e, "idle")
    /\ UNCHANGED <<called, rows, objects, account, work, erred, broke>>

Returns(e) == At(e, "returned") /\ CallEnds(e) /\ UNCHANGED faults

\* The process dies, or a commit or the ledger raises for other reasons.
Dies(e) ==
    /\ faults < MaxFaults
    /\ ~At(e, "idle")
    /\ faults' = faults + 1
    /\ CallEnds(e)

-----------------------------------------------------------------------------
Proceeds(e) ==
    \/ Analyzes(e) \/ SavesAnalysis(e) \/ Stores(e) \/ Raises(e) \/ Inserts(e)
    \/ LoadsRow(e) \/ Marks(e) \/ LoadsAccount(e) \/ Books(e) \/ Returns(e)

Next ==
    \/ \E j \in Job : Admits(j) \/ Uploads(j) \/ Creates(j) \/ Enqueues(j) \/ QueueMoves(j)
    \/ \E e \in Execution : Proceeds(e) \/ Dies(e) \/ \E j \in Job : Begin(e, j)

Spec == Init /\ [][Next]_vars

\* Agents, storage and database answer every call of an execution in progress.
FairSpec == Spec /\ \A e \in Execution : WF_vars(Proceeds(e))

-----------------------------------------------------------------------------
Quiet(j) == \A e \in Execution : executing[e] # j

\* docs/superpowers/specs/2026-06-15-product-card-provider-neutral-agent-design.md:27,
\* "Credits are charged only after a generated version is saved and the job is
\* completed": and the job stays completed, unless it is redelivered and an
\* agent fails on it then.
ChargedIsDelivered ==
    \A j \in charged :
        /\ version[j] # 0
        /\ status[j] = "completed" \/ (j \in again /\ j \in erred /\ kind[j] = "product_card")

\* A completed job that nobody works on is charged, unless its execution died
\* or its owner could not pay; a card could pay when it was admitted, so then
\* another card of the same owner was charged since.
CompletedIsPaid ==
    \A j \in Job :
        status[j] = "completed" /\ Quiet(j) /\ j \notin charged =>
            \/ faults > 0
            \/ /\ j \in broke
               /\ kind[j] = "product_card" =>
                     \E k \in charged \ {j} : OwnerOf(k) = OwnerOf(j)

\* A saved version comes with the analysis or the artifacts of the call that
\* made it, unless the job is redelivered, and a card is made from the photos of
\* its own POST, unless another one used the same file names.
ShowsItsOwn ==
    \A j \in Job :
        version[j] # 0 =>
            /\ kind[j] = "product_card" =>
                  /\ j \notin again => analysis[j].call = version[j]
                  /\ (\A k \in Job \ {j} : names[k] # names[j]) => analysis[j].photo = j
            /\ kind[j] = "content_package" /\ j \notin again => artifacts[j] = version[j]

\* A job that a worker has begun gets an outcome, unless an execution dies; but
\* a content package or a price whose sources fail stays accepted.
Answered ==
    \A j \in Job :
        j \in begun ~> \/ status[j] \in Outcome
                       \/ faults > 0
                       \/ j \in erred /\ kind[j] # "product_card"
=============================================================================
