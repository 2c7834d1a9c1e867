--------------------------- MODULE TryOnWorkflow ---------------------------
(***************************************************************************)
(* One Try-On job: its persisted aggregate, the executions the queue gives *)
(* it, the routes that enqueue and continue it, and the PUT that changes   *)
(* its wear controls.                                                      *)
(*                                                                         *)
(* The queue is the one JobDelivery specifies: a job is enqueued under two *)
(* keys, "start" and "generate", and each may be called again once a scan  *)
(* takes its execution for dead.                                           *)
(*                                                                         *)
(* Every writer works on the aggregate it once loaded and saves all of it. *)
(* repository.save loads the row, writes each of its columns that differs  *)
(* from what it loaded, and replaces the child rows, in one commit: here   *)
(* the columns are status and controls (Written), all else is child rows.  *)
(* A save is therefore two steps, and what an agent answers is known in    *)
(* the step that starts the save it leads to.                              *)
(*                                                                         *)
(* An image is identified with the wear controls it was generated with, a  *)
(* quality report with the decision of the quality policy on it.           *)
(***************************************************************************)
EXTENDS Integers

CONSTANTS
    Execution,   \* concurrent handler calls of the queue's workers
    Client,      \* PUT wear-controls requests; a request selects itself
    StartMode,   \* sandbox_lifecycle_mode of the POST that creates the job
    GenerateMode,  \* and of the POST that continues it
    Default,     \* no selection: the instruction agent uses the defaults
    Absent,      \* no image, no instruction, no mode, no queue job
    HasRepair,   \* a repair adapter is configured
    MaxRetries,  \* _MAX_AUTO_RETRY_ATTEMPTS
    MaxFaults,   \* bound on executions that die or raise
    Redelivery   \* scans may take an execution for dead

ASSUME TryOnAssumption ==
    /\ Execution \cap Client = {}
    /\ Default \notin Client
    \* A pending job is not enqueued; a continued one cannot ask for analysis only.
    /\ StartMode \subseteq {"complete", "analysis_only", "failed", "repair_acceptance"}
    /\ GenerateMode \subseteq {"complete", "failed", "repair_acceptance", "pending"}
    /\ Absent \notin Client \cup StartMode \cup GenerateMode \cup {Default, "start", "generate"}
    /\ HasRepair \in BOOLEAN /\ Redelivery \in BOOLEAN
    /\ MaxRetries \in Nat /\ MaxFaults \in Nat

QueueJob == {"start", "generate"}

VARIABLES
    record,     \* the persisted aggregate
    charged,    \* the ledger has the charge of this job
    mode,       \* sandbox_lifecycle_mode in the payload of each queue job
    admitted,   \* mode of a generate request past its status check
    known, begun, again, executing, closed,  \* the queue
    pc,         \* next step of each writer
    job,        \* the aggregate a writer has in hand
    out,        \* the save a writer has started
    run,        \* generation loop of an execution
    faults,     \* history: executions that died or raised
    fresh,      \* history: writers since whose load nobody else has saved
    stale       \* history: some save overwrote one its writer had not seen

queue == <<known, begun, again, executing, closed>>
local == <<pc, job, out, run>>
seenBy == <<fresh, stale>>
vars == <<record, charged, mode, admitted, queue, local, faults, seenBy>>

Queue == INSTANCE JobDelivery WITH Job <- QueueJob, Worker <- Execution, NoJob <- Absent

Writer == Execution \cup Client
Controls == Client \cup {Default}
Final == {"completed", "failed"}
Status == {"accepted", "analyzing_human", "analysis_ready"} \cup Final
Aggregate ==
    [status : Status, analyzed : BOOLEAN, controls : Controls,
     instruction : Controls \cup {Absent}, result : Controls \cup {Absent}, error : BOOLEAN]
Decision == {"pass", "repair", "retry_recommended", "reject"}
Step == {"idle", "loaded", "resolving", "analyzing", "instructing", "generating", "judging",
         "judged", "saving", "returned"}
Pending == [as : Aggregate, seen : [status : Status, controls : Controls], then : Step]
Run == [generations : Nat, repairs : Nat, retries : Nat, report : Decision]

Created == [status |-> "accepted", analyzed |-> FALSE, controls |-> Default,
            instruction |-> Absent, result |-> Absent, error |-> FALSE]
Columns(a) == [status |-> a.status, controls |-> a.controls]
NoSave == [as |-> Created, seen |-> Columns(Created), then |-> "idle"]
NoRun == [generations |-> 0, repairs |-> 0, retries |-> 0, report |-> "reject"]

TypeOK ==
    /\ record \in Aggregate
    /\ charged \in BOOLEAN
    /\ mode \in [QueueJob -> StartMode \cup GenerateMode \cup {Absent}]
    /\ admitted \in GenerateMode \cup {Absent}
    /\ known \in SUBSET QueueJob /\ begun \in SUBSET known
    /\ again \in SUBSET known /\ closed \in SUBSET known
    /\ executing \in [Execution -> QueueJob \cup {Absent}]
    /\ pc \in [Writer -> Step]
    /\ job \in [Writer -> Aggregate]
    /\ out \in [Writer -> Pending]
    /\ run \in [Execution -> Run]
    /\ faults \in 0..MaxFaults
    /\ fresh \in SUBSET Writer
    /\ stale \in BOOLEAN
    /\ \A e \in Execution : pc[e] = "idle" <=> executing[e] = Absent

\* create_job has persisted the accepted job; nothing is enqueued yet.
Init ==
    /\ record = Created
    /\ charged = FALSE
    /\ mode = [q \in QueueJob |-> Absent]
    /\ admitted = Absent
    /\ Queue!Init
    /\ pc = [e \in Writer |-> "idle"]
    /\ job = [e \in Writer |-> Created]
    /\ out = [e \in Writer |-> NoSave]
    /\ run = [e \in Execution |-> NoRun]
    /\ faults = 0
    /\ fresh = {}
    /\ stale = FALSE

-----------------------------------------------------------------------------
(* The routes and the queue *)

\* POST /jobs enqueues the job it created, unless it is to stay pending.
EnqueueStart(m) ==
    /\ Queue!Enqueue("start")
    /\ mode' = [mode EXCEPT !["start"] = m]
    /\ UNCHANGED <<record, charged, admitted, local, faults, seenBy>>

\* Mutant: the generate route does not check the status.
AdmitAlways(m) ==
    /\ "generate" \notin known /\ admitted = Absent
    /\ admitted' = m
    /\ UNCHANGED <<record, charged, mode, queue, local, faults, seenBy>>

\* POST /generate finds the job analysis-ready.  All requests enqueue the same
\* key, so only the one that does it first matters.
Admit(m) ==
    /\ "generate" \notin known /\ admitted = Absent
    /\ record.status = "analysis_ready"
    /\ admitted' = m
    /\ UNCHANGED <<record, charged, mode, queue, local, faults, seenBy>>

\* It enqueues the job, whatever that is by now.
EnqueueGenerate ==
    /\ admitted # Absent
    /\ Queue!Enqueue("generate")
    /\ mode' = [mode EXCEPT !["generate"] = admitted]
    /\ admitted' = Absent
    /\ UNCHANGED <<record, charged, local, faults, seenBy>>

\* The queue settles a job nobody executes, or takes an execution for dead.
QueueMoves(q) ==
    /\ Queue!Close(q) \/ (Redelivery /\ Queue!Suspect(q))
    /\ UNCHANGED <<record, charged, mode, admitted, local, faults, seenBy>>

-----------------------------------------------------------------------------
(* Saving *)

At(e, step) == pc[e] = step
Goto(e, step) == pc' = [pc EXCEPT ![e] = step]

\* save loads the row it is about to overwrite ...
Save(e, as, next) ==
    /\ out' = [out EXCEPT ![e] = [as |-> as, seen |-> Columns(record), then |-> next]]
    /\ Goto(e, "saving")

\* ... sends a column only if it differs from that row's, and commits.  After
\* its last save a writer has nothing in hand.
Written(current, old, new) == IF new = old THEN current ELSE new

Commit(e) ==
    LET s == out[e]
        last == s.then \in {"idle", "returned"}
    IN
    /\ At(e, "saving")
    /\ record' = [s.as EXCEPT !.status = Written(record.status, s.seen.status, @),
                              !.controls = Written(record.controls, s.seen.controls, @)]
    /\ stale' = (stale \/ e \notin fresh)
    /\ fresh' = IF last THEN {} ELSE {e}
    /\ job' = [job EXCEPT ![e] = IF last THEN Created ELSE @]
    /\ out' = [out EXCEPT ![e] = NoSave]
    /\ Goto(e, s.then)
    /\ UNCHANGED <<charged, mode, admitted, queue, run, faults>>

Failed(a) == [a EXCEPT !.status = "failed", !.result = Absent, !.error = TRUE]

-----------------------------------------------------------------------------
(* PUT wear-controls *)

PutLoads(c) ==
    /\ At(c, "idle")
    /\ record.status = "analysis_ready"
    /\ job' = [job EXCEPT ![c] = record]
    /\ fresh' = fresh \cup {c}
    /\ Goto(c, "resolving")
    /\ UNCHANGED <<record, charged, mode, admitted, queue, out, run, faults, stale>>

\* The taxonomy service has resolved the selection.
PutResolves(c) ==
    /\ At(c, "resolving")
    /\ Save(c, [job[c] EXCEPT !.controls = c], "idle")
    /\ UNCHANGED <<record, charged, mode, admitted, queue, job, run, faults, seenBy>>

\* It does not allow the selection, or knows no such slot: 422.
PutRefused(c) ==
    /\ At(c, "resolving")
    /\ Goto(c, "idle")
    /\ job' = [job EXCEPT ![c] = Created]
    /\ fresh' = fresh \ {c}
    /\ UNCHANGED <<record, charged, mode, admitted, queue, out, run, faults, stale>>

-----------------------------------------------------------------------------
(* execute_job *)

Mode(e) == mode[executing[e]]
external == <<record, charged, mode, admitted, queue, faults, seenBy>>

Begin(e, q) ==
    /\ Queue!Begin(e, q)
    /\ job' = [job EXCEPT ![e] = record]
    /\ fresh' = fresh \cup {e}
    /\ Goto(e, "loaded")
    /\ UNCHANGED <<record, charged, mode, admitted, out, run, faults, stale>>

StaysPending(e) ==
    /\ At(e, "loaded") /\ Mode(e) = "pending"
    /\ Save(e, [job[e] EXCEPT !.status = "accepted", !.result = Absent, !.error = FALSE],
            "returned")
    /\ UNCHANGED <<external, job, run>>

\* The persisted job is analyzing; the one in hand keeps its status.
AnalysisStarts(e) ==
    /\ At(e, "loaded") /\ Mode(e) # "pending"
    /\ ~job[e].analyzed
    /\ Save(e, [job[e] EXCEPT !.status = "analyzing_human"], "analyzing")
    /\ UNCHANGED <<external, job, run>>

\* An analysis fails, or the human photo is not allowed.
AnalysisBlocks(e) ==
    /\ At(e, "analyzing")
    /\ Save(e, Failed(job[e]), "returned")
    /\ UNCHANGED <<external, job, run>>

\* The analysis is done, now or before.  Unless that was all, the job goes on
\* with the status it was loaded with.
AnalysisPasses(e) ==
    LET only == Mode(e) = "analysis_only"
        ready == [job[e] EXCEPT !.analyzed = TRUE,
                                !.status = IF only THEN "analysis_ready" ELSE @]
    IN
    /\ \/ At(e, "analyzing")
       \/ At(e, "loaded") /\ Mode(e) # "pending" /\ job[e].analyzed
    /\ job' = [job EXCEPT ![e] = ready]
    /\ Save(e, ready, IF only THEN "returned" ELSE "instructing")
    /\ UNCHANGED <<external, run>>

\* Mutant: the failed job is returned and not saved.
InstructionDropped(e) ==
    /\ At(e, "instructing")
    /\ Goto(e, "returned")
    /\ UNCHANGED <<external, job, out, run>>

InstructionFails(e) ==
    /\ At(e, "instructing")
    /\ Save(e, Failed(job[e]), "returned")
    /\ UNCHANGED <<external, job, run>>

\* Mutant: the instruction is made for the default controls.
InstructsDefault(e) ==
    LET instructed == [job[e] EXCEPT !.instruction = Default] IN
    /\ At(e, "instructing")
    /\ job' = [job EXCEPT ![e] = instructed]
    /\ Save(e, instructed, "generating")
    /\ UNCHANGED <<external, run>>

InstructionMade(e) ==
    LET instructed == [job[e] EXCEPT !.instruction = job[e].controls] IN
    /\ At(e, "instructing")
    /\ job' = [job EXCEPT ![e] = instructed]
    /\ Save(e, instructed, "generating")
    /\ UNCHANGED <<external, run>>

\* The sandbox was asked to fail, or the generator raised.
GenerationFails(e) ==
    /\ At(e, "generating")
    /\ Save(e, Failed(job[e]), "returned")
    /\ UNCHANGED <<external, job, run>>

\* An image is generated and verified.  The first report of repair acceptance
\* is replaced by one that asks for a repair.
Generates(e, decision) ==
    /\ At(e, "generating") /\ Mode(e) # "failed"
    /\ Mode(e) = "repair_acceptance" /\ run[e].repairs = 0 => decision \in {"repair", "reject"}
    /\ run' = [run EXCEPT ![e].generations = @ + 1, ![e].report = decision]
    /\ Goto(e, "judging")
    /\ UNCHANGED <<external, job, out>>

\* Mutant: repairs until the verifier no longer asks for one.
RepairsAgain(e, decision) ==
    /\ At(e, "judging") /\ HasRepair
    /\ run[e].report = "repair"
    /\ run' = [run EXCEPT ![e].repairs = @ + 1, ![e].report = decision]
    /\ UNCHANGED <<external, pc, job, out>>

\* The image is repaired and verified again, once.
Repairs(e, decision) ==
    /\ At(e, "judging") /\ HasRepair
    /\ run[e].report = "repair"
    /\ run' = [run EXCEPT ![e].repairs = @ + 1, ![e].report = decision]
    /\ Goto(e, "judged")
    /\ UNCHANGED <<external, job, out>>

Judged(e) ==
    \/ At(e, "judged")
    \/ At(e, "judging") /\ (run[e].report # "repair" \/ ~HasRepair)

RetryDue(e) == run[e].report = "retry_recommended" /\ run[e].retries < MaxRetries

Retries(e) ==
    /\ Judged(e) /\ RetryDue(e)
    /\ run' = [run EXCEPT ![e].retries = @ + 1]
    /\ Goto(e, "generating")
    /\ UNCHANGED <<external, job, out>>

Rejects(e) ==
    /\ Judged(e) /\ run[e].report # "pass" /\ ~RetryDue(e)
    /\ Save(e, Failed(job[e]), "returned")
    /\ UNCHANGED <<external, job, run>>

Completed(a) ==
    [a EXCEPT !.status = "completed", !.result = a.instruction, !.error = FALSE]

\* Mutants: completed before the charge, which is then never made; charged
\* before the result is known to be good.
CompletesUncharged(e) ==
    /\ Judged(e) /\ run[e].report = "pass"
    /\ Save(e, Completed(job[e]), "returned")
    /\ UNCHANGED <<external, job, run>>

ChargesRejected(e) ==
    /\ Judged(e) /\ ~RetryDue(e)
    /\ charged' = TRUE
    /\ Save(e, IF run[e].report = "pass" THEN Completed(job[e]) ELSE Failed(job[e]), "returned")
    /\ UNCHANGED <<record, mode, admitted, queue, faults, seenBy, job, run>>

\* The stylist's note is made, the ledger has the charge, booked now or before,
\* and the completed job is saved.
Completes(e) ==
    /\ Judged(e) /\ run[e].report = "pass"
    /\ charged' = TRUE
    /\ Save(e, Completed(job[e]), "returned")
    /\ UNCHANGED <<record, mode, admitted, queue, faults, seenBy, job, run>>

CallEnds(e) ==
    /\ Queue!End(e)
    /\ Goto(e, "idle")
    /\ job' = [job EXCEPT ![e] = Created]
    /\ out' = [out EXCEPT ![e] = NoSave]
    /\ run' = [run EXCEPT ![e] = NoRun]
    /\ fresh' = fresh \ {e}
    /\ UNCHANGED <<record, charged, mode, admitted, stale>>

\* Mutant: the worker does not notice that the handler returned.
ReturnsUnnoticed(e) ==
    /\ At(e, "returned")
    /\ Goto(e, "idle")
    /\ UNCHANGED <<external, job, out, run>>

Returns(e) == At(e, "returned") /\ CallEnds(e) /\ UNCHANGED faults

\* The process dies, or what execute_job does not catch is raised: by a save,
\* the verifier, the repair, the stylist, or the charge.
Dies(e) ==
    /\ faults < MaxFaults
    /\ ~At(e, "idle")
    /\ faults' = faults + 1
    /\ CallEnds(e)

-----------------------------------------------------------------------------
Proceeds(e) ==
    \/ StaysPending(e) \/ AnalysisStarts(e) \/ AnalysisBlocks(e) \/ AnalysisPasses(e)
    \/ InstructionFails(e) \/ InstructionMade(e)
    \/ GenerationFails(e)
    \/ \E d \in Decision : Generates(e, d) \/ Repairs(e, d)
    \/ Retries(e) \/ Rejects(e) \/ Completes(e)
    \/ Commit(e) \/ Returns(e)

Next ==
    \/ \E m \in StartMode : EnqueueStart(m)
    \/ \E m \in GenerateMode : Admit(m)
    \/ EnqueueGenerate
    \/ \E q \in QueueJob : QueueMoves(q)
    \/ \E e \in Execution : Proceeds(e) \/ Dies(e) \/ \E q \in QueueJob : Begin(e, q)
    \/ \E c \in Client : PutLoads(c) \/ PutResolves(c) \/ PutRefused(c) \/ Commit(c)

Spec == Init /\ [][Next]_vars

\* Agents, storage and ledger answer every call of an execution in progress.
FairSpec == Spec /\ \A e \in Execution : WF_vars(Proceeds(e))

-----------------------------------------------------------------------------
InFlight(e) == ~At(e, "idle") /\ ~At(e, "returned")

\* A job the user sees completed is in the ledger: no redelivery, no stale save
\* and no crash shows a result that was not charged.
CompletedIsCharged == record.status = "completed" => charged

\* What is charged is delivered and stays so, unless an execution dies or
\* somebody saves over what he has not seen.
ChargedIsDelivered == charged ~> [](record.status = "completed" \/ faults > 0 \/ stale)

\* Only a redelivery makes two executions of the job run together: "generate"
\* is admitted when "start" has done its last save.
OneExecution ==
    again = {} => \A e, f \in Execution : InFlight(e) /\ InFlight(f) => e = f

\* As long as nobody saved over what he had not seen, a completed job shows the
\* image made with the controls it lists and no error, and a failed one shows
\* its error and no image.
OutcomeCoherent ==
    ~stale =>
        /\ record.status = "completed" =>
              record.result = record.controls /\ record.result = record.instruction /\ ~record.error
        /\ record.status = "failed" => record.result = Absent /\ record.error

\* Nor is an outcome taken back, unless the job is redelivered.
OutcomeFinal ==
    [][record.status \in Final /\ again = {} /\ ~stale' => record' = record]_vars

\* A job nobody works on is not left in between: it has an outcome, or the
\* client has something to do next.  Only an execution that died leaves others.
QuietIsDecided ==
    begun # {} /\ faults = 0 /\ ~stale /\ (\A e \in Execution : ~InFlight(e)) =>
        \/ record.status \in Final
        \/ record.status = "analysis_ready" /\ mode["start"] = "analysis_only"
        \/ record.status = "accepted" /\ mode["generate"] = "pending"

\* docs/01_ACTION_LOG_CHECKLIST.md:714, "Auto-retry is limited to one additional
\* generation attempt per execution": also when repairs come in between, of
\* which each image gets one.
EffortBounded ==
    \A e \in Execution : /\ run[e].generations <= 1 + MaxRetries
                         /\ run[e].repairs <= run[e].generations
=============================================================================
