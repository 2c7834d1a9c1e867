--------------------------- MODULE JobQueue_proofs ---------------------------
(***************************************************************************)
(* Theorems about JobQueue for every set of jobs, workers and dispatchers, *)
(* every number of attempts and of faults.                                 *)
(***************************************************************************)
EXTENDS JobQueue, TLAPS

In(s, j) == \E i \in 1..Len(s) : s[i] = j
Distinct(s) == \A i, k \in 1..Len(s) : s[i] = s[k] => i = k

\* Pushing an id that is not in the list keeps the list free of duplicates.
LEMMA Push ==
    ASSUME NEW s \in Seq(Job), NEW j \in Job, Distinct(s), ~In(s, j)
    PROVE  /\ Append(s, j) \in Seq(Job)
           /\ Distinct(Append(s, j))
           /\ \A k \in Job : In(Append(s, j), k) => In(s, k) \/ k = j
BY DEF In, Distinct

\* Popping the head of a list without duplicates removes that id and no other.
LEMMA Pop ==
    ASSUME NEW s \in Seq(Job), s # <<>>, Distinct(s)
    PROVE  /\ Tail(s) \in Seq(Job)
           /\ Head(s) \in Job
           /\ In(s, Head(s))
           /\ Distinct(Tail(s))
           /\ ~In(Tail(s), Head(s))
           /\ \A k \in Job : In(Tail(s), k) => In(s, k)
<1>1. Len(s) \in Nat \ {0} /\ Head(s) = s[1] /\ 1 \in 1..Len(s)
  OBVIOUS
<1>2. Len(Tail(s)) = Len(s) - 1 /\ \A i \in 1..Len(Tail(s)) : Tail(s)[i] = s[i + 1] /\ i + 1 \in 1..Len(s)
  BY <1>1
<1> QED
  BY <1>1, <1>2 DEF In, Distinct

-----------------------------------------------------------------------------
(* Type correctness *)

\* Who has a step to take has a job to take it on.
Busy ==
    /\ \A d \in Dispatcher : dpc[d] # "idle" => djob[d] \in Job
    /\ \A w \in Worker : wpc[w] \notin {"idle", "scanning"} <=> wjob[w] \in Job

TypeInv == TypeOK /\ Busy

LEMMA TypeInvInit == Init => TypeInv
BY JobQueueAssumption DEF Init, TypeInv, TypeOK, Busy, Status, LeaseStatus, DispatchStep,
   WorkerStep, BeforeMark, Executing, Loaded, NothingLoaded

LEMMA TypeInvStep == TypeInv /\ [Next]_vars => TypeInv'
<1> SUFFICES ASSUME TypeInv, [Next]_vars PROVE TypeInv'
  OBVIOUS
<1> USE JobQueueAssumption DEF TypeInv, TypeOK, Busy, Status, LeaseStatus, DispatchStep,
       WorkerStep, BeforeMark, Executing, Loaded, NothingLoaded, rows, dispatch, workers, history
<1>1. ASSUME NEW d \in Dispatcher, NEW j \in Job, LookupMissing(d, j) PROVE TypeInv'
  BY <1>1 DEF LookupMissing
<1>2. ASSUME NEW d \in Dispatcher, InsertJob(d) PROVE TypeInv'
  BY <1>2 DEF InsertJob
<1>3. ASSUME NEW d \in Dispatcher, InsertConflict(d) PROVE TypeInv'
  BY <1>3 DEF InsertConflict, DispatchEnds
<1>4. ASSUME NEW d \in Dispatcher, PublishJob(d) PROVE TypeInv'
  BY <1>4 DEF PublishJob, DispatchEnds
<1>5. ASSUME NEW d \in Dispatcher, DispatchFault(d) PROVE TypeInv'
  BY <1>5 DEF DispatchFault, DispatchEnds
<1>6. ASSUME NEW w \in Worker, ClaimNext(w) PROVE TypeInv'
  <2>1. Head(queue) \in Job /\ Tail(queue) \in Seq(Job)
    BY <1>6 DEF ClaimNext
  <2> QED
    BY <1>6, <2>1 DEF ClaimNext, At, Goto
<1>7. ASSUME NEW w \in Worker, PollEmpty(w) PROVE TypeInv'
  BY <1>7 DEF PollEmpty, At, Goto
<1>8. ASSUME NEW w \in Worker, NEW j \in Job, SelectStale(w, j) PROVE TypeInv'
  BY <1>8 DEF SelectStale, At, Goto
<1>9. ASSUME NEW w \in Worker, SelectNone(w) PROVE TypeInv'
  BY <1>9 DEF SelectNone, At, Goto, CycleEnds
<1>10. ASSUME NEW w \in Worker, ReclaimJob(w) PROVE TypeInv'
  BY <1>10 DEF ReclaimJob, At, Goto
<1>11. ASSUME NEW w \in Worker, LoadJob(w) PROVE TypeInv'
  <2>1. status[wjob[w]] \in Status /\ attempt[wjob[w]] \in Nat
    BY <1>11 DEF LoadJob, At
  <2>2. loaded' \in [Worker -> Loaded]
    BY <1>11, <2>1 DEF LoadJob
  <2> QED
    BY <1>11, <2>2 DEF LoadJob, At, Goto
<1>12. ASSUME NEW w \in Worker, MarkProcessing(w) PROVE TypeInv'
  <2>1. wjob[w] \in Job /\ loaded[w].attempt \in Nat
    BY <1>12 DEF MarkProcessing, At
  <2>2. status' \in [Job -> Status] /\ attempt' \in [Job -> Nat]
    BY <1>12, <2>1 DEF MarkProcessing, Written
  <2> QED
    BY <1>12, <2>1, <2>2 DEF MarkProcessing, At, Goto
<1>13. ASSUME NEW w \in Worker, LoadLease(w) PROVE TypeInv'
  <2>1. lease[wjob[w]] \in LeaseStatus
    BY <1>13 DEF LoadLease, At
  <2>2. loaded' \in [Worker -> Loaded]
    BY <1>13, <2>1 DEF LoadLease
  <2> QED
    BY <1>13, <2>2 DEF LoadLease, At, Goto
<1>14. ASSUME NEW w \in Worker, AcquireLease(w) PROVE TypeInv'
  <2>1. lease' \in [Job -> LeaseStatus]
    BY <1>14 DEF AcquireLease, Written
  <2> QED
    BY <1>14, <2>1 DEF AcquireLease, At, Goto
<1>15. ASSUME NEW w \in Worker, LeaseConflict(w) PROVE TypeInv'
  BY <1>15 DEF LeaseConflict, At, Goto, CycleEnds
<1>16. ASSUME NEW w \in Worker, HandlerReturns(w) PROVE TypeInv'
  BY <1>16 DEF HandlerReturns, At, Goto
<1>17. ASSUME NEW w \in Worker, HandlerRaises(w) PROVE TypeInv'
  BY <1>17 DEF HandlerRaises, At, Goto
<1>18. ASSUME NEW w \in Worker, MarkCompleted(w) PROVE TypeInv'
  BY <1>18 DEF MarkCompleted, RecordOutcome, At, Goto
<1>19. ASSUME NEW w \in Worker, MarkFailed(w) PROVE TypeInv'
  BY <1>19 DEF MarkFailed, RecordOutcome, At, Goto
<1>20. ASSUME NEW w \in Worker, ReleaseLease(w) PROVE TypeInv'
  BY <1>20 DEF ReleaseLease, At, Goto, CycleEnds
<1>21. ASSUME NEW w \in Worker, WorkerFault(w) PROVE TypeInv'
  BY <1>21 DEF WorkerFault, At, Goto, CycleEnds
<1>22. ASSUME NEW j \in Job, Age(j) PROVE TypeInv'
  BY <1>22 DEF Age
<1>23. CASE UNCHANGED vars
  BY <1>23 DEF vars
<1> QED
  BY <1>1, <1>2, <1>3, <1>4, <1>5, <1>6, <1>7, <1>8, <1>9, <1>10, <1>11, <1>12, <1>13,
     <1>14, <1>15, <1>16, <1>17, <1>18, <1>19, <1>20, <1>21, <1>22, <1>23
  DEF Next, DispatchProceeds, WorkerProceeds

\* Every reachable state is of the declared types, whatever the interleaving of
\* enqueue calls, worker cycles, faults and the passing of time.
THEOREM TypeCorrect == Spec => []TypeOK
<1>1. TypeInv => TypeOK
  BY DEF TypeInv
<1> QED
  BY <1>1, TypeInvInit, TypeInvStep, PTL DEF Spec

-----------------------------------------------------------------------------
(* Delivery: the id of a job is in one place *)

\* A job whose id is still to be claimed is untouched: nobody has reclaimed it.
\* A worker that holds a job holds a persisted one.
Delivery ==
    /\ SingleDelivery
    /\ \A j \in Job, w \in Worker : Holds(w, j) => status[j] # "none"

\* A job that was never reclaimed moves in step with the only worker that
\* holds it.
Fresh(j) ==
    /\ attempt[j] = 0
    /\ lease[j] = "none"
    /\ j \notin done

InStep(w, j) ==
    /\ \A v \in Worker : Holds(v, j) => v = w
    /\ wpc[w] # "reclaiming"
    /\ wpc[w] \in BeforeMark => status[j] = "queued"
    /\ wpc[w] = "marking" => loaded[w].status = "queued" /\ loaded[w].attempt = 0
    /\ wpc[w] \in Executing => status[j] = "processing" /\ attempt[j] = 1
    /\ wpc[w] \in {"marked", "leasing"} => lease[j] = "none"
    /\ wpc[w] = "leasing" => loaded[w].lease = "none"
    /\ wpc[w] \in Executing \ {"marked", "leasing"} => lease[j] = "active"
    /\ wpc[w] \in Executing \ {"completing"} => j \notin done
    /\ wpc[w] = "releasing" => status[j] \in Terminal

Execution ==
    /\ \A j \in Job \ reclaimed :
          /\ status[j] \in {"none", "queued"} => Fresh(j)
          /\ status[j] = "failed" => j \notin done
          /\ \A w \in Worker : Holds(w, j) => InStep(w, j)
    /\ \A j \in Job : status[j] = "completed" => j \in done
    /\ \A w \in Worker : wpc[w] = "completing" => wjob[w] \in done
    /\ \A w \in Worker : wpc[w] = "reclaiming" => wjob[w] \in reclaimed

IInv == TypeInv /\ Delivery /\ Execution
LEMMA IInvInit == Init => IInv
BY TypeInvInit, JobQueueAssumption DEF Init, IInv, Delivery, SingleDelivery, Execution, InQueue, Publishing,
   Holds, Fresh, InStep, BeforeMark, Executing, Terminal

LEMMA DeliveryStep == IInv /\ [Next]_vars => Delivery'
<1> SUFFICES ASSUME IInv, [Next]_vars PROVE Delivery'
  OBVIOUS
<1>0. TypeInv'
  BY TypeInvStep DEF IInv
<1> USE <1>0, JobQueueAssumption DEF IInv, TypeInv, TypeOK, Busy, rows, dispatch, workers,
       Terminal, BeforeMark, Executing, Holds, Delivery, SingleDelivery, InQueue, Publishing
\* Delivery is about the status column, the list, and who holds what.
<1>a. ASSUME UNCHANGED <<status, queue, dispatch, wjob>> PROVE Delivery'
  BY <1>a
\* A worker may drop the job it holds, and may write the row of that job.
<1>b. ASSUME UNCHANGED <<status, queue, dispatch>>,
             \A v \in Worker : wjob'[v] \in {wjob[v], NoJob}
      PROVE  Delivery'
  BY <1>b
<1>c. ASSUME NEW w \in Worker, wjob[w] \in Job, UNCHANGED <<queue, dispatch, wjob>>,
             status'[wjob[w]] # "none",
             \A k \in Job \ {wjob[w]} : status'[k] = status[k]
      PROVE  Delivery'
  <2>1. ASSUME NEW j \in Job, InQueue(j)' \/ \E d \in Dispatcher : Publishing(d, j)'
        PROVE  status'[j] = "queued" /\ \A v \in Worker : ~Holds(v, j)'
    <3>1. status[j] = "queued" /\ \A v \in Worker : ~Holds(v, j)
      BY <1>c, <2>1
    <3> QED
      BY <1>c, <3>1
  <2>2. ASSUME NEW j \in Job, NEW v \in Worker, Holds(v, j)' PROVE status'[j] # "none"
    BY <1>c, <2>2
  <2>3. SingleDelivery'
    BY <1>c, <2>1
  <2> QED
    BY <2>2, <2>3
<1>1. ASSUME NEW d \in Dispatcher, NEW j \in Job, LookupMissing(d, j) PROVE Delivery'
  BY <1>1 DEF LookupMissing
<1>2. ASSUME NEW d \in Dispatcher, InsertJob(d) PROVE Delivery'
  BY <1>2 DEF InsertJob
<1>3. ASSUME NEW d \in Dispatcher, InsertConflict(d) PROVE Delivery'
  BY <1>3 DEF InsertConflict, DispatchEnds
<1>4. ASSUME NEW d \in Dispatcher, PublishJob(d) PROVE Delivery'
  <2>1. djob[d] \in Job /\ Publishing(d, djob[d])
    BY <1>4 DEF PublishJob, Publishing
  <2>2. Distinct(queue) /\ ~In(queue, djob[d]) /\ status[djob[d]] = "queued"
    BY <2>1 DEF Distinct, In
  <2>3. /\ Distinct(queue')
        /\ \A k \in Job : In(queue', k) => In(queue, k) \/ k = djob[d]
    BY <2>1, <2>2, Push, <1>4 DEF PublishJob
  <2> QED
    BY <2>1, <2>2, <2>3, <1>4 DEF PublishJob, DispatchEnds, Distinct, In
<1>5. ASSUME NEW d \in Dispatcher, DispatchFault(d) PROVE Delivery'
  BY <1>5 DEF DispatchFault, DispatchEnds
<1>6. ASSUME NEW w \in Worker, ClaimNext(w) PROVE Delivery'
  <2>1. Distinct(queue)
    BY DEF Distinct
  <2>2. /\ Head(queue) \in Job
        /\ In(queue, Head(queue))
        /\ Distinct(queue')
        /\ ~In(queue', Head(queue))
        /\ \A k \in Job : In(queue', k) => In(queue, k)
    BY <2>1, Pop, <1>6 DEF ClaimNext
  <2>3. /\ UNCHANGED <<status, dispatch>>
        /\ \A v \in Worker : wjob'[v] = IF v = w THEN Head(queue) ELSE wjob[v]
    BY <1>6 DEF ClaimNext
  <2>4. status[Head(queue)] = "queued" /\ \A d \in Dispatcher : ~Publishing(d, Head(queue))
    BY <2>2 DEF In
  <2>5. ASSUME NEW j \in Job, InQueue(j)' \/ \E d \in Dispatcher : Publishing(d, j)'
        PROVE  /\ j # Head(queue)
               /\ status'[j] = "queued"
               /\ \A v \in Worker : ~Holds(v, j)'
    <3>1. j # Head(queue) /\ (InQueue(j) \/ \E d \in Dispatcher : Publishing(d, j))
      BY <2>2, <2>3, <2>4, <2>5 DEF In
    <3> QED
      BY <2>3, <3>1
  <2>6. ASSUME NEW j \in Job, NEW d \in Dispatcher, Publishing(d, j)'
        PROVE  ~InQueue(j)' /\ \A e \in Dispatcher : Publishing(e, j)' => e = d
    <3>1. Publishing(d, j) /\ \A e \in Dispatcher : Publishing(e, j)' => Publishing(e, j)
      BY <2>3, <2>6
    <3>2. ~InQueue(j) /\ \A e \in Dispatcher : Publishing(e, j) => e = d
      BY <3>1
    <3>3. ~In(queue', j)
      BY <2>2, <3>2 DEF In
    <3> QED
      BY <3>1, <3>2, <3>3 DEF In
  <2>7. SingleDelivery'
    BY <2>2, <2>5, <2>6 DEF Distinct
  <2>8. ASSUME NEW j \in Job, NEW v \in Worker, Holds(v, j)' PROVE status'[j] # "none"
    BY <2>3, <2>4, <2>8
  <2> QED
    BY <2>7, <2>8
<1>7. ASSUME NEW w \in Worker, PollEmpty(w) PROVE Delivery'
  BY <1>a, <1>7 DEF PollEmpty
<1>8. ASSUME NEW w \in Worker, NEW j \in Job, SelectStale(w, j) PROVE Delivery'
  BY <1>8 DEF SelectStale, Reclaimable, At, Goto
<1>9. ASSUME NEW w \in Worker, SelectNone(w) PROVE Delivery'
  <2>1. \A v \in Worker : wjob'[v] \in {wjob[v], NoJob}
    BY <1>9 DEF SelectNone, CycleEnds
  <2> QED
    BY <1>b, <2>1, <1>9 DEF SelectNone
<1>10. ASSUME NEW w \in Worker, ReclaimJob(w) PROVE Delivery'
  <2>1. wjob[w] \in Job
    BY <1>10 DEF ReclaimJob, At
  <2> QED
    BY <1>c, <2>1, <1>10 DEF ReclaimJob
<1>11. ASSUME NEW w \in Worker, LoadJob(w) PROVE Delivery'
  BY <1>a, <1>11 DEF LoadJob
<1>12. ASSUME NEW w \in Worker, MarkProcessing(w) PROVE Delivery'
  <2>1. wjob[w] \in Job /\ status[wjob[w]] # "none"
    BY <1>12 DEF MarkProcessing, At
  <2>2. /\ status'[wjob[w]] # "none"
        /\ \A k \in Job \ {wjob[w]} : status'[k] = status[k]
    BY <1>12, <2>1 DEF MarkProcessing, Written
  <2> QED
    BY <1>c, <1>12, <2>1, <2>2 DEF MarkProcessing
<1>13. ASSUME NEW w \in Worker, LoadLease(w) PROVE Delivery'
  BY <1>a, <1>13 DEF LoadLease
<1>14. ASSUME NEW w \in Worker, AcquireLease(w) PROVE Delivery'
  BY <1>a, <1>14 DEF AcquireLease
<1>15. ASSUME NEW w \in Worker, LeaseConflict(w) PROVE Delivery'
  <2>1. \A v \in Worker : wjob'[v] \in {wjob[v], NoJob}
    BY <1>15 DEF LeaseConflict, CycleEnds
  <2> QED
    BY <1>b, <2>1, <1>15 DEF LeaseConflict
<1>16. ASSUME NEW w \in Worker, HandlerReturns(w) PROVE Delivery'
  BY <1>a, <1>16 DEF HandlerReturns
<1>17. ASSUME NEW w \in Worker, HandlerRaises(w) PROVE Delivery'
  BY <1>a, <1>17 DEF HandlerRaises
<1>18. ASSUME NEW w \in Worker, MarkCompleted(w) PROVE Delivery'
  <2>1. wjob[w] \in Job
    BY <1>18 DEF MarkCompleted, At
  <2> QED
    BY <1>c, <2>1, <1>18 DEF MarkCompleted, RecordOutcome
<1>19. ASSUME NEW w \in Worker, MarkFailed(w) PROVE Delivery'
  <2>1. wjob[w] \in Job
    BY <1>19 DEF MarkFailed, At
  <2> QED
    BY <1>c, <2>1, <1>19 DEF MarkFailed, RecordOutcome
<1>20. ASSUME NEW w \in Worker, ReleaseLease(w) PROVE Delivery'
  <2>1. \A v \in Worker : wjob'[v] \in {wjob[v], NoJob}
    BY <1>20 DEF ReleaseLease, CycleEnds
  <2> QED
    BY <1>b, <2>1, <1>20 DEF ReleaseLease
<1>21. ASSUME NEW w \in Worker, WorkerFault(w) PROVE Delivery'
  <2>1. \A v \in Worker : wjob'[v] \in {wjob[v], NoJob}
    BY <1>21 DEF WorkerFault, CycleEnds
  <2> QED
    BY <1>b, <2>1, <1>21 DEF WorkerFault
<1>22. ASSUME NEW j \in Job, Age(j) PROVE Delivery'
  BY <1>a, <1>22 DEF Age
<1>23. CASE UNCHANGED vars
  BY <1>a, <1>23 DEF vars
<1> QED
  BY <1>1, <1>2, <1>3, <1>4, <1>5, <1>6, <1>7, <1>8, <1>9, <1>10, <1>11, <1>12, <1>13,
     <1>14, <1>15, <1>16, <1>17, <1>18, <1>19, <1>20, <1>21, <1>22, <1>23
  DEF Next, DispatchProceeds, WorkerProceeds

LEMMA ExecutionStep == IInv /\ [Next]_vars => Execution'
<1> SUFFICES ASSUME IInv, [Next]_vars PROVE Execution'
  OBVIOUS
<1>0. TypeInv'
  BY TypeInvStep DEF IInv
<1> USE <1>0, JobQueueAssumption DEF IInv, TypeInv, TypeOK, Busy, rows, dispatch, workers, history,
       Terminal, BeforeMark, Executing, Holds, Delivery, SingleDelivery, InQueue, Publishing,
       Execution, Fresh, InStep
<1>1. ASSUME NEW d \in Dispatcher, NEW j \in Job, LookupMissing(d, j) PROVE Execution'
  BY <1>1 DEF LookupMissing
<1>2. ASSUME NEW d \in Dispatcher, InsertJob(d) PROVE Execution'
  BY <1>2 DEF InsertJob
<1>3. ASSUME NEW d \in Dispatcher, InsertConflict(d) PROVE Execution'
  BY <1>3 DEF InsertConflict, DispatchEnds
<1>4. ASSUME NEW d \in Dispatcher, PublishJob(d) PROVE Execution'
  BY <1>4 DEF PublishJob, DispatchEnds
<1>5. ASSUME NEW d \in Dispatcher, DispatchFault(d) PROVE Execution'
  BY <1>5 DEF DispatchFault, DispatchEnds
<1>6. ASSUME NEW w \in Worker, ClaimNext(w) PROVE Execution'
  BY <1>6 DEF ClaimNext, At, Goto
<1>7. ASSUME NEW w \in Worker, PollEmpty(w) PROVE Execution'
  BY <1>7 DEF PollEmpty, At, Goto
<1>8. ASSUME NEW w \in Worker, NEW j \in Job, SelectStale(w, j) PROVE Execution'
  BY <1>8 DEF SelectStale, Reclaimable, At, Goto
<1>9. ASSUME NEW w \in Worker, SelectNone(w) PROVE Execution'
  BY <1>9 DEF SelectNone, CycleEnds, At, Goto
<1>10. ASSUME NEW w \in Worker, ReclaimJob(w) PROVE Execution'
  BY <1>10 DEF ReclaimJob, At, Goto
<1>11. ASSUME NEW w \in Worker, LoadJob(w) PROVE Execution'
  BY <1>11 DEF LoadJob, At, Goto
<1>12. ASSUME NEW w \in Worker, MarkProcessing(w) PROVE Execution'
  BY <1>12 DEF MarkProcessing, Written, At, Goto
<1>13. ASSUME NEW w \in Worker, LoadLease(w) PROVE Execution'
  BY <1>13 DEF LoadLease, At, Goto
<1>14. ASSUME NEW w \in Worker, AcquireLease(w) PROVE Execution'
  BY <1>14 DEF AcquireLease, Written, At, Goto
<1>15. ASSUME NEW w \in Worker, LeaseConflict(w) PROVE Execution'
  BY <1>15 DEF LeaseConflict, CycleEnds, At, Goto
<1>16. ASSUME NEW w \in Worker, HandlerReturns(w) PROVE Execution'
  BY <1>16 DEF HandlerReturns, At, Goto
<1>17. ASSUME NEW w \in Worker, HandlerRaises(w) PROVE Execution'
  BY <1>17 DEF HandlerRaises, At, Goto
<1>18. ASSUME NEW w \in Worker, MarkCompleted(w) PROVE Execution'
  BY <1>18 DEF MarkCompleted, RecordOutcome, At, Goto
<1>19. ASSUME NEW w \in Worker, MarkFailed(w) PROVE Execution'
  BY <1>19 DEF MarkFailed, RecordOutcome, At, Goto
<1>20. ASSUME NEW w \in Worker, ReleaseLease(w) PROVE Execution'
  BY <1>20 DEF ReleaseLease, CycleEnds, At, Goto
<1>21. ASSUME NEW w \in Worker, WorkerFault(w) PROVE Execution'
  BY <1>21 DEF WorkerFault, CycleEnds, At, Goto
<1>22. ASSUME NEW j \in Job, Age(j) PROVE Execution'
  BY <1>22 DEF Age
<1>23. CASE UNCHANGED vars
  BY <1>23 DEF vars
<1> QED
  BY <1>1, <1>2, <1>3, <1>4, <1>5, <1>6, <1>7, <1>8, <1>9, <1>10, <1>11, <1>12, <1>13,
     <1>14, <1>15, <1>16, <1>17, <1>18, <1>19, <1>20, <1>21, <1>22, <1>23
  DEF Next, DispatchProceeds, WorkerProceeds

LEMMA IInvStep == IInv /\ [Next]_vars => IInv'
BY TypeInvStep, DeliveryStep, ExecutionStep DEF IInv

LEMMA Inductive == Spec => []IInv
BY IInvInit, IInvStep, PTL DEF Spec

-----------------------------------------------------------------------------
(* What the inductive invariant gives *)

\* No interleaving of enqueue calls, retries, claims, reclaims and faults lets
\* a worker hold an id without a row.
THEOREM AlwaysPersisted == Spec => []ClaimedIsPersisted
<1>1. IInv => ClaimedIsPersisted
  BY DEF IInv, Delivery, SingleDelivery, ClaimedIsPersisted
<1> QED
  BY <1>1, Inductive, PTL

\* The id of a job is published once, for any number of concurrent callers.
THEOREM DeliveredOnce == Spec => []SingleDelivery
<1>1. IInv => SingleDelivery
  BY DEF IInv, Delivery
<1> QED
  BY <1>1, Inductive, PTL

\* A job that was never taken for stale is executed by one worker, under an
\* active lease, for any number of workers and crashes.
THEOREM ExecutedByOne == Spec => []ExclusiveExecution
<1>1. IInv => ExclusiveExecution
  BY DEF IInv, TypeInv, Execution, InStep, ExclusiveExecution
<1> QED
  BY <1>1, Inductive, PTL

\* A recorded outcome is what the handler did.
THEOREM OutcomesTrue == Spec => []OutcomeTruthful
<1>1. IInv => OutcomeTruthful
  BY DEF IInv, TypeInv, Execution, OutcomeTruthful
<1> QED
  BY <1>1, Inductive, PTL

\* The outcome of a job that was never taken for stale is final when recorded.
THEOREM OutcomesSettle == Spec => []OutcomeSettles
<1>1. IInv => OutcomeSettles
  <2> SUFFICES ASSUME IInv, NEW j \in Job \ reclaimed, status[j] \in Terminal,
                      NEW w \in Worker, Holds(w, j)
               PROVE  wpc[w] = "releasing"
    BY DEF OutcomeSettles, Settled
  <2>1. InStep(w, j)
    BY DEF IInv, Execution
  <2>2. wpc[w] \in WorkerStep /\ wpc[w] \notin {"idle", "scanning"}
    BY DEF IInv, TypeInv, TypeOK, Busy, Holds
  <2> QED
    BY <2>1, <2>2 DEF InStep, Terminal, WorkerStep, BeforeMark, Executing
<1> QED
  BY <1>1, Inductive, PTL

LEMMA SettledStep == IInv /\ [Next]_vars => \A i \in Job : Settled(i) => Settled(i)'
<1> SUFFICES ASSUME IInv, [Next]_vars, NEW i \in Job, Settled(i) PROVE Settled(i)'
  OBVIOUS
<1>0. TypeInv'
  BY TypeInvStep DEF IInv
<1> USE <1>0, JobQueueAssumption DEF IInv, TypeInv, TypeOK, Busy, rows, dispatch, workers,
       Terminal, BeforeMark, Executing, Holds, Delivery, SingleDelivery, InQueue, Settled
<1>1. ASSUME NEW d \in Dispatcher, NEW j \in Job, LookupMissing(d, j) PROVE Settled(i)'
  BY <1>1 DEF LookupMissing
<1>2. ASSUME NEW d \in Dispatcher, InsertJob(d) PROVE Settled(i)'
  BY <1>2 DEF InsertJob
<1>3. ASSUME NEW d \in Dispatcher, InsertConflict(d) PROVE Settled(i)'
  BY <1>3 DEF InsertConflict, DispatchEnds
<1>4. ASSUME NEW d \in Dispatcher, PublishJob(d) PROVE Settled(i)'
  BY <1>4 DEF PublishJob, DispatchEnds
<1>5. ASSUME NEW d \in Dispatcher, DispatchFault(d) PROVE Settled(i)'
  BY <1>5 DEF DispatchFault, DispatchEnds
<1>6. ASSUME NEW w \in Worker, ClaimNext(w) PROVE Settled(i)'
  <2>1. Head(queue) \in Job /\ In(queue, Head(queue))
    BY Pop, <1>6 DEF ClaimNext, Distinct
  <2> QED
    BY <2>1, <1>6 DEF ClaimNext, At, Goto, In
<1>7. ASSUME NEW w \in Worker, PollEmpty(w) PROVE Settled(i)'
  BY <1>7 DEF PollEmpty, At, Goto
<1>8. ASSUME NEW w \in Worker, NEW j \in Job, SelectStale(w, j) PROVE Settled(i)'
  BY <1>8 DEF SelectStale, Reclaimable, At, Goto
<1>9. ASSUME NEW w \in Worker, SelectNone(w) PROVE Settled(i)'
  BY <1>9 DEF SelectNone, CycleEnds, At, Goto
<1>10. ASSUME NEW w \in Worker, ReclaimJob(w) PROVE Settled(i)'
  BY <1>10 DEF ReclaimJob, At, Goto
<1>11. ASSUME NEW w \in Worker, LoadJob(w) PROVE Settled(i)'
  BY <1>11 DEF LoadJob, At, Goto
<1>12. ASSUME NEW w \in Worker, MarkProcessing(w) PROVE Settled(i)'
  BY <1>12 DEF MarkProcessing, Written, At, Goto
<1>13. ASSUME NEW w \in Worker, LoadLease(w) PROVE Settled(i)'
  BY <1>13 DEF LoadLease, At, Goto
<1>14. ASSUME NEW w \in Worker, AcquireLease(w) PROVE Settled(i)'
  BY <1>14 DEF AcquireLease, Written, At, Goto
<1>15. ASSUME NEW w \in Worker, LeaseConflict(w) PROVE Settled(i)'
  BY <1>15 DEF LeaseConflict, CycleEnds, At, Goto
<1>16. ASSUME NEW w \in Worker, HandlerReturns(w) PROVE Settled(i)'
  BY <1>16 DEF HandlerReturns, At, Goto
<1>17. ASSUME NEW w \in Worker, HandlerRaises(w) PROVE Settled(i)'
  BY <1>17 DEF HandlerRaises, At, Goto
<1>18. ASSUME NEW w \in Worker, MarkCompleted(w) PROVE Settled(i)'
  BY <1>18 DEF MarkCompleted, RecordOutcome, At, Goto
<1>19. ASSUME NEW w \in Worker, MarkFailed(w) PROVE Settled(i)'
  BY <1>19 DEF MarkFailed, RecordOutcome, At, Goto
<1>20. ASSUME NEW w \in Worker, ReleaseLease(w) PROVE Settled(i)'
  BY <1>20 DEF ReleaseLease, CycleEnds, At, Goto
<1>21. ASSUME NEW w \in Worker, WorkerFault(w) PROVE Settled(i)'
  BY <1>21 DEF WorkerFault, CycleEnds, At, Goto
<1>22. ASSUME NEW j \in Job, Age(j) PROVE Settled(i)'
  BY <1>22 DEF Age
<1>23. CASE UNCHANGED vars
  BY <1>23 DEF vars
<1> QED
  BY <1>1, <1>2, <1>3, <1>4, <1>5, <1>6, <1>7, <1>8, <1>9, <1>10, <1>11, <1>12, <1>13,
     <1>14, <1>15, <1>16, <1>17, <1>18, <1>19, <1>20, <1>21, <1>22, <1>23
  DEF Next, DispatchProceeds, WorkerProceeds

\* Once settled a job is never executed again and its outcome never rewritten,
\* also when it had been reclaimed.
THEOREM SettledStays == Spec => SettledForGood
<1>1. IInv /\ [Next]_vars => [\A j \in Job : Settled(j) => Settled(j)']_vars
  BY SettledStep
<1> QED
  BY <1>1, Inductive, PTL DEF Spec, SettledForGood

-----------------------------------------------------------------------------
(* max_attempts *)

\* The id of a job is claimed from the list before its first attempt only.
FirstAttempt ==
    \A j \in Job :
        status[j] = "none" \/ InQueue(j) \/ (\E d \in Dispatcher : Publishing(d, j))
        => attempt[j] = 0

LEMMA FirstAttemptInit == Init => FirstAttempt
BY DEF Init, FirstAttempt

LEMMA FirstAttemptStep == IInv /\ FirstAttempt /\ [Next]_vars => FirstAttempt'
<1> SUFFICES ASSUME IInv, FirstAttempt, [Next]_vars PROVE FirstAttempt'
  OBVIOUS
<1>0. IInv'
  BY IInvStep
<1>t. TypeInv /\ Delivery
  BY DEF IInv
<1> USE DEF FirstAttempt, InQueue, Publishing, rows, dispatch, workers, history
\* Any step after which no more ids wait, and that leaves the counts alone.
<1>a. ASSUME UNCHANGED <<status, queue, dispatch, attempt>> PROVE FirstAttempt'
  BY <1>a
\* A worker writes the row of the job it holds, whose id is in no list.
<1>b. ASSUME NEW w \in Worker, wjob[w] \in Job, wjob'[w] = wjob[w],
             UNCHANGED <<queue, dispatch>>,
             \A k \in Job \ {wjob[w]} : status'[k] = status[k] /\ attempt'[k] = attempt[k]
      PROVE  FirstAttempt'
  <2>1. /\ status'[wjob[w]] # "none"
        /\ ~InQueue(wjob[w])'
        /\ \A d \in Dispatcher : ~Publishing(d, wjob[w])'
    BY <1>0, <1>b DEF IInv, Delivery, SingleDelivery, Holds
  <2> QED
    BY <1>b, <2>1
<1>1. ASSUME NEW d \in Dispatcher, NEW j \in Job, LookupMissing(d, j) PROVE FirstAttempt'
  BY <1>1, <1>t DEF LookupMissing, TypeInv, TypeOK
<1>2. ASSUME NEW d \in Dispatcher, InsertJob(d) PROVE FirstAttempt'
  BY <1>2, <1>t DEF InsertJob, TypeInv, TypeOK, Busy
<1>3. ASSUME NEW d \in Dispatcher, InsertConflict(d) PROVE FirstAttempt'
  BY <1>3, <1>t DEF InsertConflict, DispatchEnds, TypeInv, TypeOK
<1>4. ASSUME NEW d \in Dispatcher, PublishJob(d) PROVE FirstAttempt'
  <2>1. djob[d] \in Job /\ attempt[djob[d]] = 0 /\ Distinct(queue) /\ ~In(queue, djob[d])
    BY <1>4, <1>t DEF PublishJob, TypeInv, Busy, Delivery, SingleDelivery, Distinct, In
  <2>2. \A k \in Job : In(queue', k) => In(queue, k) \/ k = djob[d]
    BY <1>4, <1>t, <2>1, Push DEF PublishJob, TypeInv, TypeOK
  <2> QED
    BY <1>4, <1>t, <2>1, <2>2 DEF PublishJob, DispatchEnds, In, TypeInv, TypeOK
<1>5. ASSUME NEW d \in Dispatcher, DispatchFault(d) PROVE FirstAttempt'
  BY <1>5, <1>t DEF DispatchFault, DispatchEnds, TypeInv, TypeOK
<1>6. ASSUME NEW w \in Worker, ClaimNext(w) PROVE FirstAttempt'
  <2>1. \A k \in Job : In(queue', k) => In(queue, k)
    BY <1>6, <1>t, Pop DEF ClaimNext, Distinct, Delivery, SingleDelivery, TypeInv, TypeOK
  <2> QED
    BY <1>6, <2>1 DEF ClaimNext, In
<1>7. ASSUME NEW w \in Worker, PollEmpty(w) PROVE FirstAttempt'
  BY <1>a, <1>7 DEF PollEmpty
<1>8. ASSUME NEW w \in Worker, NEW j \in Job, SelectStale(w, j) PROVE FirstAttempt'
  BY <1>a, <1>8 DEF SelectStale
<1>9. ASSUME NEW w \in Worker, SelectNone(w) PROVE FirstAttempt'
  BY <1>a, <1>9 DEF SelectNone
<1>10. ASSUME NEW w \in Worker, ReclaimJob(w) PROVE FirstAttempt'
  BY <1>b, <1>10, <1>t DEF ReclaimJob, At, TypeInv, TypeOK, Busy
<1>11. ASSUME NEW w \in Worker, LoadJob(w) PROVE FirstAttempt'
  BY <1>a, <1>11 DEF LoadJob
<1>12. ASSUME NEW w \in Worker, MarkProcessing(w) PROVE FirstAttempt'
  BY <1>b, <1>12, <1>t DEF MarkProcessing, At, TypeInv, TypeOK, Busy
<1>13. ASSUME NEW w \in Worker, LoadLease(w) PROVE FirstAttempt'
  BY <1>a, <1>13 DEF LoadLease
<1>14. ASSUME NEW w \in Worker, AcquireLease(w) PROVE FirstAttempt'
  BY <1>a, <1>14 DEF AcquireLease
<1>15. ASSUME NEW w \in Worker, LeaseConflict(w) PROVE FirstAttempt'
  BY <1>a, <1>15 DEF LeaseConflict
<1>16. ASSUME NEW w \in Worker, HandlerReturns(w) \/ HandlerRaises(w) PROVE FirstAttempt'
  BY <1>a, <1>16 DEF HandlerReturns, HandlerRaises
<1>17. ASSUME NEW w \in Worker, MarkCompleted(w) \/ MarkFailed(w) PROVE FirstAttempt'
  BY <1>b, <1>17, <1>t
  DEF MarkCompleted, MarkFailed, RecordOutcome, At, TypeInv, TypeOK, Busy
<1>18. ASSUME NEW w \in Worker, ReleaseLease(w) \/ WorkerFault(w) PROVE FirstAttempt'
  BY <1>a, <1>18 DEF ReleaseLease, WorkerFault
<1>19. ASSUME NEW j \in Job, Age(j) PROVE FirstAttempt'
  BY <1>a, <1>19 DEF Age
<1>20. CASE UNCHANGED vars
  BY <1>a, <1>20 DEF vars
<1> QED
  BY <1>1, <1>2, <1>3, <1>4, <1>5, <1>6, <1>7, <1>8, <1>9, <1>10, <1>11, <1>12, <1>13,
     <1>14, <1>15, <1>16, <1>17, <1>18, <1>19, <1>20
  DEF Next, DispatchProceeds, WorkerProceeds

\* Neither the list nor the scan offers an exhausted job, and a count is written
\* only by a worker that was on its way.
LEMMA ExhaustedStep ==
    ASSUME IInv, FirstAttempt, [Next]_vars, NEW i \in Job, Exhausted(i)
    PROVE  Exhausted(i)'
<1>t. TypeInv
  BY DEF IInv
<1> USE <1>t, JobQueueAssumption DEF Exhausted, Holds, BeforeMark, TypeInv, TypeOK, Busy,
       rows, dispatch, workers, history
\* A step of worker w that leaves the counts alone and does not set out for i.
<1>a. ASSUME NEW w \in Worker, UNCHANGED attempt,
             \A v \in Worker \ {w} : wpc'[v] = wpc[v] /\ wjob'[v] = wjob[v],
             wjob'[w] = i => wpc'[w] \notin {"reclaiming"} \cup BeforeMark
      PROVE  Exhausted(i)'
  BY <1>a
<1>1. ASSUME NEW d \in Dispatcher,
             (\E j \in Job : LookupMissing(d, j)) \/ DispatchProceeds(d) \/ DispatchFault(d)
      PROVE  Exhausted(i)'
  BY <1>1 DEF LookupMissing, DispatchProceeds, InsertJob, InsertConflict, PublishJob, DispatchFault
<1>2. ASSUME NEW w \in Worker, ClaimNext(w) PROVE Exhausted(i)'
  <2>1. Head(queue) \in Job /\ In(queue, Head(queue))
    BY Pop, <1>2 DEF ClaimNext, Distinct, IInv, Delivery, SingleDelivery
  <2>2. Head(queue) # i
    BY <2>1 DEF FirstAttempt, InQueue, In
  <2> QED
    BY <1>2, <2>2 DEF ClaimNext, Goto
<1>3. ASSUME NEW w \in Worker, PollEmpty(w) PROVE Exhausted(i)'
  BY <1>3 DEF PollEmpty, Goto, At
<1>4. ASSUME NEW w \in Worker, NEW j \in Job, SelectStale(w, j) PROVE Exhausted(i)'
  BY <1>4 DEF SelectStale, Reclaimable, Goto
<1>5. ASSUME NEW w \in Worker, SelectNone(w) PROVE Exhausted(i)'
  BY <1>5 DEF SelectNone, CycleEnds, Goto
<1>6. ASSUME NEW w \in Worker, ReclaimJob(w) PROVE Exhausted(i)'
  BY <1>6 DEF ReclaimJob, At, Goto
<1>7. ASSUME NEW w \in Worker, LoadJob(w) PROVE Exhausted(i)'
  BY <1>7 DEF LoadJob, At, Goto
<1>8. ASSUME NEW w \in Worker, MarkProcessing(w) PROVE Exhausted(i)'
  <2>1. wjob[w] # i /\ attempt'[i] = attempt[i]
    BY <1>8 DEF MarkProcessing, At
  <2> QED
    BY <1>8, <2>1 DEF MarkProcessing, Goto
<1>9. ASSUME NEW w \in Worker, LoadLease(w) PROVE Exhausted(i)'
  BY <1>9 DEF LoadLease, Goto
<1>10. ASSUME NEW w \in Worker, AcquireLease(w) PROVE Exhausted(i)'
  BY <1>10 DEF AcquireLease, Goto
<1>11. ASSUME NEW w \in Worker, LeaseConflict(w) PROVE Exhausted(i)'
  BY <1>11 DEF LeaseConflict, CycleEnds, Goto
<1>12. ASSUME NEW w \in Worker, HandlerReturns(w) \/ HandlerRaises(w) PROVE Exhausted(i)'
  BY <1>12 DEF HandlerReturns, HandlerRaises, Goto
<1>13. ASSUME NEW w \in Worker, MarkCompleted(w) \/ MarkFailed(w) PROVE Exhausted(i)'
  BY <1>13 DEF MarkCompleted, MarkFailed, RecordOutcome, Goto
<1>14. ASSUME NEW w \in Worker, ReleaseLease(w) \/ WorkerFault(w) PROVE Exhausted(i)'
  BY <1>14 DEF ReleaseLease, WorkerFault, CycleEnds, Goto
<1>15. ASSUME NEW j \in Job, Age(j) PROVE Exhausted(i)'
  BY <1>15 DEF Age
<1>16. CASE UNCHANGED vars
  BY <1>16 DEF vars
<1> QED
  BY <1>1, <1>2, <1>3, <1>4, <1>5, <1>6, <1>7, <1>8, <1>9, <1>10, <1>11, <1>12, <1>13,
     <1>14, <1>15, <1>16
  DEF Next, WorkerProceeds

\* Once its attempts are used up and nobody is on the way to one more, a job is
\* never taken again, for any number of workers and crashes and whatever updates
\* of the count were lost before.
THEOREM ExhaustedStays == Spec => ExhaustedForGood
<1>1. Init => IInv /\ FirstAttempt
  BY IInvInit, FirstAttemptInit
<1>2. IInv /\ FirstAttempt /\ [Next]_vars => IInv' /\ FirstAttempt'
  BY IInvStep, FirstAttemptStep
<1>3. IInv /\ FirstAttempt /\ [Next]_vars
      => [\A j \in Job : Exhausted(j) => Exhausted(j)']_vars
  BY ExhaustedStep
<1> QED
  BY <1>1, <1>2, <1>3, PTL DEF Spec, ExhaustedForGood

-----------------------------------------------------------------------------
(* JobQueue implements JobDelivery *)

Known == {j \in Job : status[j] # "none"}
Exec == [w \in Worker |-> IF At(w, "running") THEN wjob[w] ELSE NoJob]
Closed == {j \in Job : Settled(j)}

\* The handler of a job that was never reclaimed is called by the one worker
\* that holds it, after it marked the row.
FirstCall ==
    \A j \in Job \ reclaimed : j \in begun =>
        /\ status[j] \notin {"none", "queued"}
        /\ \A w \in Worker : Holds(w, j) => wpc[w] \notin BeforeMark \cup {"marked", "leasing"}

DInv == IInv /\ FirstCall

LEMMA FirstCallInit == Init => FirstCall
BY DEF Init, FirstCall

LEMMA FirstCallStep == IInv /\ FirstCall /\ [Next]_vars => FirstCall'
<1> SUFFICES ASSUME IInv, FirstCall, [Next]_vars PROVE FirstCall'
  OBVIOUS
<1>0. TypeInv'
  BY TypeInvStep DEF IInv
<1> USE <1>0, JobQueueAssumption DEF IInv, TypeInv, TypeOK, Busy, rows, dispatch, workers, history,
       BeforeMark, Executing, Holds, FirstCall
<1>1. ASSUME NEW d \in Dispatcher, NEW j \in Job, LookupMissing(d, j) PROVE FirstCall'
  BY <1>1 DEF LookupMissing
<1>2. ASSUME NEW d \in Dispatcher, InsertJob(d) PROVE FirstCall'
  BY <1>2 DEF InsertJob
<1>3. ASSUME NEW d \in Dispatcher, InsertConflict(d) PROVE FirstCall'
  BY <1>3 DEF InsertConflict, DispatchEnds
<1>4. ASSUME NEW d \in Dispatcher, PublishJob(d) PROVE FirstCall'
  BY <1>4 DEF PublishJob, DispatchEnds
<1>5. ASSUME NEW d \in Dispatcher, DispatchFault(d) PROVE FirstCall'
  BY <1>5 DEF DispatchFault, DispatchEnds
<1>6. ASSUME NEW w \in Worker, ClaimNext(w) PROVE FirstCall'
  <2>1. Head(queue) \in Job /\ In(queue, Head(queue))
    BY Pop, <1>6 DEF ClaimNext, Distinct, Delivery, SingleDelivery
  <2>2. status[Head(queue)] = "queued"
    BY <2>1 DEF Delivery, SingleDelivery, InQueue, In
  <2> QED
    BY <2>1, <2>2, <1>6 DEF ClaimNext, At, Goto
<1>7. ASSUME NEW w \in Worker, PollEmpty(w) PROVE FirstCall'
  BY <1>7 DEF PollEmpty, At, Goto
<1>8. ASSUME NEW w \in Worker, NEW j \in Job, SelectStale(w, j) PROVE FirstCall'
  BY <1>8 DEF SelectStale, At, Goto
<1>9. ASSUME NEW w \in Worker, SelectNone(w) PROVE FirstCall'
  BY <1>9 DEF SelectNone, CycleEnds, At, Goto
<1>10. ASSUME NEW w \in Worker, ReclaimJob(w) PROVE FirstCall'
  <2>1. wjob[w] \in reclaimed
    BY <1>10 DEF ReclaimJob, At, Execution
  <2> QED
    BY <2>1, <1>10 DEF ReclaimJob, At, Goto
<1>11. ASSUME NEW w \in Worker, LoadJob(w) PROVE FirstCall'
  BY <1>11 DEF LoadJob, At, Goto
<1>12. ASSUME NEW w \in Worker, MarkProcessing(w) PROVE FirstCall'
  BY <1>12 DEF MarkProcessing, Written, At, Goto
<1>13. ASSUME NEW w \in Worker, LoadLease(w) PROVE FirstCall'
  BY <1>13 DEF LoadLease, At, Goto
<1>14. ASSUME NEW w \in Worker, AcquireLease(w) PROVE FirstCall'
  <2>1. wjob[w] \notin reclaimed => /\ status[wjob[w]] = "processing"
                                    /\ \A v \in Worker : Holds(v, wjob[w]) => v = w
    BY <1>14 DEF AcquireLease, At, Execution, InStep
  <2> QED
    BY <2>1, <1>14 DEF AcquireLease, At, Goto
<1>15. ASSUME NEW w \in Worker, LeaseConflict(w) PROVE FirstCall'
  BY <1>15 DEF LeaseConflict, CycleEnds, At, Goto
<1>16. ASSUME NEW w \in Worker, HandlerReturns(w) PROVE FirstCall'
  BY <1>16 DEF HandlerReturns, At, Goto
<1>17. ASSUME NEW w \in Worker, HandlerRaises(w) PROVE FirstCall'
  BY <1>17 DEF HandlerRaises, At, Goto
<1>18. ASSUME NEW w \in Worker, MarkCompleted(w) PROVE FirstCall'
  BY <1>18 DEF MarkCompleted, RecordOutcome, At, Goto
<1>19. ASSUME NEW w \in Worker, MarkFailed(w) PROVE FirstCall'
  BY <1>19 DEF MarkFailed, RecordOutcome, At, Goto
<1>20. ASSUME NEW w \in Worker, ReleaseLease(w) PROVE FirstCall'
  BY <1>20 DEF ReleaseLease, CycleEnds, At, Goto
<1>21. ASSUME NEW w \in Worker, WorkerFault(w) PROVE FirstCall'
  BY <1>21 DEF WorkerFault, CycleEnds, At, Goto
<1>22. ASSUME NEW j \in Job, Age(j) PROVE FirstCall'
  BY <1>22 DEF Age
<1>23. CASE UNCHANGED vars
  BY <1>23 DEF vars
<1> QED
  BY <1>1, <1>2, <1>3, <1>4, <1>5, <1>6, <1>7, <1>8, <1>9, <1>10, <1>11, <1>12, <1>13,
     <1>14, <1>15, <1>16, <1>17, <1>18, <1>19, <1>20, <1>21, <1>22, <1>23
  DEF Next, DispatchProceeds, WorkerProceeds

\* The five ways the mapped state can move.
LEMMA MapsToStutter ==
    ASSUME UNCHANGED <<Known, begun, reclaimed, Exec, Closed>>
    PROVE  [Delivered!Next]_(Delivered!vars)
BY DEF Delivered!vars, Known, Exec, Closed

LEMMA MapsToEnqueue ==
    ASSUME NEW j \in Job, j \notin Known, Known' = Known \cup {j},
           UNCHANGED <<begun, reclaimed, Exec, Closed>>
    PROVE  [Delivered!Next]_(Delivered!vars)
BY DEF Delivered!Next, Delivered!Enqueue, Known, Exec, Closed

LEMMA MapsToSuspect ==
    ASSUME NEW j \in Job, j \in Known \ Closed, reclaimed' = reclaimed \cup {j},
           UNCHANGED <<Known, begun, Exec, Closed>>
    PROVE  [Delivered!Next]_(Delivered!vars)
BY DEF Delivered!Next, Delivered!Suspect, Known, Exec, Closed

LEMMA MapsToBegin ==
    ASSUME NEW w \in Worker, NEW j \in Job, j \in Known \ Closed,
           j \in begun => j \in reclaimed,
           Exec[w] = NoJob, Exec' = [Exec EXCEPT ![w] = j], begun' = begun \cup {j},
           UNCHANGED <<Known, reclaimed, Closed>>
    PROVE  [Delivered!Next]_(Delivered!vars)
BY DEF Delivered!Next, Delivered!Begin, Known, Exec, Closed

LEMMA MapsToEnd ==
    ASSUME NEW w \in Worker, Exec[w] # NoJob, Exec' = [Exec EXCEPT ![w] = NoJob],
           \/ Closed' = Closed
           \/ Closed' = Closed \cup {Exec[w]} /\ \A v \in Worker \ {w} : Exec[v] # Exec[w],
           UNCHANGED <<Known, begun, reclaimed>>
    PROVE  [Delivered!Next]_(Delivered!vars)
BY DEF Delivered!Next, Delivered!End, Delivered!Alone, Known, Exec, Closed

LEMMA MapsToClose ==
    ASSUME NEW j \in Job, j \in Known \ Closed, \A w \in Worker : Exec[w] # j,
           Closed' = Closed \cup {j}, UNCHANGED <<Known, begun, reclaimed, Exec>>
    PROVE  [Delivered!Next]_(Delivered!vars)
BY DEF Delivered!Next, Delivered!Close, Known, Exec, Closed

\* A worker's step: it leaves the other workers alone, and every row but that
\* of the job it holds.
WorkerStepBy(w) ==
    /\ \A v \in Worker \ {w} : wpc'[v] = wpc[v] /\ wjob'[v] = wjob[v]
    /\ \A k \in Job \ {wjob[w]} : status'[k] = status[k]
    /\ wjob[w] \in Job => status'[wjob[w]] # "none"

\* It settles no job but the one it holds, and that one only when every other
\* worker that holds it is past its handler.
LEMMA WorkerCloses ==
    ASSUME IInv, [Next]_vars, NEW w \in Worker, WorkerStepBy(w)
    PROVE  /\ Known' = Known
           /\ \/ Closed' = Closed
              \/ /\ wjob[w] \in Known \ Closed
                 /\ Closed' = Closed \cup {wjob[w]}
                 /\ \A v \in Worker \ {w} : Exec[v] # wjob[w]
<1>1. \A j \in Job, v \in Worker : wjob[v] = j => status[j] # "none"
  BY DEF IInv, Delivery, Holds
<1>2. Known' = Known
  BY <1>1 DEF Known, WorkerStepBy
<1>3. Closed \subseteq Closed'
  BY SettledStep DEF Closed
<1>4. \A i \in Job \ {wjob[w]} : Settled(i)' => Settled(i)
  BY DEF WorkerStepBy, Settled, Holds
<1>5. ASSUME NEW j \in Job, j = wjob[w], Settled(j)', ~Settled(j)
      PROVE  /\ j \in Known \ Closed
             /\ Closed' = Closed \cup {j}
             /\ \A v \in Worker \ {w} : Exec[v] # j
  <2>1. j \in Known
    BY <1>1, <1>5 DEF Known
  <2>2. j \notin Closed /\ Closed' = Closed \cup {j}
    BY <1>3, <1>4, <1>5 DEF Closed
  <2>3. ASSUME NEW v \in Worker \ {w}, Exec[v] = j PROVE FALSE
    <3>1. wjob[v] = j /\ wpc[v] = "running"
      BY <1>5, <2>3, JobQueueAssumption DEF Exec, At
    <3>2. wjob'[v] = j /\ wpc'[v] = "running"
      BY <3>1 DEF WorkerStepBy
    <3>3. \A u \in Worker : wjob'[u] = j => wpc'[u] = "releasing"
      BY <1>5 DEF Settled, Holds
    <3> QED
      BY <3>2, <3>3
  <2> QED
    BY <2>1, <2>2, <2>3
<1>6. CASE \A j \in Job : Settled(j)' => Settled(j)
  BY <1>2, <1>3, <1>6 DEF Closed
<1>7. CASE \E j \in Job : Settled(j)' /\ ~Settled(j)
  BY <1>2, <1>4, <1>5, <1>7
<1> QED
  BY <1>6, <1>7

\* A worker's step outside its handler closes the job it holds, or is not seen.
LEMMA WorkerQuiet ==
    ASSUME IInv, [Next]_vars, NEW w \in Worker, WorkerStepBy(w),
           wpc[w] # "running", wpc'[w] # "running", UNCHANGED <<begun, reclaimed>>
    PROVE  [Delivered!Next]_(Delivered!vars)
<1>1. Exec' = Exec
  BY DEF Exec, At, WorkerStepBy
<1>2. CASE Closed' = Closed
  BY <1>1, <1>2, WorkerCloses, MapsToStutter
<1>3. CASE Closed' # Closed
  <2>1. /\ Known' = Known
        /\ wjob[w] \in Known \ Closed
        /\ Closed' = Closed \cup {wjob[w]}
        /\ \A v \in Worker \ {w} : Exec[v] # wjob[w]
    BY <1>3, WorkerCloses
  <2>2. wjob[w] \in Job /\ Exec[w] # wjob[w]
    BY <2>1, JobQueueAssumption DEF Known, Exec, At
  <2> QED
    BY <1>1, <2>1, <2>2, MapsToClose
<1> QED
  BY <1>2, <1>3

\* A step out of the handler ends the call.
LEMMA WorkerLeaves ==
    ASSUME IInv, [Next]_vars, NEW w \in Worker, WorkerStepBy(w),
           wpc[w] = "running", wpc'[w] # "running", UNCHANGED <<begun, reclaimed>>
    PROVE  [Delivered!Next]_(Delivered!vars)
<1>1. wjob[w] \in Job
  BY DEF IInv, TypeInv, Busy
<1>2. Exec[w] = wjob[w] /\ Exec[w] # NoJob
  BY <1>1, JobQueueAssumption DEF Exec, At
<1>3. Exec' = [Exec EXCEPT ![w] = NoJob]
  BY DEF Exec, At, WorkerStepBy
<1> QED
  BY <1>2, <1>3, WorkerCloses, MapsToEnd

\* A step that only touches dispatchers, the list, stale or unborn rows closes
\* nothing.
LEMMA OthersClose ==
    ASSUME UNCHANGED <<wpc, wjob>>,
           \A k \in Job : status'[k] # status[k] => /\ status[k] \notin Terminal
                                                  /\ status'[k] \notin Terminal
    PROVE  Closed' = Closed /\ Exec' = Exec
<1>1. \A k \in Job : Settled(k)' <=> Settled(k)
  BY DEF Settled, Holds
<1> QED
  BY <1>1 DEF Closed, Exec, At

LEMMA MapsStep == DInv /\ [Next]_vars => [Delivered!Next]_(Delivered!vars)
<1> SUFFICES ASSUME DInv, [Next]_vars PROVE [Delivered!Next]_(Delivered!vars)
  OBVIOUS
<1>0. IInv /\ FirstCall
  BY DEF DInv
<1>t. TypeInv
  BY <1>0 DEF IInv
<1>p. \A v \in Worker : wjob[v] \in Job => status[wjob[v]] # "none"
  BY <1>0 DEF IInv, Delivery, Holds
<1> USE DEF rows, dispatch, workers, history
<1>1. ASSUME NEW d \in Dispatcher, NEW j \in Job, LookupMissing(d, j) PROVE [Delivered!Next]_(Delivered!vars)
  BY <1>1, OthersClose, MapsToStutter DEF LookupMissing, Known
<1>2. ASSUME NEW d \in Dispatcher, InsertJob(d) PROVE [Delivered!Next]_(Delivered!vars)
  <2>1. djob[d] \in Job /\ status[djob[d]] = "none" /\ status' = [status EXCEPT ![djob[d]] = "queued"]
    BY <1>2, <1>t DEF InsertJob, TypeInv, Busy
  <2>2. djob[d] \notin Known /\ Known' = Known \cup {djob[d]}
    BY <2>1, <1>t DEF Known, TypeInv, TypeOK
  <2>3. Closed' = Closed /\ Exec' = Exec
    BY <1>2, <2>1, <1>t, OthersClose DEF InsertJob, TypeInv, TypeOK, Terminal
  <2> QED
    BY <1>2, <2>1, <2>2, <2>3, MapsToEnqueue DEF InsertJob
<1>3. ASSUME NEW d \in Dispatcher, InsertConflict(d) PROVE [Delivered!Next]_(Delivered!vars)
  BY <1>3, OthersClose, MapsToStutter DEF InsertConflict, Known
<1>4. ASSUME NEW d \in Dispatcher, PublishJob(d) PROVE [Delivered!Next]_(Delivered!vars)
  BY <1>4, OthersClose, MapsToStutter DEF PublishJob, Known
<1>5. ASSUME NEW d \in Dispatcher, DispatchFault(d) PROVE [Delivered!Next]_(Delivered!vars)
  BY <1>5, OthersClose, MapsToStutter DEF DispatchFault, Known
<1>w. ASSUME NEW w \in Worker,
             wpc' = [wpc EXCEPT ![w] = wpc'[w]],
             wjob' = [wjob EXCEPT ![w] = wjob'[w]],
             \/ status' = status
             \/ /\ wjob[w] \in Job
                /\ status' = [status EXCEPT ![wjob[w]] = status'[wjob[w]]]
                /\ status'[wjob[w]] # "none"
      PROVE  WorkerStepBy(w)
  BY <1>w, <1>p, <1>t DEF WorkerStepBy, TypeInv, TypeOK
<1>6. ASSUME NEW w \in Worker, ClaimNext(w) PROVE [Delivered!Next]_(Delivered!vars)
  BY <1>0, <1>t, <1>6, <1>w, WorkerQuiet DEF ClaimNext, At, Goto, TypeInv, TypeOK
<1>7. ASSUME NEW w \in Worker, PollEmpty(w) PROVE [Delivered!Next]_(Delivered!vars)
  BY <1>0, <1>t, <1>7, <1>w, WorkerQuiet DEF PollEmpty, At, Goto, TypeInv, TypeOK
<1>8. ASSUME NEW w \in Worker, NEW j \in Job, SelectStale(w, j) PROVE [Delivered!Next]_(Delivered!vars)
  <2>1. j \in Known \ Closed
    BY <1>8 DEF SelectStale, Reclaimable, Known, Closed, Settled, Terminal
  <2>2. WorkerStepBy(w)
    BY <1>8, <1>w, <1>t DEF SelectStale, Goto, TypeInv, TypeOK
  <2>3. wjob[w] \notin Job
    BY <1>8, <1>t DEF SelectStale, At, TypeInv, Busy
  <2>4. Known' = Known /\ Closed' = Closed
    BY <1>0, <2>2, <2>3, WorkerCloses DEF Known
  <2>5. Exec' = Exec
    BY <1>8, <1>t DEF SelectStale, At, Goto, Exec, TypeInv, TypeOK
  <2> QED
    BY <1>8, <2>1, <2>4, <2>5, MapsToSuspect DEF SelectStale
<1>9. ASSUME NEW w \in Worker, SelectNone(w) PROVE [Delivered!Next]_(Delivered!vars)
  BY <1>0, <1>t, <1>9, <1>w, WorkerQuiet DEF SelectNone, CycleEnds, At, Goto, TypeInv, TypeOK
<1>10. ASSUME NEW w \in Worker, ReclaimJob(w) PROVE [Delivered!Next]_(Delivered!vars)
  <2>1. wjob[w] \in Job
    BY <1>10, <1>t DEF ReclaimJob, At, TypeInv, Busy
  <2> QED
    BY <1>0, <1>t, <1>10, <2>1, <1>w, WorkerQuiet DEF ReclaimJob, At, Goto, TypeInv, TypeOK
<1>11. ASSUME NEW w \in Worker, LoadJob(w) PROVE [Delivered!Next]_(Delivered!vars)
  BY <1>0, <1>t, <1>11, <1>w, WorkerQuiet DEF LoadJob, At, Goto, TypeInv, TypeOK
<1>12. ASSUME NEW w \in Worker, MarkProcessing(w) PROVE [Delivered!Next]_(Delivered!vars)
  <2>1. wjob[w] \in Job
    BY <1>12, <1>t DEF MarkProcessing, At, TypeInv, Busy
  <2>2. /\ status' = [status EXCEPT ![wjob[w]] = status'[wjob[w]]]
        /\ status'[wjob[w]] # "none"
    BY <1>12, <2>1, <1>p, <1>t DEF MarkProcessing, Written, TypeInv, TypeOK
  <2>3. WorkerStepBy(w)
    BY <1>12, <2>1, <2>2, <1>w, <1>t DEF MarkProcessing, Goto, TypeInv, TypeOK
  <2> QED
    BY <1>0, <1>t, <1>12, <2>3, WorkerQuiet DEF MarkProcessing, At, Goto, TypeInv, TypeOK
<1>13. ASSUME NEW w \in Worker, LoadLease(w) PROVE [Delivered!Next]_(Delivered!vars)
  BY <1>0, <1>t, <1>13, <1>w, WorkerQuiet DEF LoadLease, At, Goto, TypeInv, TypeOK
<1>14. ASSUME NEW w \in Worker, AcquireLease(w) PROVE [Delivered!Next]_(Delivered!vars)
  <2>1. wjob[w] \in Job /\ wpc[w] = "leasing"
    BY <1>14, <1>t DEF AcquireLease, At, TypeInv, Busy
  <2>2. WorkerStepBy(w)
    BY <1>t, <1>14, <1>w DEF AcquireLease, Goto, TypeInv, TypeOK
  <2>3. CASE wjob[w] \notin Handled
    <3>1. wpc'[w] = "unhandled" /\ begun' = begun /\ reclaimed' = reclaimed
      BY <1>t, <1>14, <2>3 DEF AcquireLease, Goto, TypeInv, TypeOK
    <3> QED
      BY <1>0, <2>1, <2>2, <3>1, WorkerQuiet
  <2>4. CASE wjob[w] \in Handled
    <3>1. /\ wpc' = [wpc EXCEPT ![w] = "running"]
          /\ begun' = begun \cup {wjob[w]}
          /\ UNCHANGED <<reclaimed, status, wjob>>
      BY <1>14, <2>4 DEF AcquireLease, Goto
    <3>2. ~Settled(wjob[w]) /\ wjob[w] \in Known
      BY <1>p, <2>1 DEF Settled, Holds, Known
    <3>3. \A i \in Job : Settled(i)' <=> Settled(i)
      BY <1>t, <2>1, <3>1 DEF Settled, Holds, TypeInv, TypeOK
    <3>4. Closed' = Closed /\ Known' = Known /\ wjob[w] \in Known \ Closed
      BY <3>1, <3>2, <3>3 DEF Closed, Known
    <3>5. Exec[w] = NoJob /\ Exec' = [Exec EXCEPT ![w] = wjob[w]]
      BY <1>t, <2>1, <3>1 DEF Exec, At, TypeInv, TypeOK
    <3>6. wjob[w] \in begun => wjob[w] \in reclaimed
      BY <1>0, <2>1 DEF FirstCall, Holds
    <3> QED
      BY <2>1, <3>1, <3>4, <3>5, <3>6, MapsToBegin
  <2> QED
    BY <2>3, <2>4
<1>15. ASSUME NEW w \in Worker, LeaseConflict(w) PROVE [Delivered!Next]_(Delivered!vars)
  BY <1>0, <1>t, <1>15, <1>w, WorkerQuiet DEF LeaseConflict, CycleEnds, At, Goto, TypeInv, TypeOK
<1>16. ASSUME NEW w \in Worker, HandlerReturns(w) PROVE [Delivered!Next]_(Delivered!vars)
  BY <1>0, <1>t, <1>16, <1>w, WorkerLeaves DEF HandlerReturns, At, Goto, TypeInv, TypeOK
<1>17. ASSUME NEW w \in Worker, HandlerRaises(w) PROVE [Delivered!Next]_(Delivered!vars)
  BY <1>0, <1>t, <1>17, <1>w, WorkerLeaves DEF HandlerRaises, At, Goto, TypeInv, TypeOK
<1>18. ASSUME NEW w \in Worker, MarkCompleted(w) \/ MarkFailed(w) PROVE [Delivered!Next]_(Delivered!vars)
  <2>1. wjob[w] \in Job
    BY <1>18, <1>t DEF MarkCompleted, MarkFailed, At, TypeInv, Busy
  <2>2. /\ status' = [status EXCEPT ![wjob[w]] = status'[wjob[w]]]
        /\ status'[wjob[w]] # "none"
    BY <1>18, <2>1, <1>t DEF MarkCompleted, MarkFailed, RecordOutcome, TypeInv, TypeOK
  <2>3. WorkerStepBy(w)
    BY <1>18, <2>1, <2>2, <1>w, <1>t
    DEF MarkCompleted, MarkFailed, RecordOutcome, Goto, TypeInv, TypeOK
  <2> QED
    BY <1>0, <1>t, <1>18, <2>3, WorkerQuiet
    DEF MarkCompleted, MarkFailed, RecordOutcome, At, Goto, TypeInv, TypeOK
<1>19. ASSUME NEW w \in Worker, ReleaseLease(w) PROVE [Delivered!Next]_(Delivered!vars)
  BY <1>0, <1>t, <1>19, <1>w, WorkerQuiet DEF ReleaseLease, CycleEnds, At, Goto, TypeInv, TypeOK
<1>20. ASSUME NEW w \in Worker, WorkerFault(w) PROVE [Delivered!Next]_(Delivered!vars)
  <2>1. WorkerStepBy(w) /\ wpc'[w] = "idle"
    BY <1>t, <1>20, <1>w DEF WorkerFault, CycleEnds, Goto, TypeInv, TypeOK
  <2> QED
    BY <1>0, <1>20, <2>1, WorkerQuiet, WorkerLeaves DEF WorkerFault
<1>21. ASSUME NEW j \in Job, Age(j) PROVE [Delivered!Next]_(Delivered!vars)
  BY <1>21, OthersClose, MapsToStutter DEF Age, Known
<1>22. CASE UNCHANGED vars
  BY <1>22, OthersClose, MapsToStutter DEF vars, Known
<1> QED
  BY <1>1, <1>2, <1>3, <1>4, <1>5, <1>6, <1>7, <1>8, <1>9, <1>10, <1>11, <1>12, <1>13,
     <1>14, <1>15, <1>16, <1>17, <1>18, <1>19, <1>20, <1>21, <1>22
  DEF Next, DispatchProceeds, WorkerProceeds

LEMMA MapsInit == Init => Delivered!Init
BY JobQueueAssumption DEF Init, Delivered!Init, Settled, Terminal, At

\* The queue keeps every promise of JobDelivery: handlers are called for
\* enqueued jobs only, once unless a scan took the execution for dead, and
\* never after the job settled.
THEOREM KeepsDelivery == Spec => ImplementsJobDelivery
<1>1. Init => DInv
  BY IInvInit, FirstCallInit DEF DInv
<1>2. DInv /\ [Next]_vars => DInv'
  BY IInvStep, FirstCallStep DEF DInv
<1> QED
  BY <1>1, <1>2, MapsInit, MapsStep, PTL DEF Spec, ImplementsJobDelivery, Delivered!Spec
=============================================================================
