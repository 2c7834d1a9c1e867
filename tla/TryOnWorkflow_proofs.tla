------------------------ MODULE TryOnWorkflow_proofs ------------------------
(***************************************************************************)
(* Theorems about TryOnWorkflow for every set of executions and requests,  *)
(* every lifecycle mode, number of retries and of faults, with or without  *)
(* redelivery.                                                             *)
(***************************************************************************)
EXTENDS TryOnWorkflow, TLAPS

-----------------------------------------------------------------------------
(* Type correctness *)

\* The steps of a request and of an execution; a handler is called for a begun
\* job, which is in the mode of the route that enqueued it.
Shapes ==
    /\ \A c \in Client : pc[c] \in {"idle", "resolving", "saving"}
    /\ \A c \in Client : At(c, "saving") => out[c].then = "idle"
    /\ \A e \in Execution : At(e, "saving") =>
          out[e].then \in {"analyzing", "instructing", "generating", "returned"}
    /\ \A e \in Execution : executing[e] # Absent => executing[e] \in begun
    /\ mode["start"] \in StartMode \cup {Absent} /\ mode["generate"] \in GenerateMode \cup {Absent}

TypeInv == TypeOK /\ Shapes

LEMMA AggregateFields ==
    ASSUME NEW a \in Aggregate
    PROVE  /\ a.status \in Status /\ a.controls \in Controls /\ a.instruction \in Controls \cup {Absent}
           /\ Columns(a) \in [status : Status, controls : Controls]
           /\ \A x \in Status : [a EXCEPT !.status = x] \in Aggregate
           /\ \A x \in Status, y \in Controls : [a EXCEPT !.status = x, !.controls = y] \in Aggregate
           /\ \A x \in Controls : [a EXCEPT !.controls = x] \in Aggregate
           /\ \A x \in Controls : [a EXCEPT !.instruction = x] \in Aggregate
           /\ \A x \in Status : [a EXCEPT !.analyzed = TRUE, !.status = x] \in Aggregate
           /\ [a EXCEPT !.status = "accepted", !.result = Absent, !.error = FALSE] \in Aggregate
           /\ Failed(a) \in Aggregate /\ Completed(a) \in Aggregate
BY DEF Aggregate, Columns, Failed, Completed, Status, Final

LEMMA NothingInHand ==
    /\ Created \in Aggregate /\ NoSave \in Pending /\ NoRun \in Run
    /\ Created.status = "accepted" /\ NoSave.as = Created
<1>1. Created \in Aggregate /\ Created.status = "accepted"
  BY DEF Created, Aggregate, Status, Controls
<1>2. NoSave \in Pending
  BY <1>1, AggregateFields DEF NoSave, Pending, Step
<1>3. NoRun \in Run
  BY DEF NoRun, Run, Decision
<1> QED
  BY <1>1, <1>2, <1>3 DEF NoSave

LEMMA RunFields ==
    ASSUME NEW w \in Run
    PROVE  /\ w.generations \in Nat /\ w.repairs \in Nat /\ w.retries \in Nat
           /\ \A d \in Decision : [w EXCEPT !.generations = @ + 1, !.report = d] \in Run
           /\ \A d \in Decision : [w EXCEPT !.repairs = @ + 1, !.report = d] \in Run
           /\ [w EXCEPT !.retries = @ + 1] \in Run
<1>1. /\ w.generations \in Nat /\ w.repairs \in Nat /\ w.retries \in Nat
      /\ w.generations + 1 \in Nat /\ w.repairs + 1 \in Nat /\ w.retries + 1 \in Nat
  BY DEF Run
<1>2. \A x \in Nat, d \in Decision :
        [w EXCEPT !.generations = x, !.report = d] \in Run /\ [w EXCEPT !.repairs = x, !.report = d] \in Run
  BY DEF Run
<1>3. \A x \in Nat : [w EXCEPT !.retries = x] \in Run
  BY DEF Run
<1> QED
  BY <1>1, <1>2, <1>3

LEMMA SaveType ==
    ASSUME TypeOK, NEW e \in Writer, NEW as \in Aggregate, NEW next \in Step, Save(e, as, next)
    PROVE  /\ out' = [out EXCEPT ![e] = out'[e]] /\ out'[e].then = next /\ out'[e].as = as
           /\ out'[e].seen = Columns(record) /\ out' \in [Writer -> Pending]
           /\ pc' = [pc EXCEPT ![e] = "saving"]
<1>1. [as |-> as, seen |-> Columns(record), then |-> next] \in Pending
  BY AggregateFields DEF TypeOK, Pending
<1>2. out' = [out EXCEPT ![e] = [as |-> as, seen |-> Columns(record), then |-> next]]
      /\ pc' = [pc EXCEPT ![e] = "saving"]
  BY DEF Save, Goto
<1> QED
  BY <1>1, <1>2 DEF TypeOK

\* An execution that saves.
LEMMA SavesType ==
    ASSUME TypeInv, NEW e \in Execution, NEW as \in Aggregate,
           NEW next \in {"analyzing", "instructing", "generating", "returned"},
           Save(e, as, next), ~At(e, "idle"), job' \in [Writer -> Aggregate], charged' \in BOOLEAN,
           UNCHANGED <<record, mode, admitted, queue, faults, seenBy, run>>
    PROVE  TypeInv'
<1>1. e \in Writer /\ e \notin Client /\ next \in Step
  BY TryOnAssumption DEF Writer, Step
<1>2. /\ out' = [out EXCEPT ![e] = out'[e]] /\ out'[e].then = next /\ out' \in [Writer -> Pending]
      /\ pc' = [pc EXCEPT ![e] = "saving"]
  BY <1>1, SaveType DEF TypeInv
<1>3. pc' \in [Writer -> Step]
  BY <1>2 DEF TypeInv, TypeOK, Step
<1> QED
  BY <1>1, <1>2, <1>3 DEF TypeInv, TypeOK, Shapes, At, queue, seenBy, Writer

LEMMA TypeInvInit == Init => TypeInv
<1> SUFFICES ASSUME Init PROVE TypeInv
  OBVIOUS
<1>1. record \in Aggregate /\ job \in [Writer -> Aggregate] /\ out \in [Writer -> Pending]
      /\ run \in [Execution -> Run]
  BY NothingInHand DEF Init
<1>2. \A w \in Writer : pc[w] = "idle"
  BY DEF Init
<1>3. executing = [e \in Execution |-> Absent] /\ known = {} /\ begun = {} /\ again = {} /\ closed = {}
  BY DEF Init, Queue!Init
<1>4. mode = [q \in QueueJob |-> Absent] /\ "start" \in QueueJob /\ "generate" \in QueueJob
  BY DEF Init, QueueJob
<1>5. 0 \in 0..MaxFaults /\ pc \in [Writer -> Step]
  BY TryOnAssumption DEF Init, Step
<1>6. TypeOK
  BY <1>1, <1>2, <1>3, <1>4, <1>5 DEF Init, TypeOK, Writer
<1>7. Shapes
  BY <1>2, <1>3, <1>4 DEF Shapes, At, Writer
<1> QED
  BY <1>6, <1>7 DEF TypeInv

LEMMA TypeInvStep == TypeInv /\ [Next]_vars => TypeInv'
<1> SUFFICES ASSUME TypeInv, [Next]_vars PROVE TypeInv'
  OBVIOUS
<1>w. Execution \subseteq Writer /\ Client \subseteq Writer /\ Execution \cap Client = {}
      /\ "start" \in QueueJob /\ "generate" \in QueueJob /\ Absent \notin QueueJob
  BY TryOnAssumption DEF Writer, QueueJob
<1>s. {"idle", "loaded", "resolving", "analyzing", "instructing", "generating", "judging",
       "judged", "saving", "returned"} = Step
  BY DEF Step
<1> USE DEF TypeInv, TypeOK, Shapes, At, Goto, external, local, queue, seenBy
<1>1. ASSUME NEW m \in StartMode, EnqueueStart(m) PROVE TypeInv'
  BY <1>1, <1>w DEF EnqueueStart, Queue!Enqueue
<1>2. ASSUME NEW m \in GenerateMode, Admit(m) PROVE TypeInv'
  BY <1>2 DEF Admit
<1>3. ASSUME EnqueueGenerate PROVE TypeInv'
  BY <1>3, <1>w DEF EnqueueGenerate, Queue!Enqueue
<1>4. ASSUME NEW q \in QueueJob, QueueMoves(q) PROVE TypeInv'
  BY <1>4 DEF QueueMoves, Queue!Close, Queue!Suspect
<1>5. ASSUME NEW e \in Execution, NEW q \in QueueJob, Begin(e, q) PROVE TypeInv'
  BY <1>5, <1>w DEF Begin, Queue!Begin, Step
<1>6. ASSUME NEW e \in Execution, StaysPending(e) \/ AnalysisStarts(e) \/ AnalysisBlocks(e) \/ InstructionFails(e)
                                 \/ GenerationFails(e) \/ Rejects(e)
      PROVE  TypeInv'
  <2>1. job[e] \in Aggregate
    BY <1>w
  <2>2. \E as \in Aggregate, next \in {"analyzing", "instructing", "generating", "returned"} : Save(e, as, next)
    <3>1. CASE StaysPending(e)
      BY <2>1, <3>1, AggregateFields DEF StaysPending
    <3>2. CASE AnalysisStarts(e)
      BY <2>1, <3>2, AggregateFields DEF AnalysisStarts, Status
    <3>3. CASE AnalysisBlocks(e) \/ InstructionFails(e) \/ GenerationFails(e) \/ Rejects(e)
      BY <2>1, <3>3, AggregateFields DEF AnalysisBlocks, InstructionFails, GenerationFails, Rejects
    <3> QED
      BY <1>6, <3>1, <3>2, <3>3
  <2>3. ~At(e, "idle") /\ UNCHANGED <<external, job, run>>
    BY <1>6 DEF StaysPending, AnalysisStarts, AnalysisBlocks, InstructionFails, GenerationFails, Rejects, Judged
  <2> QED
    BY <2>2, <2>3, SavesType
<1>7. ASSUME NEW e \in Execution, AnalysisPasses(e) \/ InstructionMade(e) PROVE TypeInv'
  <2>1. job[e] \in Aggregate
    BY <1>w
  <2>2. \E as \in Aggregate, next \in {"analyzing", "instructing", "generating", "returned"} :
          Save(e, as, next) /\ job' = [job EXCEPT ![e] = as]
    <3>1. CASE AnalysisPasses(e)
      <4> DEFINE only == Mode(e) = "analysis_only"
                 ready == [job[e] EXCEPT !.analyzed = TRUE, !.status = IF only THEN "analysis_ready" ELSE @]
      <4>1. ready \in Aggregate
        BY <2>1, AggregateFields DEF Status
      <4>2. Save(e, ready, IF only THEN "returned" ELSE "instructing") /\ job' = [job EXCEPT ![e] = ready]
        BY <3>1 DEF AnalysisPasses
      <4> QED
        BY <4>1, <4>2
    <3>2. CASE InstructionMade(e)
      BY <2>1, <3>2, AggregateFields DEF InstructionMade
    <3> QED
      BY <1>7, <3>1, <3>2
  <2>3. ~At(e, "idle") /\ UNCHANGED <<external, run>>
    BY <1>7 DEF AnalysisPasses, InstructionMade
  <2>4. PICK as \in Aggregate, next \in {"analyzing", "instructing", "generating", "returned"} :
          Save(e, as, next) /\ job' = [job EXCEPT ![e] = as]
    BY <2>2
  <2>5. job' \in [Writer -> Aggregate] /\ charged' \in BOOLEAN
    BY <2>3, <2>4
  <2>6. UNCHANGED <<record, mode, admitted, queue, faults, seenBy, run>>
    BY <2>3
  <2> HIDE DEF TypeInv, TypeOK, Shapes, At
  <2> QED
    BY <2>3, <2>4, <2>5, <2>6, SavesType
<1>8. ASSUME NEW e \in Execution, Completes(e) PROVE TypeInv'
  <2>1. Completed(job[e]) \in Aggregate
    BY <1>w, AggregateFields
  <2>2. ~At(e, "idle") /\ Save(e, Completed(job[e]), "returned") /\ charged' \in BOOLEAN
        /\ UNCHANGED <<record, mode, admitted, queue, faults, seenBy, job, run>>
    BY <1>8 DEF Completes, Judged
  <2> QED
    BY <2>1, <2>2, SavesType
<1>9. ASSUME NEW e \in Execution, Retries(e) \/ \E d \in Decision : Generates(e, d) \/ Repairs(e, d)
      PROVE  TypeInv'
  <2>1. run[e] \in Run
    OBVIOUS
  <2>2. run' \in [Execution -> Run]
    <3>1. CASE Retries(e)
      <4>1. run' = [run EXCEPT ![e] = [run[e] EXCEPT !.retries = @ + 1]]
        BY <3>1 DEF Retries
      <4> QED
        BY <2>1, <4>1, RunFields
    <3>2. ASSUME NEW d \in Decision, Generates(e, d) PROVE run' \in [Execution -> Run]
      <4>1. run' = [run EXCEPT ![e] = [run[e] EXCEPT !.generations = @ + 1, !.report = d]]
        BY <3>2 DEF Generates
      <4> QED
        BY <2>1, <4>1, RunFields
    <3>3. ASSUME NEW d \in Decision, Repairs(e, d) PROVE run' \in [Execution -> Run]
      <4>1. run' = [run EXCEPT ![e] = [run[e] EXCEPT !.repairs = @ + 1, !.report = d]]
        BY <3>3 DEF Repairs
      <4> QED
        BY <2>1, <4>1, RunFields
    <3> QED
      BY <1>9, <3>1, <3>2, <3>3
  <2>3. /\ ~At(e, "idle") /\ UNCHANGED <<external, job, out>>
        /\ \E s \in {"generating", "judging", "judged"} : pc' = [pc EXCEPT ![e] = s]
    BY <1>9 DEF Retries, Generates, Repairs, Judged
  <2> QED
    BY <1>w, <1>s, <2>2, <2>3
<1>10. ASSUME NEW w \in Writer, Commit(w) PROVE TypeInv'
  <2>1. out[w] \in Pending
    OBVIOUS
  <2>2. /\ out[w].as \in Aggregate /\ out[w].then \in Step
        /\ out[w].seen.status \in Status /\ out[w].seen.controls \in Controls
    BY <2>1 DEF Pending
  <2>3. /\ Written(record.status, out[w].seen.status, out[w].as.status) \in Status
        /\ Written(record.controls, out[w].seen.controls, out[w].as.controls) \in Controls
    BY <2>2, AggregateFields DEF Written
  <2>4. record' \in Aggregate
    BY <1>10, <2>2, <2>3, AggregateFields DEF Commit
  <2>5. job' \in [Writer -> Aggregate] /\ out' \in [Writer -> Pending]
    BY <1>10, <2>1, NothingInHand DEF Commit
  <2>6. pc' = [pc EXCEPT ![w] = out[w].then] /\ pc' \in [Writer -> Step] /\ out' = [out EXCEPT ![w] = NoSave]
    BY <1>10, <2>2 DEF Commit
  <2>7. UNCHANGED <<charged, mode, admitted, queue, run, faults>> /\ pc[w] = "saving"
        /\ fresh' \in SUBSET Writer /\ stale' \in BOOLEAN
    BY <1>10 DEF Commit
  <2>8. \A e \in Execution : pc'[e] = "idle" <=> executing'[e] = Absent
    BY <1>w, <2>6, <2>7
  <2>9. Shapes'
    BY <1>w, <2>6, <2>7, <2>8
  <2> QED
    BY <2>4, <2>5, <2>6, <2>7, <2>8, <2>9
<1>11. ASSUME NEW e \in Execution, CallEnds(e), faults' \in 0..MaxFaults PROVE TypeInv'
  BY <1>11, <1>w, <1>s, NothingInHand DEF CallEnds, Queue!End
<1>12. ASSUME NEW e \in Execution, Returns(e) PROVE TypeInv'
  BY <1>11, <1>12 DEF Returns
<1>13. ASSUME NEW e \in Execution, Dies(e) PROVE TypeInv'
  <2>1. faults' \in 0..MaxFaults
    BY <1>13, TryOnAssumption DEF Dies
  <2> QED
    BY <1>11, <1>13, <2>1 DEF Dies
<1>14. ASSUME NEW c \in Client, PutLoads(c) \/ PutRefused(c) PROVE TypeInv'
  <2>1. /\ UNCHANGED <<record, charged, mode, admitted, queue, out, run, faults, stale>>
        /\ pc' = [pc EXCEPT ![c] = pc'[c]] /\ pc'[c] \in {"idle", "resolving"}
        /\ fresh' \in SUBSET Writer
    BY <1>14, <1>w DEF PutLoads, PutRefused
  <2>2. job' \in [Writer -> Aggregate]
    BY <1>14, NothingInHand DEF PutLoads, PutRefused
  <2>3. pc' \in [Writer -> Step] /\ \A e \in Execution : pc'[e] = pc[e]
    BY <1>w, <2>1 DEF Step
  <2>4. \A d \in Client \ {c} : pc'[d] = pc[d]
    BY <1>w, <2>1
  <2>5. Shapes'
    BY <1>w, <2>1, <2>3, <2>4
  <2> QED
    BY <2>1, <2>2, <2>3, <2>5
<1>15. ASSUME NEW c \in Client, PutResolves(c) PROVE TypeInv'
  <2>1. [job[c] EXCEPT !.controls = c] \in Aggregate /\ "idle" \in Step /\ c \in Writer
    BY <1>w, AggregateFields DEF Controls, Step
  <2>2. Save(c, [job[c] EXCEPT !.controls = c], "idle")
        /\ UNCHANGED <<record, charged, mode, admitted, queue, job, run, faults, seenBy>>
    BY <1>15 DEF PutResolves
  <2>3. /\ out' = [out EXCEPT ![c] = out'[c]] /\ out'[c].then = "idle" /\ out' \in [Writer -> Pending]
        /\ pc' = [pc EXCEPT ![c] = "saving"]
    BY <2>1, <2>2, SaveType
  <2> QED
    BY <1>w, <1>s, <2>2, <2>3
<1>16. CASE UNCHANGED vars
  BY <1>16 DEF vars
<1> QED
  BY <1>1, <1>2, <1>3, <1>4, <1>5, <1>6, <1>7, <1>8, <1>9, <1>10, <1>12, <1>13, <1>14, <1>15, <1>16, <1>w
  DEF Next, Proceeds

\* Every reachable state is of the declared types, whatever executions, requests
\* and redeliveries overlap.
THEOREM TypeCorrect == Spec => []TypeOK
<1>1. TypeInv => TypeOK
  BY DEF TypeInv
<1> QED
  BY <1>1, TypeInvInit, TypeInvStep, PTL DEF Spec

\* A step of one execution or request leaves the other writers where they are.
LEMMA OtherExecutions ==
    ASSUME TypeInv, NEW e \in Execution, NEW w \in Writer \ {e},
           Proceeds(e) \/ Dies(e) \/ \E q \in QueueJob : Begin(e, q)
    PROVE  /\ pc'[w] = pc[w] /\ job'[w] = job[w] /\ out'[w] = out[w]
           /\ w \in Execution => run'[w] = run[w] /\ executing'[w] = executing[w]
<1>1. pc' = [pc EXCEPT ![e] = pc'[e]]
  BY DEF TypeInv, TypeOK, Writer, Proceeds, Dies, Begin, StaysPending, AnalysisStarts, AnalysisBlocks, AnalysisPasses,
     InstructionFails, InstructionMade, GenerationFails, Generates, Repairs, Retries, Rejects, Completes, Commit,
     Returns, CallEnds, Save, Goto, local
<1>2. job' = [job EXCEPT ![e] = job'[e]]
  BY DEF TypeInv, TypeOK, Writer, Proceeds, Dies, Begin, StaysPending, AnalysisStarts, AnalysisBlocks, AnalysisPasses,
     InstructionFails, InstructionMade, GenerationFails, Generates, Repairs, Retries, Rejects, Completes, Commit,
     Returns, CallEnds, local
<1>3. out' = [out EXCEPT ![e] = out'[e]]
  BY DEF TypeInv, TypeOK, Writer, Proceeds, Dies, Begin, StaysPending, AnalysisStarts, AnalysisBlocks, AnalysisPasses,
     InstructionFails, InstructionMade, GenerationFails, Generates, Repairs, Retries, Rejects, Completes, Commit,
     Returns, CallEnds, Save, local
<1>4. run' = [run EXCEPT ![e] = run'[e]]
  BY DEF TypeInv, TypeOK, Writer, Proceeds, Dies, Begin, StaysPending, AnalysisStarts, AnalysisBlocks, AnalysisPasses,
     InstructionFails, InstructionMade, GenerationFails, Generates, Repairs, Retries, Rejects, Completes, Commit,
     Returns, CallEnds, local
<1>5. executing' = [executing EXCEPT ![e] = executing'[e]]
  BY DEF TypeInv, TypeOK, Proceeds, Dies, Begin, StaysPending, AnalysisStarts, AnalysisBlocks, AnalysisPasses,
     InstructionFails, InstructionMade, GenerationFails, Generates, Repairs, Retries, Rejects, Completes, Commit,
     Returns, CallEnds, external, queue, Queue!Begin, Queue!End
<1> QED
  BY <1>1, <1>2, <1>3, <1>4, <1>5 DEF TypeInv, TypeOK

LEMMA OtherRequests ==
    ASSUME TypeInv, NEW c \in Client,
           PutLoads(c) \/ PutResolves(c) \/ PutRefused(c) \/ Commit(c)
    PROVE  /\ \A w \in Writer \ {c} : pc'[w] = pc[w] /\ job'[w] = job[w] /\ out'[w] = out[w]
           /\ UNCHANGED <<charged, mode, admitted, queue, run, faults>>
BY DEF TypeInv, TypeOK, Writer, PutLoads, PutResolves, PutRefused, Commit, Save, Goto, seenBy

LEMMA Grows ==
    ASSUME TypeInv, [Next]_vars
    PROVE  /\ known \subseteq known' /\ begun \subseteq begun' /\ again \subseteq again'
           /\ charged => charged'
           /\ \A q \in known : mode'[q] = mode[q]
<1>1. ASSUME NEW m, EnqueueStart(m)
      PROVE  UNCHANGED <<begun, again, charged>> /\ known \subseteq known' /\ \A q \in known : mode'[q] = mode[q]
  BY <1>1 DEF EnqueueStart, Queue!Enqueue, TypeInv, TypeOK
<1>2. ASSUME EnqueueGenerate
      PROVE  UNCHANGED <<begun, again, charged>> /\ known \subseteq known' /\ \A q \in known : mode'[q] = mode[q]
  BY <1>2 DEF EnqueueGenerate, Queue!Enqueue, TypeInv, TypeOK
<1>3. ASSUME NEW q \in QueueJob, QueueMoves(q)
      PROVE  UNCHANGED <<known, begun, charged, mode>> /\ again \subseteq again'
  BY <1>3 DEF QueueMoves, Queue!Close, Queue!Suspect
<1>4. ASSUME NEW m, Admit(m) PROVE UNCHANGED <<known, begun, again, charged, mode>>
  BY <1>4 DEF Admit, queue
<1>5. ASSUME NEW e \in Execution, NEW q \in QueueJob, Begin(e, q)
      PROVE  UNCHANGED <<known, again, charged, mode>> /\ begun \subseteq begun'
  BY <1>5 DEF Begin, Queue!Begin
<1>6. ASSUME NEW e \in Execution, Proceeds(e) \/ Dies(e)
      PROVE  UNCHANGED <<known, begun, again, mode>> /\ (charged => charged')
  BY <1>6 DEF Proceeds, Dies, StaysPending, AnalysisStarts, AnalysisBlocks, AnalysisPasses,
     InstructionFails, InstructionMade, GenerationFails, Generates, Repairs, Retries, Rejects, Completes, Commit,
     Returns, CallEnds, external, queue, Queue!End
<1>7. ASSUME NEW c \in Client, PutLoads(c) \/ PutResolves(c) \/ PutRefused(c) \/ Commit(c)
      PROVE  UNCHANGED <<known, begun, again, charged, mode>>
  BY <1>7 DEF PutLoads, PutResolves, PutRefused, Commit, queue
<1>8. CASE UNCHANGED vars
  BY <1>8 DEF vars, queue
<1> QED
  BY <1>1, <1>2, <1>3, <1>4, <1>5, <1>6, <1>7, <1>8 DEF Next

\* The routes and the queue touch nothing that an execution or a request holds.
LEMMA RoutesOnly ==
    ASSUME \/ \E m \in StartMode : EnqueueStart(m)
           \/ \E m \in GenerateMode : Admit(m)
           \/ EnqueueGenerate
           \/ \E q \in QueueJob : QueueMoves(q)
    PROVE  UNCHANGED <<record, charged, begun, executing, local, faults, seenBy>>
BY DEF EnqueueStart, Admit, EnqueueGenerate, QueueMoves, Queue!Enqueue, Queue!Close, Queue!Suspect, queue

LEMMA Unrelated == Execution \subseteq Writer /\ Client \subseteq Writer /\ Execution \cap Client = {}
BY TryOnAssumption DEF Writer

-----------------------------------------------------------------------------
(* Effort and charge *)

\* Who has not generated since the last retry is counted.
NotGenerated(e) ==
    \/ At(e, "idle") \/ At(e, "loaded") \/ At(e, "analyzing") \/ At(e, "instructing") \/ At(e, "generating")
    \/ At(e, "saving") /\ out[e].then # "returned"

Effort(e) ==
    /\ run[e].retries <= MaxRetries
    /\ run[e].generations <= run[e].retries + 1
    /\ run[e].repairs <= run[e].generations
    /\ At(e, "judging") => run[e].repairs < run[e].generations
    /\ NotGenerated(e) => run[e].generations <= run[e].retries

EffortInv == TypeInv /\ \A e \in Execution : Effort(e)

LEMMA EffortInit == Init => EffortInv
<1> SUFFICES ASSUME Init PROVE EffortInv
  OBVIOUS
<1>1. \A e \in Execution : run[e] = NoRun /\ ~At(e, "judging")
  BY Unrelated DEF Init, At
<1> QED
  BY <1>1, TypeInvInit, TryOnAssumption DEF EffortInv, Effort, NoRun

LEMMA EffortStep == EffortInv /\ [Next]_vars => EffortInv'
<1> SUFFICES ASSUME EffortInv, [Next]_vars PROVE EffortInv'
  OBVIOUS
<1>t. TypeInv /\ TypeOK /\ Shapes /\ \A e \in Execution : Effort(e)
  BY DEF EffortInv, TypeInv
<1>n. SUFFICES \A e \in Execution : Effort(e)'
  BY <1>t, TypeInvStep DEF EffortInv
<1>w. Execution \subseteq Writer /\ Client \subseteq Writer /\ Execution \cap Client = {}
  BY Unrelated
\* An execution whose loop does not move, and that does not get back into it.
<1>k. ASSUME NEW f \in Execution, run'[f] = run[f], At(f, "judging")' => At(f, "judging"),
             NotGenerated(f)' => NotGenerated(f)
      PROVE  Effort(f)'
  BY <1>t, <1>k DEF Effort
<1>1. CASE \/ \E m \in StartMode : EnqueueStart(m)
           \/ \E m \in GenerateMode : Admit(m)
           \/ EnqueueGenerate
           \/ \E q \in QueueJob : QueueMoves(q)
  <2>1. UNCHANGED <<pc, out, run>>
    BY <1>1, RoutesOnly DEF local
  <2> QED
    BY <2>1, <1>k DEF At, NotGenerated
<1>2. ASSUME NEW c \in Client, PutLoads(c) \/ PutResolves(c) \/ PutRefused(c) \/ Commit(c)
      PROVE  \A e \in Execution : Effort(e)'
  <2>1. \A e \in Execution : pc'[e] = pc[e] /\ out'[e] = out[e] /\ run'[e] = run[e]
    BY <1>t, <1>w, <1>2, OtherRequests
  <2> QED
    BY <2>1, <1>k DEF At, NotGenerated
<1>3. ASSUME NEW e \in Execution, Proceeds(e) \/ Dies(e) \/ \E q \in QueueJob : Begin(e, q), Effort(e)'
      PROVE  \A f \in Execution : Effort(f)'
  <2>1. \A f \in Execution \ {e} : pc'[f] = pc[f] /\ out'[f] = out[f] /\ run'[f] = run[f]
    BY <1>t, <1>w, <1>3, OtherExecutions
  <2> QED
    BY <2>1, <1>3, <1>k DEF At, NotGenerated
<1>4. ASSUME NEW e \in Execution, NEW q \in QueueJob, Begin(e, q) PROVE Effort(e)'
  <2>1. pc[e] = "idle" /\ pc'[e] = "loaded" /\ run' = run
    BY <1>t, <1>w, <1>4 DEF Begin, Queue!Begin, Goto, TypeOK
  <2> QED
    BY <2>1, <1>k DEF At, NotGenerated
<1>5. ASSUME NEW e \in Execution, CallEnds(e) PROVE Effort(e)'
  <2>1. run'[e] = NoRun /\ pc'[e] = "idle"
    BY <1>t, <1>w, <1>5 DEF CallEnds, Goto, TypeOK
  <2> QED
    BY <2>1, TryOnAssumption DEF Effort, NoRun, At
<1>6. ASSUME NEW e \in Execution, Proceeds(e) PROVE Effort(e)'
  <2>1. pc \in [Writer -> Step] /\ run[e] \in Run
    BY <1>t DEF TypeOK
  <2>n. /\ run[e].generations \in Nat /\ run[e].repairs \in Nat /\ run[e].retries \in Nat
        /\ MaxRetries \in Nat
    BY <2>1, RunFields, TryOnAssumption
  <2>2. CASE StaysPending(e) \/ AnalysisStarts(e) \/ AnalysisBlocks(e) \/ AnalysisPasses(e)
             \/ InstructionFails(e) \/ InstructionMade(e) \/ GenerationFails(e) \/ Rejects(e) \/ Completes(e)
    <3>1. run' = run /\ pc'[e] = "saving" /\ (NotGenerated(e) \/ out'[e].then = "returned")
      BY <1>t, <1>w, <2>2 DEF StaysPending, AnalysisStarts, AnalysisBlocks, AnalysisPasses, InstructionFails,
         InstructionMade, GenerationFails, Rejects, Completes, Save, Goto, TypeOK, At, NotGenerated
    <3> QED
      BY <3>1, <1>k DEF At, NotGenerated
  <2>3. CASE Commit(e)
    <3>1. run' = run /\ pc'[e] = out[e].then /\ pc[e] = "saving"
      BY <1>t, <1>w, <2>3 DEF Commit, Goto, TypeOK, At
    <3>2. out[e].then \in {"analyzing", "instructing", "generating", "returned"}
      BY <1>t, <3>1 DEF Shapes, At
    <3> QED
      BY <3>1, <3>2, <1>k DEF At, NotGenerated
  <2>4. ASSUME NEW d \in Decision, Generates(e, d) PROVE Effort(e)'
    <3>1. /\ run' = [run EXCEPT ![e].generations = @ + 1, ![e].report = d]
          /\ pc' = [pc EXCEPT ![e] = "judging"] /\ pc[e] = "generating"
      BY <2>4 DEF Generates, Goto, At
    <3>2. /\ run'[e].generations = run[e].generations + 1 /\ run'[e].repairs = run[e].repairs
          /\ run'[e].retries = run[e].retries /\ pc'[e] = "judging"
      BY <1>t, <1>w, <2>1, <3>1 DEF Run, TypeOK
    <3> QED
      BY <1>t, <2>n, <3>1, <3>2 DEF Effort, NotGenerated, At
  <2>5. ASSUME NEW d \in Decision, Repairs(e, d) PROVE Effort(e)'
    <3>1. /\ run' = [run EXCEPT ![e].repairs = @ + 1, ![e].report = d]
          /\ pc' = [pc EXCEPT ![e] = "judged"] /\ pc[e] = "judging"
      BY <2>5 DEF Repairs, Goto, At
    <3>2. /\ run'[e].generations = run[e].generations /\ run'[e].repairs = run[e].repairs + 1
          /\ run'[e].retries = run[e].retries /\ pc'[e] = "judged"
      BY <1>t, <1>w, <2>1, <3>1 DEF Run, TypeOK
    <3> QED
      BY <1>t, <2>n, <3>1, <3>2 DEF Effort, NotGenerated, At
  <2>6. CASE Retries(e)
    <3>1. /\ run' = [run EXCEPT ![e].retries = @ + 1] /\ run[e].retries < MaxRetries
          /\ pc' = [pc EXCEPT ![e] = "generating"]
      BY <2>6 DEF Retries, RetryDue, Goto
    <3>2. /\ run'[e].generations = run[e].generations /\ run'[e].repairs = run[e].repairs
          /\ run'[e].retries = run[e].retries + 1 /\ pc'[e] = "generating"
      BY <1>t, <1>w, <2>1, <3>1 DEF Run, TypeOK
    <3> QED
      BY <1>t, <2>n, <3>1, <3>2 DEF Effort, NotGenerated, At
  <2> QED
    BY <1>5, <1>6, <2>2, <2>3, <2>4, <2>5, <2>6 DEF Proceeds, Returns
<1>7. CASE UNCHANGED vars
  <2>1. UNCHANGED <<pc, out, run>>
    BY <1>7 DEF vars, local
  <2> QED
    BY <2>1, <1>k DEF At, NotGenerated
<1> QED
  BY <1>1, <1>2, <1>3, <1>4, <1>5, <1>6, <1>7 DEF Next, Dies

\* An execution generates once and once more per retry, and repairs no image
\* twice, in whatever order repairs and retries come.
THEOREM EffortsBounded == Spec => []EffortBounded
<1>1. EffortInv => EffortBounded
  <2> SUFFICES ASSUME EffortInv, NEW e \in Execution
               PROVE  run[e].generations <= 1 + MaxRetries /\ run[e].repairs <= run[e].generations
    BY DEF EffortBounded
  <2>1. run[e].generations \in Nat /\ run[e].retries \in Nat
    BY RunFields DEF EffortInv, TypeInv, TypeOK
  <2> QED
    BY <2>1, TryOnAssumption DEF EffortInv, Effort
<1> QED
  BY <1>1, EffortInit, EffortStep, PTL DEF Spec

-----------------------------------------------------------------------------
(* What a save writes *)

\* The saves an execution may start, each with the aggregate it writes (as) and
\* the aggregate the execution then has in hand.
Writes(e) ==
    \/ StaysPending(e) \/ AnalysisStarts(e) \/ AnalysisBlocks(e) \/ AnalysisPasses(e)
    \/ InstructionFails(e) \/ InstructionMade(e) \/ GenerationFails(e) \/ Rejects(e) \/ Completes(e)

SameOutcome(a, b) == a.result = b.result /\ a.error = b.error

LEMMA WritesAll ==
    ASSUME TypeInv, NEW e \in Execution, Writes(e)
    PROVE  /\ pc'[e] = "saving" /\ InFlight(e) /\ ~At(e, "saving")
           /\ out'[e].seen = Columns(record)
           /\ UNCHANGED <<record, mode, admitted, queue, faults, seenBy, run>>
           /\ charged => charged'
<1>1. e \in Writer /\ pc \in [Writer -> Step] /\ out \in [Writer -> Pending]
  BY Unrelated DEF TypeInv, TypeOK
<1>2. pc' = [pc EXCEPT ![e] = "saving"] /\ \E a, n : out' = [out EXCEPT ![e] = [as |-> a, seen |-> Columns(record), then |-> n]]
  BY DEF Writes, StaysPending, AnalysisStarts, AnalysisBlocks, AnalysisPasses, InstructionFails, InstructionMade,
     GenerationFails, Rejects, Completes, Save, Goto
<1>3. InFlight(e) /\ ~At(e, "saving")
  BY DEF Writes, StaysPending, AnalysisStarts, AnalysisBlocks, AnalysisPasses, InstructionFails, InstructionMade,
     GenerationFails, Rejects, Completes, Judged, At, InFlight
<1>4. UNCHANGED <<record, mode, admitted, queue, faults, seenBy, run>> /\ (charged => charged')
  BY DEF Writes, StaysPending, AnalysisStarts, AnalysisBlocks, AnalysisPasses, InstructionFails, InstructionMade,
     GenerationFails, Rejects, Completes, external
<1> QED
  BY <1>1, <1>2, <1>3, <1>4

LEMMA WritesWhat ==
    ASSUME TypeInv, NEW e \in Execution, Writes(e)
    PROVE  \/ /\ At(e, "loaded") /\ Mode(e) = "pending" /\ job'[e] = job[e]
              /\ out'[e].as.status = "accepted" /\ out'[e].then = "returned"
           \/ /\ At(e, "loaded") /\ Mode(e) # "pending" /\ job'[e] = job[e]
              /\ out'[e].as.status = "analyzing_human" /\ out'[e].then = "analyzing"
           \/ /\ job'[e] = job[e]
              /\ out'[e].as.status = "failed" /\ out'[e].then = "returned"
              /\ out'[e].as.result = Absent /\ out'[e].as.error
           \/ /\ Mode(e) = "analysis_only" /\ job'[e] = out'[e].as
              /\ out'[e].as.status = "analysis_ready" /\ out'[e].then = "returned"
           \/ /\ Mode(e) # "analysis_only" /\ job'[e] = out'[e].as
              /\ out'[e].as.status = job[e].status /\ out'[e].then = "instructing"
              /\ SameOutcome(out'[e].as, job[e])
              /\ out'[e].as.controls = job[e].controls /\ out'[e].as.instruction = job[e].instruction
           \/ /\ At(e, "instructing") /\ job'[e] = out'[e].as
              /\ out'[e].as.status = job[e].status /\ out'[e].then = "generating"
              /\ SameOutcome(out'[e].as, job[e])
              /\ out'[e].as.controls = job[e].controls /\ out'[e].as.instruction = job[e].controls
           \/ /\ At(e, "judging") \/ At(e, "judged")
              /\ charged' /\ job'[e] = job[e]
              /\ out'[e].as.status = "completed" /\ out'[e].then = "returned"
              /\ out'[e].as.controls = job[e].controls /\ out'[e].as.instruction = job[e].instruction
              /\ out'[e].as.result = job[e].instruction /\ ~out'[e].as.error
<1>1. e \in Writer /\ job \in [Writer -> Aggregate] /\ job[e] \in Aggregate
  BY Unrelated DEF TypeInv, TypeOK
<1>2. ASSUME NEW as \in Aggregate, NEW next \in Step, Save(e, as, next)
      PROVE  out'[e].as = as /\ out'[e].then = next
  BY <1>1, <1>2, SaveType DEF TypeInv
<1>s. "returned" \in Step /\ "analyzing" \in Step /\ "instructing" \in Step /\ "generating" \in Step
  BY DEF Step
<1>f. ASSUME NEW a \in Aggregate
      PROVE  /\ Failed(a).status = "failed" /\ Failed(a).result = Absent /\ Failed(a).error
             /\ Completed(a).status = "completed" /\ Completed(a).controls = a.controls
             /\ Completed(a).instruction = a.instruction
             /\ Completed(a).result = a.instruction /\ ~Completed(a).error
  BY DEF Failed, Completed, Aggregate
<1>3. CASE StaysPending(e)
  <2> DEFINE as == [job[e] EXCEPT !.status = "accepted", !.result = Absent, !.error = FALSE]
  <2>1. as \in Aggregate /\ as.status = "accepted"
    BY <1>1, AggregateFields DEF Aggregate
  <2>2. Save(e, as, "returned") /\ job' = job /\ At(e, "loaded") /\ Mode(e) = "pending"
    BY <1>3 DEF StaysPending
  <2> QED
    BY <1>2, <1>s, <2>1, <2>2
<1>4. CASE AnalysisStarts(e)
  <2> DEFINE as == [job[e] EXCEPT !.status = "analyzing_human"]
  <2>1. as \in Aggregate /\ as.status = "analyzing_human"
    BY <1>1, AggregateFields DEF Aggregate, Status
  <2>2. Save(e, as, "analyzing") /\ job' = job /\ At(e, "loaded") /\ Mode(e) # "pending"
    BY <1>4 DEF AnalysisStarts
  <2> QED
    BY <1>2, <1>s, <2>1, <2>2
<1>5. CASE AnalysisBlocks(e) \/ InstructionFails(e) \/ GenerationFails(e) \/ Rejects(e)
  <2>1. Save(e, Failed(job[e]), "returned") /\ job' = job
    BY <1>5 DEF AnalysisBlocks, InstructionFails, GenerationFails, Rejects
  <2>2. Failed(job[e]) \in Aggregate
    BY <1>1, AggregateFields
  <2>3. out'[e].as = Failed(job[e]) /\ out'[e].then = "returned"
    BY <1>2, <1>s, <2>1, <2>2
  <2>4. Failed(job[e]).status = "failed" /\ Failed(job[e]).result = Absent /\ Failed(job[e]).error
    BY <1>1, <1>f
  <2>5. out'[e].as.error
    BY <2>3, <2>4, Zenon
  <2>6. out'[e].as.status = "failed" /\ out'[e].as.result = Absent /\ job'[e] = job[e]
    BY <2>1, <2>3, <2>4
  <2> QED
    BY <2>3, <2>5, <2>6
<1>6. CASE AnalysisPasses(e)
  <2> DEFINE only == Mode(e) = "analysis_only"
             as == [job[e] EXCEPT !.analyzed = TRUE, !.status = IF only THEN "analysis_ready" ELSE @]
  <2>0. as \in Aggregate
    BY <1>1, AggregateFields DEF Status
  <2>1. /\ as.status = IF only THEN "analysis_ready" ELSE job[e].status
        /\ SameOutcome(as, job[e]) /\ as.controls = job[e].controls /\ as.instruction = job[e].instruction
    BY <1>1 DEF Aggregate, SameOutcome
  <2>2. Save(e, as, IF only THEN "returned" ELSE "instructing") /\ job' = [job EXCEPT ![e] = as]
    BY <1>6 DEF AnalysisPasses
  <2>3. job'[e] = as
    BY <1>1, <2>2
  <2> HIDE DEF as
  <2> QED
    BY <1>2, <1>s, <2>0, <2>1, <2>2, <2>3
<1>7. CASE InstructionMade(e)
  <2> DEFINE as == [job[e] EXCEPT !.instruction = job[e].controls]
  <2>1. /\ as \in Aggregate /\ as.status = job[e].status
        /\ SameOutcome(as, job[e]) /\ as.controls = job[e].controls /\ as.instruction = job[e].controls
    BY <1>1, AggregateFields DEF Aggregate, SameOutcome
  <2>2. Save(e, as, "generating") /\ job' = [job EXCEPT ![e] = as] /\ At(e, "instructing")
    BY <1>7 DEF InstructionMade
  <2>3. job'[e] = as
    BY <1>1, <2>2
  <2> HIDE DEF as
  <2> QED
    BY <1>2, <1>s, <2>1, <2>2, <2>3
<1>8. CASE Completes(e)
  <2>1. Save(e, Completed(job[e]), "returned") /\ job' = job /\ charged' /\ (At(e, "judging") \/ At(e, "judged"))
    BY <1>8 DEF Completes, Judged
  <2>2. Completed(job[e]) \in Aggregate
    BY <1>1, AggregateFields
  <2>3. out'[e].as = Completed(job[e]) /\ out'[e].then = "returned"
    BY <1>2, <1>s, <2>1, <2>2
  <2>4. ~Completed(job[e]).error
    BY <1>1, <1>f
  <2>5. ~out'[e].as.error
    BY <2>3, <2>4, Zenon
  <2>6. /\ out'[e].as.status = "completed" /\ out'[e].as.controls = job[e].controls
        /\ out'[e].as.instruction = job[e].instruction /\ out'[e].as.result = job[e].instruction
    BY <1>1, <1>f, <2>3
  <2> QED
    BY <2>1, <2>3, <2>5, <2>6
<1> QED
  BY <1>3, <1>4, <1>5, <1>6, <1>7, <1>8 DEF Writes

\* A commit leaves a record as written, if the row was as it had been loaded.
LEMMA Commits ==
    ASSUME TypeInv, NEW w \in Writer, Commit(w)
    PROVE  /\ At(w, "saving") /\ pc'[w] = out[w].then /\ out'[w] = NoSave
           /\ job'[w] = IF out[w].then \in {"idle", "returned"} THEN Created ELSE job[w]
           /\ fresh' = IF out[w].then \in {"idle", "returned"} THEN {} ELSE {w}
           /\ stale' = (stale \/ w \notin fresh)
           /\ UNCHANGED <<charged, mode, admitted, queue, run, faults>>
           /\ record'.status \in {record.status, out[w].as.status}
           /\ out[w].seen = Columns(record) => record' = out[w].as
<1>1. /\ pc \in [Writer -> Step] /\ job \in [Writer -> Aggregate] /\ out \in [Writer -> Pending]
      /\ record \in Aggregate
  BY DEF TypeInv, TypeOK
<1> DEFINE a == out[w].as
           s == Written(record.status, out[w].seen.status, a.status)
           c == Written(record.controls, out[w].seen.controls, a.controls)
<1>2. a \in Aggregate
  BY <1>1 DEF Pending
<1>3. record' = [a EXCEPT !.status = s, !.controls = c]
  BY DEF Commit
<1>4. record'.status = s
  BY <1>2, <1>3 DEF Aggregate
<1>5. s \in {record.status, a.status}
  BY DEF Written
<1>6. ASSUME out[w].seen = Columns(record) PROVE record' = a
  <2>1. out[w].seen.status = record.status /\ out[w].seen.controls = record.controls
    BY <1>6 DEF Columns
  <2>2. s = a.status /\ c = a.controls
    BY <2>1 DEF Written
  <2> QED
    BY <1>2, <1>3, <2>2 DEF Aggregate
<1>7. /\ At(w, "saving") /\ pc' = [pc EXCEPT ![w] = out[w].then] /\ out' = [out EXCEPT ![w] = NoSave]
      /\ job' = [job EXCEPT ![w] = IF out[w].then \in {"idle", "returned"} THEN Created ELSE job[w]]
      /\ fresh' = IF out[w].then \in {"idle", "returned"} THEN {} ELSE {w}
      /\ stale' = (stale \/ w \notin fresh)
      /\ UNCHANGED <<charged, mode, admitted, queue, run, faults>>
  BY DEF Commit, Goto
<1> QED
  BY <1>1, <1>4, <1>5, <1>6, <1>7

\* What a request does.
LEMMA Requests ==
    ASSUME TypeInv, NEW c \in Client
    PROVE  /\ PutLoads(c) => /\ At(c, "idle") /\ pc'[c] = "resolving" /\ record.status = "analysis_ready"
                             /\ job'[c] = record /\ out'[c] = out[c]
                             /\ fresh' = fresh \cup {c} /\ UNCHANGED <<record, stale>>
           /\ PutResolves(c) => /\ At(c, "resolving") /\ pc'[c] = "saving" /\ job'[c] = job[c]
                                /\ out'[c].then = "idle" /\ out'[c].seen = Columns(record)
                                /\ out'[c].as.status = job[c].status
                                /\ SameOutcome(out'[c].as, job[c])
                                /\ UNCHANGED <<record, fresh, stale>>
           /\ PutRefused(c) => /\ At(c, "resolving") /\ pc'[c] = "idle" /\ job'[c] = Created /\ out'[c] = out[c]
                               /\ fresh' = fresh \ {c} /\ UNCHANGED <<record, stale>>
<1>1. c \in Writer /\ pc \in [Writer -> Step] /\ job \in [Writer -> Aggregate] /\ out \in [Writer -> Pending]
  BY Unrelated DEF TypeInv, TypeOK
<1>2. ASSUME PutLoads(c)
      PROVE  /\ At(c, "idle") /\ pc'[c] = "resolving" /\ record.status = "analysis_ready"
             /\ job'[c] = record /\ out'[c] = out[c] /\ fresh' = fresh \cup {c} /\ UNCHANGED <<record, stale>>
  BY <1>1, <1>2 DEF PutLoads, Goto
<1>3. ASSUME PutRefused(c)
      PROVE  /\ At(c, "resolving") /\ pc'[c] = "idle" /\ job'[c] = Created /\ out'[c] = out[c]
             /\ fresh' = fresh \ {c} /\ UNCHANGED <<record, stale>>
  BY <1>1, <1>3 DEF PutRefused, Goto
<1>4. ASSUME PutResolves(c)
      PROVE  /\ At(c, "resolving") /\ pc'[c] = "saving" /\ job'[c] = job[c]
             /\ out'[c].then = "idle" /\ out'[c].seen = Columns(record)
             /\ out'[c].as.status = job[c].status /\ SameOutcome(out'[c].as, job[c])
             /\ UNCHANGED <<record, fresh, stale>>
  <2> DEFINE as == [job[c] EXCEPT !.controls = c]
  <2>1. as \in Aggregate /\ as.status = job[c].status /\ SameOutcome(as, job[c])
    <3>1. job[c] \in Aggregate /\ c \in Controls
      BY <1>1 DEF Controls
    <3> QED
      BY <3>1, AggregateFields DEF Aggregate, SameOutcome
  <2>2. At(c, "resolving") /\ Save(c, as, "idle") /\ UNCHANGED <<record, job, fresh, stale>>
    BY <1>4 DEF PutResolves, seenBy
  <2>3. "idle" \in Step
    BY DEF Step
  <2>4. /\ out'[c].as = as /\ out'[c].then = "idle" /\ out'[c].seen = Columns(record)
        /\ pc' = [pc EXCEPT ![c] = "saving"]
    BY <1>1, <2>1, <2>2, <2>3, SaveType DEF TypeInv
  <2> QED
    BY <1>1, <2>1, <2>2, <2>4
<1> QED
  BY <1>2, <1>3, <1>4

\* The rest of what an execution does.
LEMMA Begins ==
    ASSUME TypeInv, NEW e \in Execution, NEW q \in QueueJob, Begin(e, q)
    PROVE  /\ At(e, "idle") /\ executing[e] = Absent /\ executing'[e] = q /\ pc'[e] = "loaded"
           /\ job'[e] = record /\ out'[e] = out[e] /\ fresh' = fresh \cup {e}
           /\ q \in known /\ begun' = begun \cup {q}
           /\ UNCHANGED <<record, charged, mode, admitted, known, again, run, faults, stale>>
<1>1. e \in Writer
  BY Unrelated
<1> QED
  BY <1>1 DEF TypeInv, TypeOK, Begin, Queue!Begin, Goto, At

LEMMA Ends ==
    ASSUME TypeInv, NEW e \in Execution, Returns(e) \/ Dies(e)
    PROVE  /\ ~At(e, "idle") /\ pc'[e] = "idle" /\ executing'[e] = Absent
           /\ job'[e] = Created /\ out'[e] = NoSave
           /\ fresh' = fresh \ {e}
           /\ UNCHANGED <<record, charged, mode, admitted, known, begun, again, stale>>
           /\ faults' = 0 => At(e, "returned") /\ faults = 0
<1>1. e \in Writer
  BY Unrelated
<1>2. CallEnds(e) /\ ~At(e, "idle")
  BY DEF Returns, Dies, At
<1>3. faults \in Nat
  BY TryOnAssumption DEF TypeInv, TypeOK
<1>4. faults' = 0 => At(e, "returned") /\ faults = 0
  BY <1>3 DEF Returns, Dies
<1> QED
  BY <1>1, <1>2, <1>4 DEF TypeInv, TypeOK, CallEnds, Queue!End, Goto

Works(e) == Retries(e) \/ \E d \in Decision : Generates(e, d) \/ Repairs(e, d)

LEMMA Labours ==
    ASSUME TypeInv, NEW e \in Execution, Works(e)
    PROVE  /\ At(e, "generating") \/ At(e, "judging") \/ At(e, "judged")
           /\ pc'[e] \in {"generating", "judging", "judged"}
           /\ UNCHANGED <<external, job, out>>
<1>1. e \in Writer /\ pc \in [Writer -> Step]
  BY Unrelated DEF TypeInv, TypeOK
<1> QED
  BY <1>1 DEF Works, Retries, Generates, Repairs, Judged, Goto, At

Acts(w) ==
    \/ w \in Execution /\ (Writes(w) \/ Returns(w) \/ Dies(w) \/ Works(w) \/ \E q \in QueueJob : Begin(w, q))
    \/ w \in Client /\ (PutLoads(w) \/ PutResolves(w) \/ PutRefused(w))
    \/ Commit(w)

LEMMA Elsewhere ==
    ASSUME TypeInv, NEW w \in Writer, Acts(w), NEW v \in Writer \ {w}
    PROVE  /\ pc'[v] = pc[v] /\ job'[v] = job[v] /\ out'[v] = out[v]
           /\ v \in Execution => executing'[v] = executing[v]
<1>1. CASE w \in Execution
  <2>1. Proceeds(w) \/ Dies(w) \/ \E q \in QueueJob : Begin(w, q)
    BY <1>1, Unrelated DEF Acts, Proceeds, Writes, Works
  <2> QED
    BY <1>1, <2>1, OtherExecutions
<1>2. CASE w \in Client
  <2>1. PutLoads(w) \/ PutResolves(w) \/ PutRefused(w) \/ Commit(w)
    BY <1>2, Unrelated DEF Acts
  <2>2. /\ pc'[v] = pc[v] /\ job'[v] = job[v] /\ out'[v] = out[v]
        /\ UNCHANGED <<charged, mode, admitted, queue, run, faults>>
    BY <1>2, <2>1, OtherRequests
  <2> QED
    BY <2>2 DEF queue
<1> QED
  BY <1>1, <1>2 DEF Writer

\* Every step is a writer's, or one of the routes and the queue.
LEMMA Steps ==
    ASSUME [Next]_vars
    PROVE  \/ \E w \in Writer : Acts(w)
           \/ /\ \/ \E m \in StartMode : EnqueueStart(m)
                 \/ \E m \in GenerateMode : Admit(m)
                 \/ EnqueueGenerate
                 \/ \E q \in QueueJob : QueueMoves(q)
              /\ UNCHANGED <<record, charged, begun, executing, local, faults, seenBy>>
           \/ UNCHANGED vars
BY RoutesOnly DEF Next, Proceeds, Writes, Works, Acts, Writer

\* Nobody has a completed job in hand that is not charged.
ChargeInv ==
    /\ TypeInv
    /\ CompletedIsCharged
    /\ \A w \in Writer : job[w].status = "completed" \/ out[w].as.status = "completed" => charged

LEMMA ChargeInit == Init => ChargeInv
<1> SUFFICES ASSUME Init PROVE ChargeInv
  OBVIOUS
<1>1. TypeInv
  BY TypeInvInit
<1>2. /\ record = Created
      /\ \A w \in Writer : job[w] = Created /\ out[w] = NoSave
  BY DEF Init
<1> QED
  BY <1>1, <1>2, NothingInHand DEF ChargeInv, CompletedIsCharged

LEMMA ChargeStep == ChargeInv /\ [Next]_vars => ChargeInv'
<1> SUFFICES ASSUME ChargeInv, [Next]_vars PROVE ChargeInv'
  OBVIOUS
<1>t. /\ TypeInv /\ TypeInv' /\ (charged => charged')
      /\ record.status = "completed" => charged
      /\ \A w \in Writer : job[w].status = "completed" \/ out[w].as.status = "completed" => charged
  BY TypeInvStep, Grows DEF ChargeInv, CompletedIsCharged
<1>c. Created.status # "completed" /\ NoSave.as = Created
  BY NothingInHand
<1>1. ASSUME UNCHANGED <<record, charged, job, out>> PROVE ChargeInv'
  BY <1>1, <1>t DEF ChargeInv, CompletedIsCharged
<1>2. ASSUME NEW w \in Writer, Acts(w),
             record'.status = "completed" \/ job'[w].status = "completed" \/ out'[w].as.status = "completed" => charged'
      PROVE  ChargeInv'
  <2>1. \A v \in Writer \ {w} : job'[v] = job[v] /\ out'[v] = out[v]
    BY <1>t, <1>2, Elsewhere
  <2> QED
    BY <1>2, <1>t, <2>1 DEF ChargeInv, CompletedIsCharged
<1>3. ASSUME NEW w \in Writer, Acts(w) PROVE ChargeInv'
  <2>1. CASE w \in Execution /\ Writes(w)
    <3>1. record' = record
      BY <1>t, <2>1, WritesAll
    <3>2. job'[w].status = "completed" \/ out'[w].as.status = "completed" => charged'
      BY <1>t, <2>1, <1>3, WritesWhat
    <3> QED
      BY <1>2, <1>3, <1>t, <3>1, <3>2
  <2>2. CASE w \in Execution /\ (Returns(w) \/ Dies(w))
    BY <1>2, <1>3, <1>t, <1>c, <2>2, Ends
  <2>3. CASE w \in Execution /\ Works(w)
    <3>1. UNCHANGED <<record, charged, job, out>>
      BY <1>t, <2>3, Labours DEF external
    <3> QED
      BY <1>1, <3>1
  <2>4. ASSUME w \in Execution, NEW q \in QueueJob, Begin(w, q) PROVE ChargeInv'
    BY <1>2, <1>3, <1>t, <2>4, Begins
  <2>5. CASE w \in Client /\ (PutLoads(w) \/ PutResolves(w) \/ PutRefused(w))
    BY <1>2, <1>3, <1>t, <1>c, <2>5, Requests
  <2>6. CASE Commit(w)
    <3>1. /\ record'.status \in {record.status, out[w].as.status} /\ out'[w] = NoSave
          /\ job'[w] = Created \/ job'[w] = job[w]
      BY <1>t, <2>6, Commits
    <3> QED
      BY <1>2, <1>3, <1>t, <1>c, <3>1
  <2> QED
    BY <1>3, <2>1, <2>2, <2>3, <2>4, <2>5, <2>6 DEF Acts
<1> QED
  BY <1>1, <1>3, Steps DEF vars, local

\* A result the user sees is charged, whatever is redelivered, overwritten or
\* dies on the way.
THEOREM CompletedCharged == Spec => []CompletedIsCharged
<1>1. ChargeInv => CompletedIsCharged
  BY DEF ChargeInv
<1> QED
  BY <1>1, ChargeInit, ChargeStep, PTL DEF Spec

-----------------------------------------------------------------------------
(* Which executions run together *)

Early == {"accepted", "analyzing_human"}
StartDone == "start" \in begun /\ \A e \in Execution : InFlight(e) => executing[e] # "start"

\* What lets nobody but the first execution work on the job.
NotReady ==
    /\ record.status \in Early
    /\ admitted = Absent /\ "generate" \notin known
    /\ \A c \in Client : At(c, "idle")

\* Until its last save, the first execution keeps it that way.
StartHolds(e) ==
    executing[e] = "start" /\ InFlight(e) /\ ~(At(e, "saving") /\ out[e].then = "returned") =>
        job[e].status \in Early /\ (At(e, "saving") => out[e].as.status \in Early)

FlowInv ==
    /\ TypeInv
    /\ again = {} =>
        /\ \A e, f \in Execution : executing[e] # Absent /\ executing[e] = executing[f] => e = f
        /\ StartDone \/ NotReady
        /\ \A e \in Execution : StartHolds(e)

LEMMA FlowInit == Init => FlowInv
<1> SUFFICES ASSUME Init PROVE FlowInv
  OBVIOUS
<1>1. TypeInv
  BY TypeInvInit
<1>2. /\ record.status = "accepted" /\ admitted = Absent /\ "generate" \notin known
      /\ \A w \in Writer : pc[w] = "idle"
      /\ \A e \in Execution : executing[e] = Absent
  BY NothingInHand DEF Init, Queue!Init
<1> QED
  BY <1>1, <1>2, Unrelated DEF FlowInv, NotReady, StartHolds, Early, InFlight, At

LEMMA FlowStep == FlowInv /\ [Next]_vars => FlowInv'
<1> SUFFICES ASSUME FlowInv, [Next]_vars PROVE FlowInv'
  OBVIOUS
<1>t. TypeInv /\ TypeInv' /\ Execution \subseteq Writer /\ Client \subseteq Writer /\ Execution \cap Client = {}
  BY TypeInvStep, Unrelated DEF FlowInv
<1>n. SUFFICES ASSUME again' = {} PROVE FlowInv'
  BY <1>t DEF FlowInv
<1>o. /\ again = {}
      /\ \A e, f \in Execution : executing[e] # Absent /\ executing[e] = executing[f] => e = f
      /\ StartDone \/ NotReady
      /\ \A e \in Execution : StartHolds(e)
      /\ \A e \in Execution : executing[e] # Absent => executing[e] \in begun
      /\ begun \subseteq known
  BY <1>n, <1>t, Grows DEF FlowInv, TypeInv, TypeOK, Shapes
<1>a. "start" # Absent /\ "generate" # Absent
  BY TryOnAssumption
\* A step that leaves the executions alone.
<1>1. ASSUME UNCHANGED <<begun, executing>>, \A e \in Execution : pc'[e] = pc[e] /\ job'[e] = job[e] /\ out'[e] = out[e],
             NotReady => StartDone \/ NotReady'
      PROVE  FlowInv'
  BY <1>1, <1>t, <1>o DEF FlowInv, StartDone, StartHolds, InFlight, At
\* One of an execution that neither starts a call nor ends its work on the job.
<1>2. ASSUME NEW e \in Execution, Acts(e), executing' = executing, begun' = begun, InFlight(e), InFlight(e)',
             StartHolds(e)', NotReady /\ executing[e] = "start" => record'.status \in Early,
             UNCHANGED <<admitted, known>>
      PROVE  FlowInv'
  <2>1. \A v \in Writer \ {e} : pc'[v] = pc[v] /\ job'[v] = job[v] /\ out'[v] = out[v]
    BY <1>t, <1>2, Elsewhere
  <2>2. \A f \in Execution : StartHolds(f)'
    BY <1>2, <1>o, <1>t, <2>1 DEF StartHolds, InFlight, At
  <2>3. StartDone' <=> StartDone
    BY <1>2, <1>t, <2>1 DEF StartDone, InFlight, At
  <2>4. executing[e] = "generate" \/ executing[e] = "start"
    BY <1>2, <1>t DEF TypeInv, TypeOK, QueueJob, InFlight, At
  <2>5. executing[e] = "generate" => StartDone
    BY <1>o, <1>a, <2>4 DEF NotReady
  <2>6. NotReady /\ executing[e] = "start" => NotReady'
    BY <1>2, <1>t, <2>1 DEF NotReady, At
  <2> QED
    BY <1>2, <1>t, <1>o, <2>2, <2>3, <2>4, <2>5, <2>6 DEF FlowInv
\* One that ends it.
<1>3. ASSUME NEW e \in Execution, Acts(e), ~InFlight(e)', executing'[e] \in {executing[e], Absent},
             UNCHANGED <<begun, admitted, known>>, executing[e] # "start" \/ ~InFlight(e) => record' = record
      PROVE  FlowInv'
  <2>1. \A v \in Writer \ {e} :
          /\ pc'[v] = pc[v] /\ job'[v] = job[v] /\ out'[v] = out[v]
          /\ v \in Execution => executing'[v] = executing[v]
    BY <1>t, <1>3, Elsewhere
  <2>2. \A f \in Execution : StartHolds(f)'
    BY <1>3, <1>o, <1>t, <2>1 DEF StartHolds, InFlight, At
  <2>3. \A f, g \in Execution : executing'[f] # Absent /\ executing'[f] = executing'[g] => f = g
    BY <1>3, <1>o, <1>t, <2>1
  <2>4. StartDone => StartDone'
    BY <1>3, <1>t, <2>1 DEF StartDone, InFlight, At
  <2>5. InFlight(e) /\ executing[e] = "start" => StartDone'
    BY <1>3, <1>o, <1>a, <1>t, <2>1 DEF StartDone, InFlight, At
  <2>6. NotReady /\ record' = record => NotReady'
    BY <1>3, <1>t, <2>1 DEF NotReady, At
  <2> QED
    BY <1>3, <1>t, <1>o, <2>2, <2>3, <2>4, <2>5, <2>6 DEF FlowInv
<1>4. ASSUME NEW e \in Execution, Writes(e) PROVE FlowInv'
  <2>1. /\ pc'[e] = "saving" /\ InFlight(e) /\ ~At(e, "saving")
        /\ UNCHANGED <<record, admitted, known, begun, executing>>
    BY <1>t, <1>4, WritesAll DEF queue
  <2>2. executing[e] = "start" => job[e].status \in Early
    BY <1>o, <2>1 DEF StartHolds
  <2>3. executing[e] = "start" /\ out'[e].then # "returned" => job'[e].status \in Early /\ out'[e].as.status \in Early
    BY <1>t, <1>4, <2>2, WritesWhat DEF Early
  <2>4. StartHolds(e)' /\ InFlight(e)'
    BY <2>1, <2>3 DEF StartHolds, InFlight, At
  <2>5. record'.status = record.status
    BY <2>1
  <2> QED
    BY <1>2, <1>4, <1>t, <2>1, <2>4, <2>5 DEF Acts, NotReady
<1>5. ASSUME NEW e \in Execution, Commit(e) PROVE FlowInv'
  <2>1. /\ At(e, "saving") /\ pc'[e] = out[e].then
        /\ job'[e] = IF out[e].then \in {"idle", "returned"} THEN Created ELSE job[e]
        /\ UNCHANGED <<admitted, known, begun, executing>>
        /\ record'.status \in {record.status, out[e].as.status}
    BY <1>t, <1>5, Commits DEF queue
  <2>2. out[e].then \in {"analyzing", "instructing", "generating", "returned"} /\ InFlight(e)
    BY <1>t, <2>1 DEF TypeInv, Shapes, InFlight, At
  <2>3. CASE out[e].then # "returned"
    <3>1. InFlight(e)' /\ ~At(e, "saving")' /\ job'[e] = job[e]
      BY <2>1, <2>2, <2>3 DEF InFlight, At
    <3>2. executing[e] = "start" => job[e].status \in Early /\ out[e].as.status \in Early
      BY <1>o, <2>1, <2>2, <2>3 DEF StartHolds
    <3>3. StartHolds(e)'
      BY <2>1, <3>1, <3>2 DEF StartHolds
    <3>4. NotReady /\ executing[e] = "start" => record'.status \in Early
      BY <2>1, <3>2 DEF NotReady
    <3> QED
      BY <1>2, <1>5, <1>t, <2>1, <2>2, <3>1, <3>3, <3>4 DEF Acts
  <2>4. CASE out[e].then = "returned"
    <3>1. ~InFlight(e)'
      BY <2>1, <2>4 DEF InFlight, At
    <3>2. CASE executing[e] = "start"
      BY <1>3, <1>5, <1>t, <2>1, <2>2, <3>1, <3>2 DEF Acts
    <3>3. CASE executing[e] # "start"
      <4>1. executing[e] = "generate"
        BY <1>t, <2>2, <3>3 DEF TypeInv, TypeOK, QueueJob, InFlight, At
      <4>2. StartDone
        BY <1>o, <1>a, <4>1 DEF NotReady
      <4>3. \A v \in Writer \ {e} :
              /\ pc'[v] = pc[v] /\ job'[v] = job[v] /\ out'[v] = out[v]
        BY <1>t, <1>5, Elsewhere DEF Acts
      <4>4. StartDone' /\ \A f \in Execution : StartHolds(f)'
        BY <1>o, <1>t, <2>1, <3>1, <3>3, <4>2, <4>3 DEF StartDone, StartHolds, InFlight, At
      <4> QED
        BY <1>o, <1>t, <2>1, <4>4 DEF FlowInv
    <3> QED
      BY <3>2, <3>3
  <2> QED
    BY <2>3, <2>4
<1>6. ASSUME NEW e \in Execution, Returns(e) \/ Dies(e) PROVE FlowInv'
  <2>1. /\ pc'[e] = "idle" /\ executing'[e] = Absent
        /\ UNCHANGED <<record, admitted, known, begun>>
    BY <1>t, <1>6, Ends
  <2> QED
    BY <1>3, <1>6, <1>t, <2>1 DEF Acts, InFlight, At
<1>7. ASSUME NEW e \in Execution, Works(e) PROVE FlowInv'
  <2>1. /\ At(e, "generating") \/ At(e, "judging") \/ At(e, "judged")
        /\ pc'[e] \in {"generating", "judging", "judged"}
        /\ UNCHANGED <<record, admitted, known, begun, executing, job, out>>
    BY <1>t, <1>7, Labours DEF external, queue
  <2>2. InFlight(e) /\ ~At(e, "saving") /\ InFlight(e)' /\ ~At(e, "saving")'
    BY <2>1 DEF InFlight, At
  <2>3. StartHolds(e)'
    BY <1>o, <2>1, <2>2 DEF StartHolds
  <2> QED
    BY <1>2, <1>7, <1>t, <2>1, <2>2, <2>3 DEF Acts, NotReady
<1>8. ASSUME NEW e \in Execution, NEW q \in QueueJob, Begin(e, q) PROVE FlowInv'
  <2>1. /\ pc'[e] = "loaded" /\ executing[e] = Absent /\ executing'[e] = q /\ job'[e] = record
        /\ q \in known /\ begun' = begun \cup {q}
        /\ UNCHANGED <<record, admitted, known>>
    BY <1>t, <1>8, Begins
  <2>2. q \notin begun
    BY <1>8, <1>o DEF Begin, Queue!Begin
  <2>3. \A v \in Writer \ {e} :
          /\ pc'[v] = pc[v] /\ job'[v] = job[v] /\ out'[v] = out[v]
          /\ v \in Execution => executing'[v] = executing[v]
    BY <1>t, <1>8, Elsewhere DEF Acts
  <2>4. \A f, g \in Execution : executing'[f] # Absent /\ executing'[f] = executing'[g] => f = g
    BY <1>o, <1>t, <2>1, <2>2, <2>3
  <2>5. NotReady => NotReady'
    BY <1>t, <2>1, <2>3 DEF NotReady, At
  <2>6. CASE q = "start"
    <3>1. NotReady
      BY <1>o, <2>2, <2>6 DEF StartDone
    <3>2. StartHolds(e)'
      BY <2>1, <3>1 DEF StartHolds, NotReady, At
    <3>3. \A f \in Execution : StartHolds(f)'
      BY <1>o, <1>t, <2>3, <3>2 DEF StartHolds, InFlight, At
    <3> QED
      BY <1>t, <2>4, <2>5, <3>1, <3>3 DEF FlowInv
  <2>7. CASE q = "generate"
    <3>1. StartDone
      BY <1>o, <2>1, <2>7 DEF NotReady
    <3>2. StartDone'
      BY <1>t, <2>1, <2>3, <2>7, <3>1 DEF StartDone, InFlight, At
    <3>3. \A f \in Execution : StartHolds(f)'
      BY <1>o, <1>t, <2>1, <2>3, <2>7 DEF StartHolds, InFlight, At
    <3> QED
      BY <1>t, <2>4, <3>2, <3>3 DEF FlowInv
  <2> QED
    BY <2>6, <2>7 DEF QueueJob
<1>9. ASSUME NEW c \in Client, PutLoads(c) \/ PutResolves(c) \/ PutRefused(c) \/ Commit(c) PROVE FlowInv'
  <2>1. \A v \in Writer \ {c} : pc'[v] = pc[v] /\ job'[v] = job[v] /\ out'[v] = out[v]
    BY <1>9, <1>t, Elsewhere DEF Acts
  <2>2. UNCHANGED <<begun, executing>>
    BY <1>9, <1>t, OtherRequests DEF queue
  <2>3. ~NotReady
    <3>1. CASE PutLoads(c)
      BY <1>t, <3>1, Requests DEF NotReady, Early
    <3>2. CASE PutResolves(c) \/ PutRefused(c) \/ Commit(c)
      <4>1. At(c, "resolving") \/ At(c, "saving")
        BY <1>t, <3>2, Requests, Commits
      <4> QED
        BY <4>1 DEF NotReady, At
    <3> QED
      BY <1>9, <3>1, <3>2
  <2> QED
    BY <1>1, <1>t, <2>1, <2>2, <2>3
<1>10. CASE /\ \/ \E m \in StartMode : EnqueueStart(m)
               \/ \E m \in GenerateMode : Admit(m)
               \/ EnqueueGenerate
               \/ \E q \in QueueJob : QueueMoves(q)
            /\ UNCHANGED <<record, charged, begun, executing, local, faults, seenBy>>
  <2>1. UNCHANGED <<record, pc, job, out, begun, executing>>
    BY <1>10 DEF local
  <2>2. NotReady => UNCHANGED admitted /\ "generate" \notin known'
    <3>1. ASSUME NEW m \in StartMode, EnqueueStart(m), NotReady PROVE admitted' = admitted /\ "generate" \notin known'
      BY <3>1 DEF EnqueueStart, Queue!Enqueue, NotReady
    <3>2. ASSUME NEW m \in GenerateMode, Admit(m), NotReady PROVE FALSE
      BY <3>2 DEF Admit, NotReady, Early
    <3>3. ASSUME EnqueueGenerate, NotReady PROVE FALSE
      BY <3>3 DEF EnqueueGenerate, NotReady
    <3>4. ASSUME NEW q \in QueueJob, QueueMoves(q), NotReady PROVE admitted' = admitted /\ "generate" \notin known'
      BY <3>4 DEF QueueMoves, Queue!Close, Queue!Suspect, NotReady
    <3> QED
      BY <1>10, <3>1, <3>2, <3>3, <3>4
  <2>3. NotReady => NotReady'
    BY <2>1, <2>2 DEF NotReady, At
  <2> QED
    BY <1>1, <2>1, <2>3
<1>11. CASE UNCHANGED vars
  <2>1. UNCHANGED <<record, admitted, pc, job, out, begun, executing, known>>
    BY <1>11 DEF vars, local, queue
  <2> QED
    BY <1>1, <2>1 DEF NotReady, At
<1> QED
  BY <1>4, <1>5, <1>6, <1>7, <1>8, <1>9, <1>10, <1>11, Steps DEF Acts, Writer

\* Two executions work on a job together only if the queue called it again: the
\* route that continues a job waits for the last save of the one that began it.
THEOREM OneAtATime == Spec => []OneExecution
<1>1. FlowInv => OneExecution
  <2> SUFFICES ASSUME FlowInv, again = {}, NEW e \in Execution, NEW f \in Execution, InFlight(e), InFlight(f)
               PROVE  e = f
    BY DEF OneExecution
  <2>1. executing[e] \in QueueJob /\ executing[f] \in QueueJob /\ Absent \notin QueueJob
        /\ begun \subseteq known
    BY TryOnAssumption DEF FlowInv, TypeInv, TypeOK, InFlight, At, QueueJob
  <2>2. "generate" \in {executing[e], executing[f]} => StartDone
    BY <2>1 DEF FlowInv, TypeInv, Shapes, NotReady
  <2>3. executing[e] = executing[f]
    BY <2>1, <2>2 DEF StartDone, QueueJob
  <2> QED
    BY <2>1, <2>3 DEF FlowInv
<1> QED
  BY <1>1, FlowInit, FlowStep, PTL DEF Spec

-----------------------------------------------------------------------------
(* What an outcome says *)

Coherent(a) ==
    /\ a.status = "completed" => a.result = a.controls /\ a.result = a.instruction /\ ~a.error
    /\ a.status = "failed" => a.result = Absent /\ a.error

Instructed(e) ==
    \/ At(e, "generating") \/ At(e, "judging") \/ At(e, "judged")
    \/ At(e, "saving") /\ out[e].then = "generating"

OutcomeInv ==
    /\ TypeInv
    /\ \A w \in fresh : At(w, "saving") => out[w].seen = Columns(record)
    /\ \A e \in Execution : Instructed(e) => job[e].instruction = job[e].controls
    /\ \A c \in Client : /\ ~At(c, "idle") => job[c].status = "analysis_ready"
                         /\ At(c, "saving") => out[c].as.status = "analysis_ready"
    /\ ~stale =>
          /\ Coherent(record)
          /\ \A w \in fresh : Coherent(job[w]) /\ (At(w, "saving") => Coherent(out[w].as))

LEMMA CoherentNow == \A a : a.status \notin Final => Coherent(a)
BY DEF Coherent, Final

LEMMA OutcomeInit == Init => OutcomeInv
<1> SUFFICES ASSUME Init PROVE OutcomeInv
  OBVIOUS
<1>1. TypeInv
  BY TypeInvInit
<1>2. record = Created /\ fresh = {} /\ \A w \in Writer : pc[w] = "idle"
  BY DEF Init
<1>3. Created.status \notin Final
  BY NothingInHand DEF Final
<1> QED
  BY <1>1, <1>2, <1>3, CoherentNow, Unrelated DEF OutcomeInv, Instructed, At

LEMMA OutcomeStep == OutcomeInv /\ [Next]_vars => OutcomeInv'
<1> SUFFICES ASSUME OutcomeInv, [Next]_vars PROVE OutcomeInv'
  OBVIOUS
<1>t. TypeInv /\ TypeInv' /\ Execution \subseteq Writer /\ Client \subseteq Writer /\ Execution \cap Client = {}
  BY TypeInvStep, Unrelated DEF OutcomeInv
<1>o. /\ \A w \in fresh : At(w, "saving") => out[w].seen = Columns(record)
      /\ \A e \in Execution : Instructed(e) => job[e].instruction = job[e].controls
      /\ \A c \in Client : /\ ~At(c, "idle") => job[c].status = "analysis_ready"
                           /\ At(c, "saving") => out[c].as.status = "analysis_ready"
      /\ ~stale =>
            /\ Coherent(record)
            /\ \A w \in fresh : Coherent(job[w]) /\ (At(w, "saving") => Coherent(out[w].as))
  BY DEF OutcomeInv
<1>f. fresh \subseteq Writer
  BY <1>t DEF TypeInv, TypeOK
<1>r. "analysis_ready" \notin Final /\ Created.status \notin Final
  BY NothingInHand DEF Final
<1>1. ASSUME UNCHANGED <<record, pc, job, out, fresh, stale>> PROVE OutcomeInv'
  BY <1>1, <1>t, <1>o DEF OutcomeInv, At, Instructed
\* A writer moves and the record does not.
<1>2. ASSUME NEW w \in Writer, Acts(w), UNCHANGED <<record, stale>>, fresh' \subseteq fresh \cup {w},
             At(w, "saving")' => out'[w].seen = Columns(record),
             w \in Execution /\ Instructed(w)' => job'[w].instruction = job'[w].controls,
             w \in Client => /\ ~At(w, "idle")' => job'[w].status = "analysis_ready"
                             /\ At(w, "saving")' => out'[w].as.status = "analysis_ready",
             ~stale /\ w \in fresh' => Coherent(job'[w]) /\ (At(w, "saving")' => Coherent(out'[w].as))
      PROVE  OutcomeInv'
  <2>1. \A v \in Writer \ {w} : pc'[v] = pc[v] /\ job'[v] = job[v] /\ out'[v] = out[v]
    BY <1>t, <1>2, Elsewhere
  <2>2. \A v \in fresh' : At(v, "saving")' => out'[v].seen = Columns(record')
    BY <1>2, <1>o, <1>f, <2>1 DEF At
  <2>3. \A e \in Execution : Instructed(e)' => job'[e].instruction = job'[e].controls
    BY <1>2, <1>o, <1>t, <2>1 DEF At, Instructed
  <2>4. \A c \in Client : /\ ~At(c, "idle")' => job'[c].status = "analysis_ready"
                          /\ At(c, "saving")' => out'[c].as.status = "analysis_ready"
    BY <1>2, <1>o, <1>t, <2>1 DEF At
  <2>5. ~stale' =>
          /\ Coherent(record')
          /\ \A v \in fresh' : Coherent(job'[v]) /\ (At(v, "saving")' => Coherent(out'[v].as))
    BY <1>2, <1>o, <1>f, <2>1 DEF At
  <2> QED
    BY <1>t, <2>2, <2>3, <2>4, <2>5 DEF OutcomeInv, Coherent, Instructed, At
<1>3. ASSUME NEW e \in Execution, Writes(e) PROVE OutcomeInv'
  <2>1. pc'[e] = "saving" /\ out'[e].seen = Columns(record) /\ UNCHANGED <<record, fresh, stale>>
    BY <1>t, <1>3, WritesAll DEF seenBy
  <2>2. Instructed(e)' => job'[e].instruction = job'[e].controls
    BY <1>t, <1>3, <2>1, WritesWhat DEF Instructed, At
  <2>3. ASSUME ~stale, e \in fresh PROVE Coherent(job'[e]) /\ Coherent(out'[e].as)
    <3>1. Coherent(job[e])
      BY <1>o, <2>3
    <3>2. At(e, "judging") \/ At(e, "judged") => job[e].instruction = job[e].controls
      BY <1>o DEF Instructed
    <3>3. job'[e] = job[e] \/ job'[e] = out'[e].as
      BY <1>t, <1>3, WritesWhat
    <3>4. Coherent(out'[e].as)
      <4>1. CASE out'[e].as.status \notin Final
        BY <4>1, CoherentNow
      <4>2. CASE out'[e].as.status = "failed" /\ out'[e].as.result = Absent /\ out'[e].as.error
        BY <4>2 DEF Coherent
      <4>3. CASE /\ out'[e].as.status = job[e].status /\ SameOutcome(out'[e].as, job[e])
                 /\ out'[e].as.controls = job[e].controls
                 /\ out'[e].as.instruction \in {job[e].instruction, job[e].controls}
        BY <3>1, <4>3 DEF Coherent, SameOutcome
      <4>4. CASE /\ out'[e].as.status = "completed" /\ out'[e].as.controls = job[e].controls
                 /\ out'[e].as.instruction = job[e].instruction
                 /\ out'[e].as.result = job[e].instruction /\ ~out'[e].as.error
                 /\ (At(e, "judging") \/ At(e, "judged"))
        BY <3>2, <4>4 DEF Coherent
      <4> QED
        BY <1>t, <1>3, <4>1, <4>2, <4>3, <4>4, WritesWhat DEF Final
    <3> QED
      BY <3>1, <3>3, <3>4
  <2> QED
    BY <1>2, <1>3, <1>t, <2>1, <2>2, <2>3 DEF Acts
<1>4. ASSUME NEW w \in Writer, Commit(w) PROVE OutcomeInv'
  <2>1. /\ At(w, "saving") /\ pc'[w] = out[w].then /\ out'[w] = NoSave
        /\ job'[w] = IF out[w].then \in {"idle", "returned"} THEN Created ELSE job[w]
        /\ fresh' = IF out[w].then \in {"idle", "returned"} THEN {} ELSE {w}
        /\ stale' = (stale \/ w \notin fresh)
        /\ out[w].seen = Columns(record) => record' = out[w].as
    BY <1>t, <1>4, Commits
  <2>2. /\ out[w].then # "saving" /\ (w \in Client => out[w].then = "idle")
        /\ w \in Execution => out[w].then \in {"analyzing", "instructing", "generating", "returned"}
    BY <1>t, <2>1 DEF TypeInv, Shapes, Writer
  <2>3. \A v \in Writer \ {w} : pc'[v] = pc[v] /\ job'[v] = job[v] /\ out'[v] = out[v]
    BY <1>t, <1>4, Elsewhere DEF Acts
  <2>4. \A v \in fresh' : ~At(v, "saving")'
    BY <2>1, <2>2 DEF At
  <2>5. \A e \in Execution : Instructed(e)' => job'[e].instruction = job'[e].controls
    BY <1>o, <1>t, <2>1, <2>2, <2>3 DEF Instructed, At
  <2>6. \A c \in Client : /\ ~At(c, "idle")' => job'[c].status = "analysis_ready"
                          /\ At(c, "saving")' => out'[c].as.status = "analysis_ready"
    BY <1>o, <1>t, <2>1, <2>2, <2>3 DEF At
  <2>7. ASSUME ~stale' PROVE Coherent(record') /\ \A v \in fresh' : Coherent(job'[v])
    <3>1. ~stale /\ w \in fresh
      BY <2>1, <2>7
    <3>2. Coherent(job[w]) /\ Coherent(out[w].as) /\ record' = out[w].as
      BY <1>o, <2>1, <3>1
    <3> QED
      BY <2>1, <3>2
  <2> QED
    BY <1>t, <2>4, <2>5, <2>6, <2>7 DEF OutcomeInv, Coherent, Instructed, At
<1>5. ASSUME NEW e \in Execution, Returns(e) \/ Dies(e) PROVE OutcomeInv'
  <2>1. /\ pc'[e] = "idle" /\ job'[e] = Created /\ fresh' = fresh \ {e} /\ UNCHANGED <<record, stale>>
    BY <1>t, <1>5, Ends
  <2> QED
    BY <1>2, <1>5, <1>t, <2>1 DEF Acts, Instructed, At
<1>6. ASSUME NEW e \in Execution, Works(e) PROVE OutcomeInv'
  <2>1. /\ At(e, "generating") \/ At(e, "judging") \/ At(e, "judged")
        /\ pc'[e] \in {"generating", "judging", "judged"}
        /\ UNCHANGED <<record, fresh, stale, job, out>>
    BY <1>t, <1>6, Labours DEF external, seenBy
  <2>2. /\ ~At(e, "saving")' /\ job[e].instruction = job[e].controls
        /\ ~stale /\ e \in fresh => Coherent(job[e])
    BY <1>o, <2>1 DEF Instructed, At
  <2> QED
    BY <1>2, <1>6, <1>t, <2>1, <2>2 DEF Acts
<1>7. ASSUME NEW e \in Execution, NEW q \in QueueJob, Begin(e, q) PROVE OutcomeInv'
  <2>1. pc'[e] = "loaded" /\ job'[e] = record /\ fresh' = fresh \cup {e} /\ UNCHANGED <<record, stale>>
    BY <1>t, <1>7, Begins
  <2> QED
    BY <1>2, <1>7, <1>t, <1>o, <2>1 DEF Acts, Instructed, At
<1>8. ASSUME NEW c \in Client, PutLoads(c) \/ PutResolves(c) \/ PutRefused(c) PROVE OutcomeInv'
  <2>1. CASE PutLoads(c)
    <3>1. /\ pc'[c] = "resolving" /\ record.status = "analysis_ready" /\ job'[c] = record
          /\ fresh' = fresh \cup {c} /\ UNCHANGED <<record, stale>>
      BY <1>t, <2>1, Requests
    <3> QED
      BY <1>2, <1>8, <1>t, <1>r, <3>1, CoherentNow DEF Acts, At
  <2>2. CASE PutResolves(c)
    <3>1. /\ At(c, "resolving") /\ pc'[c] = "saving" /\ job'[c] = job[c]
          /\ out'[c].seen = Columns(record) /\ out'[c].as.status = job[c].status
          /\ UNCHANGED <<record, fresh, stale>>
      BY <1>t, <2>2, Requests
    <3>2. job[c].status = "analysis_ready"
      BY <1>o, <3>1 DEF At
    <3>3. Coherent(job[c]) /\ Coherent(out'[c].as)
      BY <1>r, <3>1, <3>2, CoherentNow
    <3> QED
      BY <1>2, <1>8, <1>t, <3>1, <3>2, <3>3 DEF Acts, At
  <2>3. CASE PutRefused(c)
    <3>1. pc'[c] = "idle" /\ fresh' = fresh \ {c} /\ UNCHANGED <<record, stale>>
      BY <1>t, <2>3, Requests
    <3> QED
      BY <1>2, <1>8, <1>t, <3>1 DEF Acts, At
  <2> QED
    BY <1>8, <2>1, <2>2, <2>3
<1> QED
  BY <1>1, <1>3, <1>4, <1>5, <1>6, <1>7, <1>8, Steps DEF Acts, vars, local, seenBy

\* While nobody overwrites what he has not seen, the outcome a job shows is of one
\* piece: the image of the controls it lists, or its error.
THEOREM OutcomesCohere == Spec => []OutcomeCoherent
<1>1. OutcomeInv => OutcomeCoherent
  BY DEF OutcomeInv, OutcomeCoherent, Coherent
<1> QED
  BY <1>1, OutcomeInit, OutcomeStep, PTL DEF Spec

-----------------------------------------------------------------------------
(* That an outcome stays *)

\* No outcome is reached while somebody still knows the job: who continues it
\* finds it ready, and nobody else has it in hand when its last save is made.
FinalInv ==
    /\ FlowInv /\ OutcomeInv
    /\ again = {} /\ ~stale =>
          /\ (admitted # Absent \/ "generate" \in known) /\ "generate" \notin begun =>
                record.status = "analysis_ready"
          /\ \A w \in fresh :
                /\ record.status \notin Final /\ job[w].status \notin Final
                /\ At(w, "saving") /\ out[w].then \notin {"idle", "returned"} => out[w].as.status \notin Final

LEMMA FinalInit == Init => FinalInv
<1> SUFFICES ASSUME Init PROVE FinalInv
  OBVIOUS
<1>1. fresh = {} /\ admitted = Absent /\ known = {}
  BY DEF Init, Queue!Init
<1> QED
  BY <1>1, FlowInit, OutcomeInit DEF FinalInv

LEMMA FinalStep == FinalInv /\ [Next]_vars => FinalInv'
<1> SUFFICES ASSUME FinalInv, [Next]_vars PROVE FinalInv'
  OBVIOUS
<1>t. /\ FlowInv /\ FlowInv' /\ OutcomeInv /\ OutcomeInv' /\ TypeInv
      /\ Execution \subseteq Writer /\ Client \subseteq Writer /\ Execution \cap Client = {}
  BY FlowStep, OutcomeStep, Unrelated DEF FinalInv, FlowInv
<1>s. stale => stale'
  <2>1. CASE \E w \in Writer : Acts(w)
    BY <1>t, <2>1, WritesAll, Commits, Ends, Labours, Begins, Requests DEF Acts, seenBy, external
  <2> QED
    BY <2>1, Steps DEF vars, seenBy
<1>n. SUFFICES ASSUME again' = {}, ~stale' PROVE FinalInv'
  BY <1>t DEF FinalInv
<1>o. /\ again = {} /\ ~stale /\ fresh \subseteq Writer
      /\ (admitted # Absent \/ "generate" \in known) /\ "generate" \notin begun => record.status = "analysis_ready"
      /\ \A w \in fresh :
            /\ record.status \notin Final /\ job[w].status \notin Final
            /\ At(w, "saving") /\ out[w].then \notin {"idle", "returned"} => out[w].as.status \notin Final
  BY <1>n, <1>s, <1>t, Grows DEF FinalInv, TypeInv, TypeOK
<1>f. \A s \in Early \cup {"analysis_ready"} : s \notin Final
  BY DEF Early, Final
\* A step of one who does not write the record.
<1>1. ASSUME NEW w \in Writer, Acts(w), UNCHANGED <<record, admitted, known>>, begun \subseteq begun',
             fresh' \subseteq fresh \cup {w},
             w \in fresh' =>
               /\ record.status \notin Final /\ job'[w].status \notin Final
               /\ At(w, "saving")' /\ out'[w].then \notin {"idle", "returned"} => out'[w].as.status \notin Final
      PROVE  FinalInv'
  <2>1. \A v \in Writer \ {w} : pc'[v] = pc[v] /\ job'[v] = job[v] /\ out'[v] = out[v]
    BY <1>t, <1>1, Elsewhere
  <2> QED
    BY <1>1, <1>o, <1>t, <2>1 DEF FinalInv, At
<1>2. ASSUME NEW e \in Execution, Writes(e) PROVE FinalInv'
  <2>1. UNCHANGED <<record, admitted, known, begun, fresh>>
    BY <1>t, <1>2, WritesAll DEF queue, seenBy
  <2>2. ASSUME e \in fresh PROVE job'[e].status \notin Final /\ (out'[e].then # "returned" => out'[e].as.status \notin Final)
    BY <1>t, <1>2, <1>o, <2>2, WritesWhat DEF Final
  <2> QED
    BY <1>1, <1>2, <1>t, <1>o, <2>1, <2>2 DEF Acts
<1>3. ASSUME NEW w \in Writer, Commit(w) PROVE FinalInv'
  <2>1. /\ At(w, "saving") /\ w \in fresh
        /\ job'[w] = IF out[w].then \in {"idle", "returned"} THEN Created ELSE job[w]
        /\ fresh' = IF out[w].then \in {"idle", "returned"} THEN {} ELSE {w}
        /\ pc'[w] = out[w].then
        /\ UNCHANGED <<admitted, known, begun>>
        /\ out[w].seen = Columns(record) => record' = out[w].as
    BY <1>t, <1>3, <1>n, Commits DEF queue
  <2>2. record' = out[w].as
    BY <1>t, <2>1 DEF OutcomeInv
  <2>3. out[w].then # "saving"
    BY <1>t, <2>1 DEF TypeInv, Shapes, Writer
  <2>4. ASSUME NEW v \in fresh'
        PROVE /\ record'.status \notin Final /\ job'[v].status \notin Final /\ ~At(v, "saving")'
    BY <1>o, <2>1, <2>2, <2>3 DEF At
  <2>5. ASSUME admitted # Absent \/ "generate" \in known, "generate" \notin begun
        PROVE  record'.status = "analysis_ready"
    <3>1. StartDone
      BY <1>o, <1>t, <2>5 DEF FlowInv, NotReady
    <3>2. CASE w \in Execution
      <4>1. InFlight(w) /\ executing[w] \in QueueJob /\ executing[w] \in begun
        BY <1>t, <2>1, <3>2 DEF TypeInv, TypeOK, Shapes, InFlight, At
      <4> QED
        BY <2>5, <3>1, <3>2, <4>1 DEF StartDone, QueueJob
    <3>3. CASE w \in Client
      BY <1>t, <2>1, <2>2, <3>3 DEF OutcomeInv
    <3> QED
      BY <3>2, <3>3 DEF Writer
  <2> QED
    BY <1>t, <2>1, <2>4, <2>5 DEF FinalInv
<1>4. ASSUME NEW e \in Execution, Returns(e) \/ Dies(e) PROVE FinalInv'
  <2>1. fresh' = fresh \ {e} /\ UNCHANGED <<record, admitted, known, begun>>
    BY <1>t, <1>4, Ends
  <2> QED
    BY <1>1, <1>4, <1>t, <2>1 DEF Acts
<1>5. ASSUME NEW e \in Execution, Works(e) PROVE FinalInv'
  <2>1. pc'[e] \in {"generating", "judging", "judged"} /\ UNCHANGED <<record, admitted, known, begun, fresh, job>>
    BY <1>t, <1>5, Labours DEF external, queue, seenBy
  <2> QED
    BY <1>1, <1>5, <1>t, <1>o, <2>1 DEF Acts, At
<1>6. ASSUME NEW e \in Execution, NEW q \in QueueJob, Begin(e, q) PROVE FinalInv'
  <2>1. /\ pc'[e] = "loaded" /\ job'[e] = record /\ fresh' = fresh \cup {e}
        /\ q \in known /\ begun' = begun \cup {q}
        /\ UNCHANGED <<record, admitted, known>>
    BY <1>t, <1>6, Begins
  <2>2. q \notin begun
    BY <1>6, <1>o DEF Begin, Queue!Begin
  <2>3. CASE q = "start"
    <3>1. record.status \in Early
      BY <1>o, <1>t, <2>2, <2>3 DEF FlowInv, StartDone, NotReady
    <3> QED
      BY <1>1, <1>6, <1>t, <1>f, <2>1, <3>1 DEF Acts, At
  <2>4. CASE q = "generate"
    <3>1. record.status = "analysis_ready"
      BY <1>o, <2>1, <2>2, <2>4
    <3> QED
      BY <1>1, <1>6, <1>t, <1>f, <2>1, <3>1 DEF Acts, At
  <2> QED
    BY <2>3, <2>4 DEF QueueJob
<1>7. ASSUME NEW c \in Client, PutLoads(c) \/ PutResolves(c) \/ PutRefused(c) PROVE FinalInv'
  <2>0. UNCHANGED <<admitted, known, begun>>
    BY <1>7, <1>t, OtherRequests DEF queue
  <2>1. CASE PutLoads(c)
    <3>1. /\ pc'[c] = "resolving" /\ record.status = "analysis_ready" /\ job'[c] = record
          /\ fresh' = fresh \cup {c} /\ record' = record
      BY <1>t, <2>1, Requests
    <3> QED
      BY <1>1, <1>7, <1>t, <1>f, <2>0, <3>1 DEF Acts, At
  <2>2. CASE PutResolves(c)
    <3>1. out'[c].then = "idle" /\ job'[c] = job[c] /\ UNCHANGED <<record, fresh>>
      BY <1>t, <2>2, Requests
    <3> QED
      BY <1>1, <1>7, <1>t, <1>o, <2>0, <3>1 DEF Acts
  <2>3. CASE PutRefused(c)
    <3>1. fresh' = fresh \ {c} /\ record' = record
      BY <1>t, <2>3, Requests
    <3> QED
      BY <1>1, <1>7, <1>t, <2>0, <3>1 DEF Acts
  <2> QED
    BY <1>7, <2>1, <2>2, <2>3
<1>8. CASE /\ \/ \E m \in StartMode : EnqueueStart(m)
              \/ \E m \in GenerateMode : Admit(m)
              \/ EnqueueGenerate
              \/ \E q \in QueueJob : QueueMoves(q)
           /\ UNCHANGED <<record, charged, begun, executing, local, faults, seenBy>>
  <2>1. UNCHANGED <<record, pc, job, out, begun, fresh>>
    BY <1>8 DEF local, seenBy
  <2>2. \/ admitted' # Absent \/ "generate" \in known' => admitted # Absent \/ "generate" \in known
        \/ record.status = "analysis_ready"
    <3>1. ASSUME NEW m \in StartMode, EnqueueStart(m) PROVE admitted' = admitted /\ known' = known \cup {"start"}
      BY <3>1 DEF EnqueueStart, Queue!Enqueue
    <3>2. ASSUME NEW m \in GenerateMode, Admit(m) PROVE record.status = "analysis_ready"
      BY <3>2 DEF Admit
    <3>3. ASSUME EnqueueGenerate PROVE admitted # Absent
      BY <3>3 DEF EnqueueGenerate
    <3>4. ASSUME NEW q \in QueueJob, QueueMoves(q) PROVE admitted' = admitted /\ known' = known
      BY <3>4 DEF QueueMoves, Queue!Close, Queue!Suspect
    <3> QED
      BY <1>8, <3>1, <3>2, <3>3, <3>4
  <2> QED
    BY <1>t, <1>o, <2>1, <2>2 DEF FinalInv, At
<1>9. CASE UNCHANGED vars
  <2>1. UNCHANGED <<record, admitted, pc, job, out, begun, known, fresh>>
    BY <1>9 DEF vars, local, queue, seenBy
  <2> QED
    BY <1>t, <1>o, <2>1 DEF FinalInv, At
<1> QED
  BY <1>2, <1>3, <1>4, <1>5, <1>6, <1>7, <1>8, <1>9, Steps DEF Acts

\* What the user saw as the outcome of a job is not taken back by a writer that
\* was still at work on it.
THEOREM OutcomesStay == Spec => OutcomeFinal
<1>1. FinalInv /\ [Next]_vars => [record.status \in Final /\ again = {} /\ ~stale' => record' = record]_vars
  <2> SUFFICES ASSUME FinalInv, [Next]_vars, record.status \in Final, again = {}, ~stale'
               PROVE  record' = record
    OBVIOUS
  <2>1. TypeInv
    BY DEF FinalInv, FlowInv
  <2>2. ASSUME NEW w \in Writer, Commit(w) PROVE FALSE
    <3>1. ~stale /\ w \in fresh
      BY <2>1, <2>2, Commits
    <3> QED
      BY <3>1 DEF FinalInv
  <2>3. ASSUME NEW w \in Writer, Acts(w) PROVE record' = record
    BY <2>1, <2>2, <2>3, WritesAll, Ends, Labours, Begins, Requests DEF Acts, external
  <2> QED
    BY <2>3, Steps DEF vars
<1> QED
  BY <1>1, FinalInit, FinalStep, PTL DEF Spec, OutcomeFinal

-----------------------------------------------------------------------------
(* What is left when nobody works on the job *)

Ready == "start" \in known /\ mode["start"] = "analysis_only"
Decided(jobs, modes, status) ==
    \/ status \in Final
    \/ status = "analysis_ready" /\ "start" \in jobs /\ modes["start"] = "analysis_only"
    \/ status = "accepted" /\ "generate" \in jobs /\ modes["generate"] = "pending"

\* Whoever saves for the last time saves something decided.
QuietInv ==
    /\ OutcomeInv
    /\ "start" \in known => mode["start"] \in StartMode
    /\ "generate" \in known => mode["generate"] \in GenerateMode
    /\ record.status = "analysis_ready" => Ready
    /\ \A w \in Writer : job[w].status = "analysis_ready" \/ out[w].as.status = "analysis_ready" => Ready
    /\ \A e \in Execution : At(e, "saving") /\ out[e].then = "returned" => Decided(known, mode, out[e].as.status)
    /\ begun # {} /\ faults = 0 /\ ~stale /\ (\A e \in Execution : ~InFlight(e)) => Decided(known, mode, record.status)

LEMMA QuietInit == Init => QuietInv
<1> SUFFICES ASSUME Init PROVE QuietInv
  OBVIOUS
<1>1. /\ known = {} /\ begun = {} /\ record = Created
      /\ \A w \in Writer : pc[w] = "idle" /\ job[w] = Created /\ out[w] = NoSave
  BY DEF Init, Queue!Init
<1> QED
  BY <1>1, OutcomeInit, NothingInHand, Unrelated DEF QuietInv, Decided, Ready, At

LEMMA QuietStep == QuietInv /\ [Next]_vars => QuietInv'
<1> SUFFICES ASSUME QuietInv, [Next]_vars PROVE QuietInv'
  OBVIOUS
<1>t. /\ OutcomeInv /\ OutcomeInv' /\ TypeInv
      /\ Execution \subseteq Writer /\ Client \subseteq Writer /\ Execution \cap Client = {}
  BY OutcomeStep, Unrelated DEF QuietInv, OutcomeInv
<1>o. /\ "start" \in known => mode["start"] \in StartMode
      /\ "generate" \in known => mode["generate"] \in GenerateMode
      /\ record.status = "analysis_ready" => Ready
      /\ \A w \in Writer : job[w].status = "analysis_ready" \/ out[w].as.status = "analysis_ready" => Ready
      /\ \A e \in Execution : At(e, "saving") /\ out[e].then = "returned" => Decided(known, mode, out[e].as.status)
      /\ begun # {} /\ faults = 0 /\ ~stale /\ (\A e \in Execution : ~InFlight(e)) => Decided(known, mode, record.status)
  BY DEF QuietInv
<1>c. Created.status # "analysis_ready" /\ NoSave.as = Created
  BY NothingInHand
<1>g. (Ready => Ready') /\ \A s : Decided(known, mode, s) => Decided(known', mode', s)
  <2>1. known \subseteq known' /\ \A q \in known : mode'[q] = mode[q]
    BY <1>t, Grows
  <2> QED
    BY <2>1 DEF Ready, Decided
<1>m. /\ "start" \in known' => mode'["start"] \in StartMode
      /\ "generate" \in known' => mode'["generate"] \in GenerateMode
  <2>1. /\ mode \in [QueueJob -> StartMode \cup GenerateMode \cup {Absent}] /\ "start" \in QueueJob /\ "generate" \in QueueJob
        /\ admitted \in GenerateMode \cup {Absent}
    BY <1>t DEF TypeInv, TypeOK, QueueJob
  <2>2. ASSUME NEW m \in StartMode, EnqueueStart(m)
        PROVE  known' = known \cup {"start"} /\ mode'["start"] = m /\ mode'["generate"] = mode["generate"]
    BY <2>1, <2>2 DEF EnqueueStart, Queue!Enqueue
  <2>3. ASSUME EnqueueGenerate
        PROVE  known' = known \cup {"generate"} /\ mode'["generate"] \in GenerateMode /\ mode'["start"] = mode["start"]
    BY <2>1, <2>3 DEF EnqueueGenerate, Queue!Enqueue
  <2>4. ASSUME NEW q \in QueueJob, QueueMoves(q) PROVE UNCHANGED <<known, mode>>
    BY <2>4 DEF QueueMoves, Queue!Close, Queue!Suspect
  <2>5. ASSUME NEW m \in GenerateMode, Admit(m) PROVE UNCHANGED <<known, mode>>
    BY <2>5 DEF Admit, queue
  <2>6. ASSUME NEW w \in Writer, Acts(w) PROVE UNCHANGED <<known, mode>>
    BY <1>t, <2>6, WritesAll, Commits, Ends, Labours, Begins, OtherRequests DEF Acts, queue, external
  <2> QED
    BY <1>o, <2>2, <2>3, <2>4, <2>5, <2>6, Steps DEF vars, queue
\* A step of one who does not write the record, and whose call does not end here.
<1>1. ASSUME NEW w \in Writer, Acts(w), record' = record,
             job'[w].status = "analysis_ready" \/ out'[w].as.status = "analysis_ready" => Ready',
             w \in Execution /\ At(w, "saving")' /\ out'[w].then = "returned" => Decided(known', mode', out'[w].as.status),
             \/ w \in Execution /\ InFlight(w)'
             \/ /\ UNCHANGED <<begun, stale>> /\ (faults' = 0 => faults = 0)
                /\ w \in Execution /\ faults' = 0 => ~InFlight(w)
      PROVE  QuietInv'
  <2>1. \A v \in Writer \ {w} : pc'[v] = pc[v] /\ job'[v] = job[v] /\ out'[v] = out[v]
    BY <1>t, <1>1, Elsewhere
  <2>2. record'.status = "analysis_ready" => Ready'
    BY <1>1, <1>o, <1>g
  <2>3. \A v \in Writer : job'[v].status = "analysis_ready" \/ out'[v].as.status = "analysis_ready" => Ready'
    BY <1>1, <1>o, <1>g, <2>1
  <2>4. \A e \in Execution : At(e, "saving")' /\ out'[e].then = "returned" => Decided(known', mode', out'[e].as.status)
    BY <1>1, <1>o, <1>t, <1>g, <2>1 DEF At
  <2>5. begun' # {} /\ faults' = 0 /\ ~stale' /\ (\A e \in Execution : ~InFlight(e)') => Decided(known', mode', record'.status)
    BY <1>1, <1>o, <1>t, <1>g, <2>1 DEF InFlight, At
  <2> QED
    BY <1>t, <1>m, <2>2, <2>3, <2>4, <2>5 DEF QuietInv, Decided, Ready
<1>2. ASSUME NEW e \in Execution, Writes(e) PROVE QuietInv'
  <2>1. /\ pc'[e] = "saving" /\ InFlight(e) /\ record' = record
    BY <1>t, <1>2, WritesAll
  <2>2. executing[e] \in QueueJob /\ executing[e] \in known
    BY <1>t, <2>1 DEF TypeInv, TypeOK, Shapes, InFlight, At
  <2>3. Mode(e) = "pending" => executing[e] = "generate"
    BY <1>o, <2>2, TryOnAssumption DEF Mode, QueueJob
  <2>4. Mode(e) = "analysis_only" => executing[e] = "start"
    BY <1>o, <2>2, TryOnAssumption DEF Mode, QueueJob
  <2>5. /\ Mode(e) = "pending" => Decided(known, mode, "accepted")
        /\ Mode(e) = "analysis_only" => Ready /\ Decided(known, mode, "analysis_ready")
    BY <2>2, <2>3, <2>4 DEF Mode, Decided, Ready
  <2>6. job'[e].status = "analysis_ready" \/ out'[e].as.status = "analysis_ready" => Ready
    BY <1>t, <1>2, <1>o, <2>5, WritesWhat
  <2>7. out'[e].then = "returned" => Decided(known, mode, out'[e].as.status)
    <3>1. Decided(known, mode, "failed") /\ Decided(known, mode, "completed")
      BY DEF Decided, Final
    <3> QED
      BY <1>t, <1>2, <2>5, <3>1, WritesWhat
  <2>8. InFlight(e)'
    BY <2>1 DEF InFlight, At
  <2> QED
    BY <1>1, <1>2, <1>t, <1>g, <2>1, <2>6, <2>7, <2>8 DEF Acts
<1>3. ASSUME NEW w \in Writer, Commit(w) PROVE QuietInv'
  <2>1. /\ At(w, "saving") /\ pc'[w] = out[w].then /\ out'[w] = NoSave
        /\ job'[w] = Created \/ job'[w] = job[w]
        /\ stale' = (stale \/ w \notin fresh)
        /\ record'.status \in {record.status, out[w].as.status}
        /\ out[w].seen = Columns(record) => record' = out[w].as
    BY <1>t, <1>3, Commits
  <2>2. \A v \in Writer \ {w} : pc'[v] = pc[v] /\ job'[v] = job[v] /\ out'[v] = out[v]
    BY <1>t, <1>3, Elsewhere DEF Acts
  <2>3. /\ w \in Client => out[w].as.status = "analysis_ready"
        /\ w \in Execution => out[w].then \in {"analyzing", "instructing", "generating", "returned"}
    BY <1>t, <2>1 DEF OutcomeInv, TypeInv, Shapes
  <2>4. record'.status = "analysis_ready" => Ready'
    BY <1>o, <1>g, <2>1
  <2>5. \A v \in Writer : job'[v].status = "analysis_ready" \/ out'[v].as.status = "analysis_ready" => Ready'
    BY <1>o, <1>c, <1>g, <2>1, <2>2
  <2>6. \A e \in Execution : At(e, "saving")' /\ out'[e].then = "returned" => Decided(known', mode', out'[e].as.status)
    BY <1>o, <1>t, <1>g, <2>1, <2>2, <2>3 DEF At
  <2>7. ASSUME ~stale', \A e \in Execution : ~InFlight(e)' PROVE Decided(known', mode', record'.status)
    <3>1. record' = out[w].as
      BY <1>t, <2>1, <2>7 DEF OutcomeInv
    <3>2. CASE w \in Execution
      <4>1. out[w].then = "returned"
        BY <2>1, <2>3, <2>7, <3>2 DEF InFlight, At
      <4> QED
        BY <1>o, <1>g, <2>1, <3>1, <3>2, <4>1
    <3>3. CASE w \in Client
      <4>1. Ready'
        BY <1>o, <1>t, <1>g, <2>3, <3>3
      <4> QED
        BY <2>3, <3>1, <3>3, <4>1 DEF Decided, Ready
    <3> QED
      BY <3>2, <3>3 DEF Writer
  <2> QED
    BY <1>t, <1>m, <2>4, <2>5, <2>6, <2>7 DEF QuietInv, Decided, Ready
<1>4. ASSUME NEW e \in Execution, Returns(e) \/ Dies(e) PROVE QuietInv'
  <2>1. /\ pc'[e] = "idle" /\ job'[e] = Created /\ out'[e] = NoSave
        /\ UNCHANGED <<record, begun, stale>>
        /\ faults' = 0 => At(e, "returned") /\ faults = 0
    BY <1>t, <1>4, Ends
  <2>2. faults' = 0 => ~InFlight(e)
    BY <2>1 DEF InFlight, At
  <2> QED
    BY <1>1, <1>4, <1>t, <1>c, <2>1, <2>2 DEF Acts, At
<1>5. ASSUME NEW e \in Execution, Works(e) PROVE QuietInv'
  <2>1. pc'[e] \in {"generating", "judging", "judged"} /\ UNCHANGED <<record, job, out>>
    BY <1>t, <1>5, Labours DEF external
  <2>2. InFlight(e)' /\ ~At(e, "saving")'
    BY <2>1 DEF InFlight, At
  <2> QED
    BY <1>1, <1>5, <1>t, <1>o, <1>g, <2>1, <2>2 DEF Acts
<1>6. ASSUME NEW e \in Execution, NEW q \in QueueJob, Begin(e, q) PROVE QuietInv'
  <2>1. pc'[e] = "loaded" /\ job'[e] = record /\ out'[e] = out[e] /\ record' = record
    BY <1>t, <1>6, Begins
  <2>2. InFlight(e)' /\ ~At(e, "saving")'
    BY <2>1 DEF InFlight, At
  <2> QED
    BY <1>1, <1>6, <1>t, <1>o, <1>g, <2>1, <2>2 DEF Acts
<1>7. ASSUME NEW c \in Client, PutLoads(c) \/ PutResolves(c) \/ PutRefused(c) PROVE QuietInv'
  <2>1. UNCHANGED <<begun, faults>>
    BY <1>7, <1>t, OtherRequests DEF queue
  <2>2. UNCHANGED <<record, stale>>
    BY <1>7, <1>t, Requests
  <2>3. job'[c].status = "analysis_ready" \/ out'[c].as.status = "analysis_ready" => Ready
    BY <1>7, <1>t, <1>o, <1>c, Requests
  <2> QED
    BY <1>1, <1>7, <1>t, <1>g, <2>1, <2>2, <2>3 DEF Acts
<1>8. CASE /\ \/ \E m \in StartMode : EnqueueStart(m)
              \/ \E m \in GenerateMode : Admit(m)
              \/ EnqueueGenerate
              \/ \E q \in QueueJob : QueueMoves(q)
           /\ UNCHANGED <<record, charged, begun, executing, local, faults, seenBy>>
  BY <1>8, <1>t, <1>o, <1>g, <1>m DEF QuietInv, Decided, Ready, local, seenBy, At, InFlight
<1>9. CASE UNCHANGED vars
  BY <1>9, <1>t, <1>o, <1>g, <1>m DEF QuietInv, Decided, Ready, vars, local, queue, seenBy, At, InFlight
<1> QED
  BY <1>2, <1>3, <1>4, <1>5, <1>6, <1>7, <1>8, <1>9, Steps DEF Acts

\* A job is never left half-done by executions that all came to their end, not
\* even by redelivered ones.
THEOREM QuietDecided == Spec => []QuietIsDecided
<1>1. QuietInv => QuietIsDecided
  BY DEF QuietInv, QuietIsDecided, Decided, Ready
<1> QED
  BY <1>1, QuietInit, QuietStep, PTL DEF Spec

=============================================================================
