----------------------- MODULE VersionWorkflow_proofs -----------------------
(***************************************************************************)
(* Theorems about VersionWorkflow for every set of jobs and executions,    *)
(* every way to name photos, every balance and number of calls and faults. *)
(***************************************************************************)
EXTENDS VersionWorkflow, TLAPS

-----------------------------------------------------------------------------
(* Type correctness *)

\* The storage has every name, a handler is called for a begun job, and what an
\* execution is about to book was covered by the balance it loaded.
Shapes ==
    /\ stored \in [{names[j] : j \in Job} -> Job \cup {NoJob}]
    /\ \A e \in Execution : executing[e] # NoJob => executing[e] \in begun
    /\ \A e \in Execution : At(e, "booking") => work[e].balance >= PriceOf(executing[e])

TypeInv == TypeOK /\ Shapes

LEMMA AskedTypes == TypeOK => kind \in [Job -> Kind] /\ DOMAIN names = Job
BY VersionAssumption DEF TypeOK

LEMMA Prices ==
    ASSUME kind \in [Job -> Kind], NEW j \in Job
    PROVE  PriceOf(j) \in Nat \ {0} /\ OwnerOf(j) \in Owner
BY DEF PriceOf, OwnerOf, Cost, Payer, Kind, Owner

LEMMA NothingInWork ==
    /\ NoAnalysis \in Analysis /\ NoWork \in Work
    /\ NoWork.call = 0 /\ NoWork.balance = 0
<1>1. 0 \in Call
  BY VersionAssumption DEF Call
<1>2. NoAnalysis \in Analysis
  BY <1>1 DEF NoAnalysis, Analysis
<1>3. NoWork \in Work
  BY <1>1 DEF NoWork, Work, Status, Outcome
<1> QED
  BY <1>2, <1>3 DEF NoWork

LEMMA WorkFields ==
    ASSUME NEW w \in Work
    PROVE  /\ w.call \in Call /\ w.photo \in Job \cup {NoJob} /\ w.mark \in Status
           /\ w.seen \in Status /\ w.balance \in Nat
           /\ \A x \in Call : [w EXCEPT !.call = x] \in Work
           /\ \A x \in Job \cup {NoJob} : [w EXCEPT !.photo = x] \in Work
           /\ \A x \in Status : [w EXCEPT !.mark = x] \in Work /\ [w EXCEPT !.seen = x] \in Work
           /\ \A x \in Nat : [w EXCEPT !.balance = x] \in Work
BY DEF Work

LEMMA TypeInvInit == Init => TypeInv
<1> SUFFICES ASSUME Init PROVE TypeInv
  OBVIOUS
<1>1. \A e \in Execution : executing[e] = NoJob /\ pc[e] = "idle"
  BY DEF Init, Queue!Init
<1>2. \A j \in Job : stored[names[j]] = NoJob
  BY DEF Init
<1>3. 0 \in Call /\ 0 \in 0..MaxFaults
  BY VersionAssumption DEF Call
<1>4. credits \in [Owner -> Nat]
  BY VersionAssumption DEF Init
<1>5. analysis \in [Job -> Analysis] /\ work \in [Execution -> Work]
  BY NothingInWork DEF Init
<1>6. /\ known = {} /\ begun = {} /\ again = {} /\ closed = {}
      /\ executing \in [Execution -> Job \cup {NoJob}]
  BY DEF Init, Queue!Init
<1>7. \E a \in Asked : kind = a.kind /\ names = a.names
  BY DEF Init
<1>8. TypeOK
  BY <1>1, <1>2, <1>3, <1>4, <1>5, <1>6, <1>7 DEF Init, TypeOK, Status, Step
<1>9. Shapes
  BY <1>1, <1>2 DEF Init, Shapes, At
<1> QED
  BY <1>8, <1>9 DEF TypeInv

LEMMA TypeInvStep == TypeInv /\ [Next]_vars => TypeInv'
<1> SUFFICES ASSUME TypeInv, [Next]_vars PROVE TypeInv'
  OBVIOUS
<1>k. kind \in [Job -> Kind] /\ DOMAIN names = Job
  BY AskedTypes DEF TypeInv
<1> USE VersionAssumption DEF TypeInv, TypeOK, Shapes, At, Goto, Posted, unqueued, called, asked,
        rows, objects, account, queue, history, Step, PriceOf, OwnerOf
<1>1. ASSUME NEW j \in Job, Admits(j) PROVE TypeInv'
  BY <1>1 DEF Admits
<1>2. ASSUME NEW j \in Job, Uploads(j) PROVE TypeInv'
  BY <1>2 DEF Uploads
<1>3. ASSUME NEW j \in Job, Creates(j) PROVE TypeInv'
  BY <1>3 DEF Creates, Status
<1>4. ASSUME NEW j \in Job, Enqueues(j) PROVE TypeInv'
  BY <1>4 DEF Enqueues, Queue!Enqueue
<1>5. ASSUME NEW j \in Job, QueueMoves(j) PROVE TypeInv'
  BY <1>5 DEF QueueMoves, Queue!Close, Queue!Suspect
<1>6. ASSUME NEW e \in Execution, NEW j \in Job, Begin(e, j) PROVE TypeInv'
  <2>1. calls[j] + 1 \in Call
    BY <1>6 DEF Begin, Call
  <2>2. calls' \in [Job -> Call] /\ work' \in [Execution -> Work]
    BY <1>6, <2>1, WorkFields DEF Begin
  <2> QED
    BY <1>6, <2>2 DEF Begin, Queue!Begin
<1>7. ASSUME NEW e \in Execution, Analyzes(e) PROVE TypeInv'
  <2>1. work' \in [Execution -> Work]
    BY <1>7, WorkFields DEF Analyzes
  <2> QED
    BY <1>7, <2>1 DEF Analyzes
<1>8. ASSUME NEW e \in Execution, SavesAnalysis(e) PROVE TypeInv'
  <2>1. analysis' \in [Job -> Analysis]
    BY <1>8 DEF SavesAnalysis, Work, Analysis
  <2> QED
    BY <1>8, <2>1 DEF SavesAnalysis
<1>9. ASSUME NEW e \in Execution, Stores(e) PROVE TypeInv'
  <2>1. work[e].call \in Call
    BY DEF Work
  <2> QED
    BY <1>9, <2>1 DEF Stores
<1>10. ASSUME NEW e \in Execution, Raises(e) PROVE TypeInv'
  <2>1. work' \in [Execution -> Work]
    BY <1>10, WorkFields DEF Raises, Status, Outcome
  <2> QED
    BY <1>10, <2>1 DEF Raises
<1>11. ASSUME NEW e \in Execution, Inserts(e) PROVE TypeInv'
  <2>1. work' \in [Execution -> Work]
    <3>1. CASE version[executing[e]] = 0
      <4>1. work' = [work EXCEPT ![e].mark = "completed"]
        BY <1>11, <3>1 DEF Inserts
      <4> QED
        BY <4>1, WorkFields DEF Status, Outcome
    <3>2. CASE version[executing[e]] # 0
      BY <1>11, <3>2 DEF Inserts
    <3> QED
      BY <3>1, <3>2
  <2>2. executing[e] \in Job /\ work[e].call \in Call
    BY <1>11 DEF Inserts, Work
  <2>3. version' \in [Job -> Call]
    BY <1>11, <2>2 DEF Inserts
  <2>4. /\ pc' = [pc EXCEPT ![e] = pc'[e]] /\ pc'[e] \in {"closing", "returned"}
        /\ UNCHANGED <<called, status, analysis, objects, account, erred, broke>>
        /\ \A f \in Execution \ {e} : work'[f] = work[f]
    BY <1>11 DEF Inserts
  <2> QED
    BY <2>1, <2>2, <2>3, <2>4
<1>12. ASSUME NEW e \in Execution, LoadsRow(e) PROVE TypeInv'
  <2>1. work' \in [Execution -> Work]
    BY <1>12, WorkFields DEF LoadsRow
  <2> QED
    BY <1>12, <2>1 DEF LoadsRow
<1>13. ASSUME NEW e \in Execution, Marks(e) PROVE TypeInv'
  <2>1. work[e].mark \in Status
    BY DEF Work
  <2> QED
    BY <1>13, <2>1 DEF Marks
<1>14. ASSUME NEW e \in Execution, LoadsAccount(e) PROVE TypeInv'
  <2>1. executing[e] \in Job
    BY <1>14 DEF LoadsAccount
  <2>2. credits[OwnerOf(executing[e])] \in Nat
    BY <1>k, <2>1, Prices
  <2>3. work' \in [Execution -> Work]
    BY <1>14, <2>2, WorkFields DEF LoadsAccount
  <2>4. work'[e].balance = credits[OwnerOf(executing[e])] /\ PriceOf(executing[e]) \in Nat
    BY <1>14, <1>k, <2>1, Prices DEF LoadsAccount, Work
  <2>5. pc'[e] = "booking" => work'[e].balance >= PriceOf(executing[e])
    BY <1>14, <2>2, <2>4 DEF LoadsAccount
  <2>6. /\ pc' = [pc EXCEPT ![e] = pc'[e]] /\ pc'[e] \in {"returned", "booking"}
        /\ work' = [work EXCEPT ![e] = work'[e]]
    BY <1>14 DEF LoadsAccount
  <2>7. /\ broke' \in SUBSET known
        /\ UNCHANGED <<called, rows, objects, account, erred>> /\ executing[e] # NoJob
    BY <1>14, <2>1 DEF LoadsAccount
  <2> QED
    BY <2>3, <2>5, <2>6, <2>7
<1>15. ASSUME NEW e \in Execution, Books(e) PROVE TypeInv'
  <2>1. executing[e] \in Job /\ work[e].balance >= PriceOf(executing[e])
    BY <1>15 DEF Books
  <2>2. work[e].balance - PriceOf(executing[e]) \in Nat
    BY <1>k, <2>1, Prices DEF Work
  <2>3. credits' \in [Owner -> Nat]
    BY <1>15, <1>k, <2>1, <2>2, Prices DEF Books
  <2>4. pc' = [pc EXCEPT ![e] = "returned"]
    BY <1>15 DEF Books
  <2> QED
    BY <1>15, <2>1, <2>3, <2>4 DEF Books
<1>16. ASSUME NEW e \in Execution, CallEnds(e), faults' \in 0..MaxFaults PROVE TypeInv'
  BY <1>16, NothingInWork DEF CallEnds, Queue!End
<1>17. ASSUME NEW e \in Execution, Returns(e) PROVE TypeInv'
  BY <1>16, <1>17 DEF Returns
<1>18. ASSUME NEW e \in Execution, Dies(e) PROVE TypeInv'
  <2>1. faults' \in 0..MaxFaults
    BY <1>18 DEF Dies
  <2> QED
    BY <1>16, <1>18, <2>1 DEF Dies
<1>19. CASE UNCHANGED vars
  BY <1>19 DEF vars
<1> QED
  BY <1>1, <1>2, <1>3, <1>4, <1>5, <1>6, <1>7, <1>8, <1>9, <1>10, <1>11, <1>12, <1>13, <1>14,
     <1>15, <1>17, <1>18, <1>19 DEF Next, Proceeds

\* Every reachable state is of the declared types; in particular no charge takes
\* more than the balance its execution loaded.
THEOREM TypeCorrect == Spec => []TypeOK
<1>1. TypeInv => TypeOK
  BY DEF TypeInv
<1> QED
  BY <1>1, TypeInvInit, TypeInvStep, PTL DEF Spec

-----------------------------------------------------------------------------
(* What is charged was delivered *)

Busy(e) == executing[e] # NoJob
Early(e) == At(e, "analyzing") \/ At(e, "analyzed") \/ At(e, "generating") \/ At(e, "inserting")
Closing(e) == At(e, "closing") \/ At(e, "marking")
Charging(e) == At(e, "charging") \/ At(e, "booking")

\* What the queue and the routes leave of a job that is called.
Called ==
    /\ \A j \in known : post[j] = "saved"
    /\ \A j \in Job : version[j] # 0 \/ status[j] = "completed" \/ j \in charged => j \in begun
    /\ \A e \in Execution : Busy(e) => work[e].call # 0

\* A job is called once unless it was taken for dead: until then it has no
\* version before its only call inserts one, is not completed before that marks
\* it, and not charged before that ends.
OnceCalled ==
    \A e \in Execution : Busy(e) /\ executing[e] \notin again =>
        /\ \A f \in Execution : executing[f] = executing[e] => f = e
        /\ Early(e) => version[executing[e]] = 0
        /\ Early(e) \/ Closing(e) => status[executing[e]] # "completed"
        /\ ~At(e, "returned") => executing[e] \notin charged

Delivered(j) ==
    status[j] = "completed" \/ (j \in again /\ j \in erred /\ kind[j] = "product_card")

\* What an execution that has left its agents behind knows of its job.
Closed(e) ==
    LET j == executing[e]
        w == work[e]
    IN
    /\ Closing(e) => w.mark \in Outcome
    /\ Closing(e) /\ w.mark = "completed" => version[j] # 0
    /\ Closing(e) /\ w.mark = "failed" => j \in erred /\ kind[j] = "product_card"
    /\ At(e, "marking") /\ w.seen = "completed" => Delivered(j)
    /\ Charging(e) => version[j] # 0 /\ Delivered(j)

ChargeInv ==
    /\ TypeInv /\ Called /\ OnceCalled
    /\ \A e \in Execution : Closed(e)
    /\ ChargedIsDelivered

\* A step of one execution leaves the others where they are.
LEMMA Others ==
    ASSUME TypeOK, NEW e \in Execution, NEW f \in Execution \ {e},
           Proceeds(e) \/ Dies(e) \/ \E j \in Job : Begin(e, j)
    PROVE  pc'[f] = pc[f] /\ work'[f] = work[f] /\ executing'[f] = executing[f]
<1>1. executing' = executing \/ executing' = [executing EXCEPT ![e] = executing'[e]]
  BY DEF TypeOK, Proceeds, Dies, Begin, Analyzes, SavesAnalysis, Stores, Raises, Inserts, LoadsRow, Marks,
         LoadsAccount, Books, Returns, CallEnds, Queue!Begin, Queue!End, called, queue
<1>2. pc' = [pc EXCEPT ![e] = pc'[e]]
  BY DEF TypeOK, Proceeds, Dies, Begin, Analyzes, SavesAnalysis, Stores, Raises, Inserts, LoadsRow, Marks,
         LoadsAccount, Books, Returns, CallEnds, Goto
<1>3. \/ work' = work
      \/ work' = [work EXCEPT ![e] = work'[e]]
  BY DEF TypeOK, Proceeds, Dies, Begin, Analyzes, SavesAnalysis, Stores, Raises, Inserts, LoadsRow, Marks,
         LoadsAccount, Books, Returns, CallEnds
<1> QED
  BY <1>1, <1>2, <1>3 DEF TypeOK

\* What happened once is not undone.
LEMMA Grows ==
    ASSUME TypeOK, [Next]_vars
    PROVE  /\ kind' = kind /\ names' = names
           /\ known \subseteq known' /\ begun \subseteq begun' /\ again \subseteq again'
           /\ charged \subseteq charged' /\ erred \subseteq erred' /\ broke \subseteq broke'
           /\ \A j \in Job : version[j] # 0 => version'[j] = version[j]
           /\ \A j \in Job : post[j] = "saved" => post'[j] = "saved"
<1> USE DEF asked, rows, objects, account, queue, history, unqueued, called, Posted
<1>1. ASSUME NEW j \in Job, Admits(j) \/ Uploads(j) \/ Creates(j) \/ Enqueues(j) \/ QueueMoves(j)
      PROVE  /\ UNCHANGED <<kind, names, begun, charged, erred, broke, version>>
             /\ known \subseteq known' /\ again \subseteq again'
             /\ post' = post \/ (post[j] # "saved" /\ post' = [post EXCEPT ![j] = post'[j]])
  BY <1>1 DEF Admits, Uploads, Creates, Enqueues, QueueMoves, Queue!Enqueue, Queue!Close, Queue!Suspect, TypeOK
<1>2. ASSUME NEW e \in Execution, NEW j \in Job, Begin(e, j)
      PROVE  /\ UNCHANGED <<kind, names, known, again, charged, erred, broke, version, post>>
             /\ begun \subseteq begun'
  BY <1>2 DEF Begin, Queue!Begin
<1>3. ASSUME NEW e \in Execution, CallEnds(e)
      PROVE  UNCHANGED <<kind, names, known, begun, again, charged, erred, broke, version, post>>
  BY <1>3 DEF CallEnds, Queue!End
<1>4. ASSUME NEW e \in Execution, Proceeds(e)
      PROVE  /\ UNCHANGED <<kind, names, known, begun, again, post>>
             /\ charged \subseteq charged' /\ erred \subseteq erred' /\ broke \subseteq broke'
             /\ \/ version' = version
                \/ version[executing[e]] = 0 /\ version' = [version EXCEPT ![executing[e]] = work[e].call]
  BY <1>3, <1>4 DEF Proceeds, Analyzes, SavesAnalysis, Stores, Raises, Inserts, LoadsRow, Marks, LoadsAccount,
                    Books, Returns
<1>5. ASSUME NEW e \in Execution, Dies(e)
      PROVE  UNCHANGED <<kind, names, known, begun, again, charged, erred, broke, version, post>>
  BY <1>3, <1>5 DEF Dies
<1>6. CASE UNCHANGED vars
  BY <1>6 DEF vars
<1> QED
  BY <1>1, <1>2, <1>4, <1>5, <1>6 DEF Next, TypeOK

\* A delivered job stays so: only an execution on which an agent failed takes
\* the mark back.
LEMMA DeliveredStays ==
    ASSUME ChargeInv, [Next]_vars, NEW j \in begun, Delivered(j)
    PROVE  Delivered(j)'
<1> USE DEF ChargeInv, TypeInv
<1>g. /\ kind' = kind /\ again \subseteq again' /\ erred \subseteq erred'
      /\ j \in Job /\ post[j] = "saved"
  BY Grows DEF TypeOK, Called
<1>1. CASE status'[j] = status[j]
  BY <1>g, <1>1 DEF Delivered
<1>2. ASSUME NEW k \in Job, Creates(k) PROVE status'[j] = status[j]
  BY <1>g, <1>2 DEF Creates, TypeOK
<1>3. ASSUME NEW e \in Execution, Marks(e), executing[e] = j PROVE Delivered(j)'
  <2>1. status' = [status EXCEPT ![j] = IF work[e].seen = work[e].mark THEN @ ELSE work[e].mark]
        /\ At(e, "marking")
    BY <1>3 DEF Marks
  <2>2. Closed(e) /\ work[e].mark \in {"completed", "failed"}
    BY <2>1 DEF Closed, Closing, Outcome
  <2>3. CASE work[e].mark = "completed"
    BY <1>g, <2>1, <2>3 DEF Delivered, TypeOK
  <2>4. CASE work[e].mark = "failed"
    <3>1. j \in erred /\ kind[j] = "product_card"
      BY <1>3, <2>1, <2>2, <2>4 DEF Closed, Closing
    <3>2. j \in again
      BY <1>3, <2>1 DEF Delivered, OnceCalled, Busy, Closing, At, TypeOK
    <3> QED
      BY <1>g, <2>1, <2>4, <3>1, <3>2 DEF Delivered, TypeOK
  <2> QED
    BY <2>2, <2>3, <2>4
<1>4. ASSUME NEW e \in Execution, Marks(e), executing[e] # j PROVE status'[j] = status[j]
  BY <1>g, <1>4 DEF Marks, TypeOK
<1>5. ASSUME NEW k \in Job, Admits(k) \/ Uploads(k) \/ Enqueues(k) \/ QueueMoves(k)
      PROVE  status' = status
  BY <1>5 DEF Admits, Uploads, Enqueues, QueueMoves, rows
<1>6. ASSUME NEW e \in Execution, Dies(e) \/ \E k \in Job : Begin(e, k)
      PROVE  status' = status
  BY <1>6 DEF Dies, Begin, CallEnds, rows
<1>7. ASSUME NEW e \in Execution, Proceeds(e), ~Marks(e) PROVE status' = status
  BY <1>7 DEF Proceeds, Analyzes, SavesAnalysis, Stores, Raises, Inserts, LoadsRow, LoadsAccount, Books,
         Returns, CallEnds, rows
<1>8. ASSUME UNCHANGED vars PROVE status' = status
  BY <1>8 DEF vars, rows
<1> QED
  BY <1>1, <1>2, <1>3, <1>4, <1>5, <1>6, <1>7, <1>8 DEF Next

\* An execution writes the rows of its own job only.
LEMMA OwnRow ==
    ASSUME TypeOK, NEW e \in Execution, Proceeds(e), NEW k \in Job \ {executing[e]}
    PROVE  /\ version'[k] = version[k] /\ status'[k] = status[k] /\ analysis'[k] = analysis[k]
           /\ artifacts'[k] = artifacts[k] /\ (k \in charged' <=> k \in charged)
BY DEF TypeOK, Proceeds, Analyzes, SavesAnalysis, Stores, Raises, Inserts, LoadsRow, Marks, LoadsAccount,
       Books, Returns, CallEnds, rows, account, objects

\* What an execution knows of its job stays true while others take steps.
LEMMA ClosedStays ==
    ASSUME ChargeInv, [Next]_vars, NEW f \in Execution,
           pc'[f] = pc[f], work'[f] = work[f], executing'[f] = executing[f]
    PROVE  Closed(f)'
<1> USE DEF ChargeInv, TypeInv
<1> DEFINE j == executing[f]
<1>1. CASE ~Busy(f)
  <2>1. pc[f] = "idle"
    BY <1>1 DEF TypeOK, Busy
  <2> QED
    BY <2>1 DEF Closed, Closing, Charging, At
<1>2. CASE Busy(f)
  <2>1. j \in begun /\ j \in Job
    BY <1>2 DEF Shapes, TypeOK, Busy
  <2>2. kind' = kind /\ erred \subseteq erred' /\ (version[j] # 0 => version'[j] # 0)
    BY <2>1, Grows
  <2>3. Delivered(j) => Delivered(j)'
    BY <2>1, DeliveredStays
  <2>4. Closed(f)
    OBVIOUS
  <2>5. (At(f, "closing") <=> At(f, "closing")') /\ (At(f, "marking") <=> At(f, "marking")')
        /\ (Charging(f) <=> Charging(f)')
    BY DEF At, Charging
  <2> QED
    BY <2>2, <2>3, <2>4, <2>5 DEF Closed, Closing, Delivered
<1> QED
  BY <1>1, <1>2

LEMMA ChargeInvInit == Init => ChargeInv
<1> SUFFICES ASSUME Init PROVE ChargeInv
  OBVIOUS
<1>1. /\ \A e \in Execution : executing[e] = NoJob /\ pc[e] = "idle"
      /\ known = {} /\ charged = {} /\ \A j \in Job : version[j] = 0 /\ status[j] = "none"
  BY DEF Init, Queue!Init
<1> QED
  BY <1>1, TypeInvInit DEF ChargeInv, Called, OnceCalled, Busy, Closed, Closing, Charging, At,
     ChargedIsDelivered

\* The parts of the invariant that speak of all executions, for one that a step
\* leaves where it is, and whose job it leaves as it is.
LEMMA OnceStays ==
    ASSUME ChargeInv, [Next]_vars, NEW f \in Execution,
           pc'[f] = pc[f], executing'[f] = executing[f], Busy(f), executing[f] \notin again',
           \A g \in Execution : executing'[g] = executing[f] => executing[g] = executing[f],
           version'[executing[f]] = version[executing[f]],
           status'[executing[f]] = status[executing[f]],
           executing[f] \in charged' => executing[f] \in charged
    PROVE  /\ \A g \in Execution : executing'[g] = executing'[f] => g = f
           /\ Early(f)' => version'[executing'[f]] = 0
           /\ Early(f)' \/ Closing(f)' => status'[executing'[f]] # "completed"
           /\ ~At(f, "returned")' => executing'[f] \notin charged'
<1>1. executing[f] \notin again /\ OnceCalled
  BY Grows DEF ChargeInv, TypeInv
<1> QED
  BY <1>1 DEF OnceCalled, Early, Closing, At

LEMMA RouteKeepsCharge ==
    ASSUME ChargeInv, [Next]_vars, NEW j \in Job,
           Admits(j) \/ Uploads(j) \/ Creates(j) \/ Enqueues(j) \/ QueueMoves(j)
    PROVE  ChargeInv'
<1> USE DEF ChargeInv
<1>1. TypeInv'
  BY TypeInvStep
<1>2. /\ UNCHANGED <<pc, work, executing, begun, charged, version>>
      /\ \A k \in begun : status'[k] = status[k]
      /\ \A k \in Job : status'[k] = "completed" => status[k] = "completed"
      /\ \A k \in known' : post'[k] = "saved"
  BY DEF TypeInv, TypeOK, Called, Admits, Uploads, Creates, Enqueues, QueueMoves, Queue!Enqueue, Queue!Close,
         Queue!Suspect, Posted, rows, account, unqueued, queue
<1>3. Called'
  BY <1>2 DEF Called, Busy
<1>4. \A e \in Execution : Closed(e)'
  BY <1>2, ClosedStays
<1>5. OnceCalled'
  <2> SUFFICES ASSUME NEW f \in Execution, Busy(f)', executing'[f] \notin again'
               PROVE  /\ \A g \in Execution : executing'[g] = executing'[f] => g = f
                      /\ Early(f)' => version'[executing'[f]] = 0
                      /\ Early(f)' \/ Closing(f)' => status'[executing'[f]] # "completed"
                      /\ ~At(f, "returned")' => executing'[f] \notin charged'
    BY DEF OnceCalled
  <2>1. Busy(f) /\ executing[f] \in begun
    BY <1>2 DEF Busy, TypeInv, Shapes
  <2> QED
    BY <1>2, <2>1, OnceStays
<1>6. ChargedIsDelivered'
  <2>1. \A k \in charged : k \in begun /\ k \in Job /\ version[k] # 0 /\ Delivered(k)
    BY DEF Called, TypeInv, TypeOK, ChargedIsDelivered, Delivered
  <2>2. \A k \in charged : Delivered(k)'
    BY <2>1, DeliveredStays
  <2> QED
    BY <1>2, <2>1, <2>2 DEF ChargedIsDelivered, Delivered
<1> QED
  BY <1>1, <1>3, <1>4, <1>5, <1>6

\* A step of one execution keeps the invariant if it does so for that execution.
LEMMA ExecutionKeepsCharge ==
    ASSUME ChargeInv, [Next]_vars, NEW e \in Execution,
           Proceeds(e) \/ Dies(e) \/ \E j \in Job : Begin(e, j),
           Called', Closed(e)',
           Busy(e)' /\ executing'[e] \notin again' =>
               /\ \A g \in Execution : executing'[g] = executing'[e] => g = e
               /\ Early(e)' => version'[executing'[e]] = 0
               /\ Early(e)' \/ Closing(e)' => status'[executing'[e]] # "completed"
               /\ ~At(e, "returned")' => executing'[e] \notin charged',
           \A k \in charged' \ charged : version'[k] # 0 /\ Delivered(k)'
    PROVE  ChargeInv'
<1> USE DEF ChargeInv
<1>1. TypeInv'
  BY TypeInvStep
<1>2. \A f \in Execution \ {e} : pc'[f] = pc[f] /\ work'[f] = work[f] /\ executing'[f] = executing[f]
  BY Others DEF TypeInv
<1>3. \A f \in Execution : Closed(f)'
  BY <1>2, ClosedStays
<1>4. ASSUME NEW f \in Execution \ {e}, Busy(f)', executing'[f] \notin again'
      PROVE  /\ \A g \in Execution : executing'[g] = executing'[f] => g = f
             /\ Early(f)' => version'[executing'[f]] = 0
             /\ Early(f)' \/ Closing(f)' => status'[executing'[f]] # "completed"
             /\ ~At(f, "returned")' => executing'[f] \notin charged'
  <2>1. Busy(f) /\ executing[f] \in begun /\ executing[f] \in Job
    BY <1>2, <1>4 DEF Busy, TypeInv, Shapes, TypeOK
  <2>2. executing[f] \notin again
    BY <1>2, <1>4, Grows DEF TypeInv
  <2>3. executing[e] # executing[f]
    BY <1>4, <2>1, <2>2 DEF OnceCalled
  <2>4. executing'[e] # executing[f]
    <3>1. CASE Proceeds(e) \/ Dies(e)
      <4>1. executing'[e] \in {executing[e], NoJob}
        BY <3>1 DEF Proceeds, Dies, Analyzes, SavesAnalysis, Stores, Raises, Inserts, LoadsRow, Marks,
           LoadsAccount, Books, Returns, CallEnds, Queue!End, called, queue, TypeInv, TypeOK
      <4> QED
        BY <2>1, <2>3, <4>1 DEF Busy
    <3>2. ASSUME NEW j \in Job, Begin(e, j) PROVE executing'[e] # executing[f]
      BY <2>1, <2>2, <3>2 DEF Begin, Queue!Begin, TypeInv, TypeOK
    <3> QED
      BY <3>1, <3>2
  <2>5. /\ version'[executing[f]] = version[executing[f]] /\ status'[executing[f]] = status[executing[f]]
        /\ executing[f] \in charged' => executing[f] \in charged
    <3>1. CASE Proceeds(e)
      BY <2>1, <2>3, <3>1, OwnRow DEF TypeInv
    <3>2. CASE Dies(e) \/ \E j \in Job : Begin(e, j)
      BY <3>2 DEF Dies, Begin, CallEnds, rows, account
    <3> QED
      BY <3>1, <3>2
  <2>6. \A g \in Execution : executing'[g] = executing[f] => executing[g] = executing[f]
    BY <1>2, <2>4
  <2>7. pc'[f] = pc[f] /\ executing'[f] = executing[f] /\ executing[f] \notin again'
    BY <1>2, <1>4
  <2> QED
    BY <2>1, <2>5, <2>6, <2>7, OnceStays
<1>5. OnceCalled'
  BY <1>4 DEF OnceCalled
<1>6. ChargedIsDelivered'
  <2>1. \A k \in charged : k \in begun /\ k \in Job /\ version[k] # 0 /\ Delivered(k)
    BY DEF Called, TypeInv, TypeOK, ChargedIsDelivered, Delivered
  <2>2. \A k \in charged : Delivered(k)' /\ version'[k] # 0
    BY <2>1, DeliveredStays, Grows DEF TypeInv
  <2> QED
    BY <2>1, <2>2 DEF ChargedIsDelivered, Delivered
<1> QED
  BY <1>1, <1>3, <1>5, <1>6

LEMMA ChargeInvStep == ChargeInv /\ [Next]_vars => ChargeInv'
<1> SUFFICES ASSUME ChargeInv, [Next]_vars PROVE ChargeInv'
  OBVIOUS
<1>t. TypeOK /\ Shapes /\ Called /\ OnceCalled /\ (\A e \in Execution : Closed(e)) /\ ChargedIsDelivered
  BY DEF ChargeInv, TypeInv
<1>g. kind' = kind /\ begun \subseteq begun' /\ again \subseteq again' /\ erred \subseteq erred'
  BY <1>t, Grows
<1>1. ASSUME NEW j \in Job, Admits(j) \/ Uploads(j) \/ Creates(j) \/ Enqueues(j) \/ QueueMoves(j)
      PROVE  ChargeInv'
  BY <1>1, RouteKeepsCharge
<1>2. ASSUME NEW e \in Execution, NEW j \in Job, Begin(e, j) PROVE ChargeInv'
  <2>1. /\ executing[e] = NoJob /\ executing' = [executing EXCEPT ![e] = j] /\ begun' = begun \cup {j}
        /\ work' = [work EXCEPT ![e].call = calls[j] + 1] /\ (j \in begun => j \in again)
        /\ pc' = [pc EXCEPT ![e] = pc'[e]] /\ pc'[e] \in {"analyzing", "generating"}
        /\ UNCHANGED <<known, again, post, version, status, charged>>
    BY <1>2, <1>t DEF Begin, Queue!Begin, Goto, rows, account, TypeOK
  <2>2. work'[e].call = calls[j] + 1 /\ calls[j] \in Nat /\ executing'[e] = j
    BY <2>1, <1>t, VersionAssumption DEF TypeOK, Work, Call
  <2>3. \A f \in Execution \ {e} : work'[f] = work[f] /\ executing'[f] = executing[f]
    BY <2>1, <1>t DEF TypeOK
  <2>4. Called'
    BY <1>t, <2>1, <2>2, <2>3 DEF Called, Busy
  <2>5. Closed(e)'
    BY <2>1 DEF Closed, Closing, Charging, At
  <2>6. ASSUME j \notin again
        PROVE  /\ \A g \in Execution : executing'[g] = j => g = e
               /\ version[j] = 0 /\ status[j] # "completed" /\ j \notin charged
    <3>1. j \notin begun
      BY <2>1, <2>6
    <3>2. \A g \in Execution : executing[g] # j
      BY <1>t, <3>1, VersionAssumption DEF Shapes
    <3> QED
      BY <1>t, <2>3, <3>1, <3>2 DEF Called
  <2> QED
    BY <1>2, <2>1, <2>2, <2>4, <2>5, <2>6, ExecutionKeepsCharge
<1>3. ASSUME NEW e \in Execution, CallEnds(e), Proceeds(e) \/ Dies(e) PROVE ChargeInv'
  <2>1. /\ executing' = [executing EXCEPT ![e] = NoJob] /\ pc' = [pc EXCEPT ![e] = "idle"]
        /\ work' = [work EXCEPT ![e] = NoWork]
        /\ UNCHANGED <<known, begun, again, post, version, status, charged>>
    BY <1>3 DEF CallEnds, Queue!End, Goto, rows, account
  <2>2. Called'
    BY <1>t, <2>1 DEF Called, Busy, TypeOK
  <2>3. Closed(e)' /\ ~Busy(e)'
    BY <1>t, <2>1 DEF Closed, Closing, Charging, At, Busy, TypeOK
  <2> QED
    BY <1>3, <2>1, <2>2, <2>3, ExecutionKeepsCharge
<1>4. ASSUME NEW e \in Execution, NEW j, j = executing[e], Proceeds(e), ~CallEnds(e)
      PROVE  ChargeInv'
  <2>1. /\ UNCHANGED <<known, begun, again, post, executing>>
        /\ ~At(e, "idle")
    BY <1>4 DEF Proceeds, Analyzes, SavesAnalysis, Stores, Raises, Inserts, LoadsRow, Marks, LoadsAccount,
       Books, Returns, At, called, queue
  <2>2. Busy(e) /\ j \in begun /\ j \in Job /\ Busy(e)' /\ executing'[e] = j
    BY <1>t, <1>4, <2>1 DEF TypeOK, Shapes, Busy, At
  <2>3. \A k \in Job \ {j} : /\ version'[k] = version[k] /\ status'[k] = status[k]
                             /\ k \in charged' <=> k \in charged
    BY <1>t, <1>4, OwnRow
  <2>4. work'[e].call = work[e].call /\ \A f \in Execution \ {e} : work'[f] = work[f]
    BY <1>t, <1>4 DEF Proceeds, Analyzes, SavesAnalysis, Stores, Raises, Inserts, LoadsRow, Marks,
       LoadsAccount, Books, Returns, TypeOK, Work
  <2>5. Called'
    BY <1>t, <1>4, <2>1, <2>2, <2>3, <2>4 DEF Called, Busy, TypeOK
  <2> DEFINE once == /\ Early(e)' => version'[j] = 0
                     /\ Early(e)' \/ Closing(e)' => status'[j] # "completed"
                     /\ ~At(e, "returned")' => j \notin charged'
  <2>6. SUFFICES /\ Closed(e)'
                 /\ j \notin again => once
                 /\ j \in charged' \ charged => version'[j] # 0 /\ Delivered(j)'
    <3>1. \A g \in Execution : executing'[g] = executing'[e] /\ j \notin again => g = e
      BY <1>t, <1>4, <2>1, <2>2 DEF OnceCalled
    <3>2. charged' \ charged \subseteq {j}
      BY <1>4, <2>3, <1>t, TypeInvStep DEF ChargeInv, TypeInv, TypeOK
    <3> QED
      BY <1>4, <2>1, <2>5, <2>6, <3>1, <3>2, ExecutionKeepsCharge
  <2>7. j \notin again => /\ Early(e) => version[j] = 0
                          /\ Early(e) \/ Closing(e) => status[j] # "completed"
                          /\ ~At(e, "returned") => j \notin charged
    BY <1>t, <1>4, <2>2 DEF OnceCalled
  <2>8. Closed(e)
    BY <1>t
  <2>9. CASE Analyzes(e) \/ SavesAnalysis(e) \/ Stores(e)
    <3>1. UNCHANGED <<version, status, charged>> /\ Early(e) /\ pc'[e] \in {"analyzed", "generating", "inserting"}
      BY <1>t, <1>4, <2>9 DEF Analyzes, SavesAnalysis, Stores, Early, Goto, At, TypeOK, rows, account
    <3> QED
      BY <1>4, <2>7, <3>1 DEF Closed, Closing, Charging, Early, At
  <2>10. CASE Raises(e)
    <3>1. /\ UNCHANGED <<version, status, charged>> /\ Early(e) /\ erred' = erred \cup {j}
          /\ pc'[e] = IF IsCard(e) THEN "closing" ELSE "returned"
          /\ IsCard(e) => work'[e].mark = "failed"
      BY <1>t, <1>4, <2>10 DEF Raises, Early, Goto, At, TypeOK, Work, rows, account
    <3> QED
      BY <1>4, <2>1, <2>7, <3>1, <1>g DEF Closed, Closing, Charging, Early, At, IsCard, Outcome
  <2>11. CASE Inserts(e)
    <3>1. /\ UNCHANGED <<status, charged>> /\ Early(e)
          /\ pc'[e] = IF version[j] = 0 THEN "closing" ELSE "returned"
      BY <1>t, <1>4, <2>11 DEF Inserts, Early, Goto, At, TypeOK, account
    <3>2. version[j] = 0 => version'[j] # 0 /\ work'[e].mark = "completed"
      <4> SUFFICES ASSUME version[j] = 0 PROVE version'[j] # 0 /\ work'[e].mark = "completed"
        OBVIOUS
      <4>1. version' = [version EXCEPT ![j] = work[e].call] /\ work' = [work EXCEPT ![e].mark = "completed"]
        BY <1>4, <2>11 DEF Inserts
      <4> QED
        BY <1>t, <1>4, <2>2, <4>1 DEF Called, TypeOK, Work
    <3> QED
      BY <1>4, <2>1, <2>7, <3>1, <3>2 DEF Closed, Closing, Charging, Early, At, Outcome
  <2>12. CASE LoadsRow(e)
    <3>1. UNCHANGED <<version, status, charged>> /\ Closing(e) /\ pc'[e] = "marking"
          /\ work'[e].seen = status[j] /\ work'[e].mark = work[e].mark
      BY <1>t, <1>4, <2>12 DEF LoadsRow, Closing, Goto, At, TypeOK, Work, rows, account
    <3> QED
      BY <1>4, <2>1, <2>7, <2>8, <3>1, <1>g DEF Closed, Closing, Charging, Early, At, Delivered
  <2>13. CASE Marks(e)
    <3>1. /\ UNCHANGED <<version, charged, work>> /\ At(e, "marking")
          /\ status' = [status EXCEPT ![j] = IF work[e].seen = work[e].mark THEN @ ELSE work[e].mark]
          /\ pc'[e] = IF work[e].mark = "completed" THEN "charging" ELSE "returned"
      BY <1>t, <1>4, <2>13 DEF Marks, Goto, TypeOK, account
    <3>2. work[e].mark = "completed" => Delivered(j)' /\ version[j] # 0
      <4>1. CASE work[e].seen = "completed"
        BY <1>4, <2>2, <2>8, <3>1, <4>1, DeliveredStays DEF Closed, Closing
      <4>2. CASE work[e].seen # "completed"
        BY <1>t, <1>4, <2>1, <2>2, <2>8, <3>1, <4>2 DEF Closed, Closing, Delivered, TypeOK
      <4> QED
        BY <4>1, <4>2
    <3>3. pc'[e] \in {"charging", "returned"} /\ (pc'[e] = "charging" => work[e].mark = "completed")
      BY <3>1
    <3> QED
      BY <1>4, <2>1, <2>2, <2>7, <3>1, <3>2, <3>3 DEF Closed, Closing, Charging, Early, At, Delivered
  <2>14. CASE LoadsAccount(e)
    <3>1. UNCHANGED <<version, status, charged>> /\ At(e, "charging") /\ pc'[e] \in {"booking", "returned"}
          /\ (pc'[e] = "booking" => j \notin charged)
      BY <1>t, <1>4, <2>14 DEF LoadsAccount, Goto, TypeOK, At, rows, account
    <3>2. Delivered(j)'
      BY <1>4, <2>2, <2>8, <3>1, DeliveredStays DEF Closed, Charging
    <3> QED
      BY <1>4, <2>1, <2>2, <2>7, <2>8, <3>1, <3>2 DEF Closed, Closing, Charging, Early, At, Delivered
  <2>15. CASE Books(e)
    <3>1. UNCHANGED <<version, status>> /\ At(e, "booking") /\ pc'[e] = "returned"
      BY <1>t, <1>4, <2>15 DEF Books, Goto, TypeOK, At, rows
    <3>2. Delivered(j)' /\ version[j] # 0
      BY <1>4, <2>2, <2>8, <3>1, DeliveredStays DEF Closed, Charging
    <3> QED
      BY <1>4, <2>1, <2>2, <2>7, <2>8, <3>1, <3>2 DEF Closed, Closing, Charging, Early, At, Delivered
  <2> QED
    BY <1>4, <2>9, <2>10, <2>11, <2>12, <2>13, <2>14, <2>15 DEF Proceeds, Returns
<1>5. CASE UNCHANGED vars
  <2>1. UNCHANGED <<kind, post, version, status, charged, known, begun, again, executing, pc, work, erred>>
    BY <1>5 DEF vars, asked, rows, account, queue, history
  <2>2. TypeInv'
    BY TypeInvStep DEF ChargeInv
  <2> QED
    BY <1>t, <2>1, <2>2 DEF ChargeInv, Called, OnceCalled, Busy, Early, Closing, Charging, At, Closed, Delivered,
       ChargedIsDelivered
<1> QED
  BY <1>1, <1>2, <1>3, <1>4, <1>5 DEF Next, Dies

\* What is charged has a saved version and is completed, and stays so: unless
\* the job was redelivered and an agent failed on it then, however executions
\* overlap or die.
THEOREM ChargesDelivered == Spec => []ChargedIsDelivered
<1>1. ChargeInv => ChargedIsDelivered
  BY DEF ChargeInv
<1> QED
  BY <1>1, ChargeInvInit, ChargeInvStep, PTL DEF Spec

-----------------------------------------------------------------------------
(* What is completed is paid for *)

OthersPaid(j) == \E k \in charged \ {j} : OwnerOf(k) = OwnerOf(j)

\* A card that was admitted can be paid until another one is.
PayInv ==
    /\ ChargeInv
    /\ \A j \in Job : post[j] # "new" /\ kind[j] = "product_card" =>
          credits[OwnerOf(j)] >= PriceOf(j) \/ \E k \in charged : OwnerOf(k) = OwnerOf(j)
    /\ \A j \in broke : kind[j] = "product_card" => OthersPaid(j)
    /\ faults = 0 =>
          \A j \in Job : status[j] = "completed" /\ j \notin charged =>
              j \in broke \/ \E e \in Execution : executing[e] = j /\ Charging(e)

LEMMA PayInvInit == Init => PayInv
<1> SUFFICES ASSUME Init PROVE PayInv
  OBVIOUS
<1>1. \A j \in Job : post[j] = "new" /\ status[j] = "none"
  BY DEF Init
<1> QED
  BY <1>1, ChargeInvInit DEF PayInv, Init

LEMMA PayInvStep == PayInv /\ [Next]_vars => PayInv'
<1> SUFFICES ASSUME PayInv, [Next]_vars PROVE PayInv'
  OBVIOUS
<1>t. ChargeInv /\ TypeOK /\ Shapes /\ Called
  BY DEF PayInv, ChargeInv, TypeInv
<1>n. ChargeInv'
  BY <1>t, ChargeInvStep
<1>g. /\ kind' = kind /\ charged \subseteq charged' /\ broke \subseteq broke'
      /\ kind \in [Job -> Kind] /\ charged \subseteq Job
  BY <1>t, Grows, AskedTypes DEF TypeOK
<1>p. \A j \in Job : PriceOf(j)' = PriceOf(j) /\ OwnerOf(j)' = OwnerOf(j)
  BY <1>g DEF PriceOf, OwnerOf
<1> DEFINE payable(j) == credits[OwnerOf(j)] >= PriceOf(j) \/ \E k \in charged : OwnerOf(k) = OwnerOf(j)
           underway(j) == j \in broke \/ \E e \in Execution : executing[e] = j /\ Charging(e)
<1>y. /\ \A j \in Job : post[j] # "new" /\ kind[j] = "product_card" => payable(j)
      /\ \A j \in broke : kind[j] = "product_card" => OthersPaid(j)
      /\ faults = 0 => \A j \in Job : status[j] = "completed" /\ j \notin charged => underway(j)
  BY DEF PayInv
<1> DEFINE pays == /\ \A j \in Job : post'[j] # "new" /\ kind[j] = "product_card" => payable(j)'
                   /\ \A j \in broke' : kind[j] = "product_card" => OthersPaid(j)'
                   /\ faults' = 0 => \A j \in Job :
                                        status'[j] = "completed" /\ j \notin charged' => underway(j)'
<1>s. SUFFICES pays
  BY <1>n, <1>g DEF PayInv
<1>o. \A j \in Job : OthersPaid(j) => OthersPaid(j)'
  BY <1>g, <1>p DEF OthersPaid
<1>1. ASSUME NEW j \in Job, Admits(j) \/ Uploads(j) \/ Creates(j) \/ Enqueues(j) \/ QueueMoves(j)
      PROVE  pays
  <2>1. /\ UNCHANGED <<credits, charged, broke, faults, executing, pc>>
        /\ \A k \in Job : status'[k] = "completed" => status[k] = "completed"
    BY <1>t, <1>1 DEF Admits, Uploads, Creates, Enqueues, QueueMoves, Queue!Enqueue, Queue!Close,
       Queue!Suspect, Posted, rows, account, unqueued, queue, history, TypeOK
  <2>2. ASSUME NEW k \in Job, post'[k] # "new", kind[k] = "product_card" PROVE payable(k)
    <3>1. CASE Admits(j) /\ k = j
      BY <3>1 DEF Admits
    <3>2. CASE ~(Admits(j) /\ k = j)
      <4>1. post[k] # "new"
        BY <1>t, <1>1, <2>2, <3>2 DEF Admits, Uploads, Creates, Enqueues, QueueMoves, Posted, TypeOK
      <4> QED
        BY <1>y, <2>2, <4>1
    <3> QED
      BY <3>1, <3>2
  <2>3. \A k \in Job : (payable(k) => payable(k)') /\ (underway(k) => underway(k)')
    BY <1>p, <1>g, <2>1 DEF Charging, At
  <2> HIDE DEF payable, underway
  <2>4. broke \subseteq Job
    BY <1>t DEF TypeOK
  <2> QED
    BY <1>y, <1>o, <2>1, <2>2, <2>3, <2>4
<1>2. ASSUME NEW e \in Execution, NEW j \in Job, Begin(e, j) PROVE pays
  <2>1. /\ UNCHANGED <<credits, charged, broke, faults, post, status>> /\ executing[e] = NoJob
    BY <1>2 DEF Begin, Queue!Begin, rows, account, history
  <2>2. \A f \in Execution \ {e} : pc'[f] = pc[f] /\ executing'[f] = executing[f]
    BY <1>t, <1>2, Others
  <2>3. \A k \in Job : (payable(k) => payable(k)') /\ (underway(k) => underway(k)')
    BY <1>p, <1>g, <2>1, <2>2, VersionAssumption DEF Charging, At
  <2> HIDE DEF payable, underway
  <2>4. broke \subseteq Job
    BY <1>t DEF TypeOK
  <2> QED
    BY <1>y, <1>o, <2>1, <2>3, <2>4
<1>3. ASSUME NEW e \in Execution, NEW j, j = executing[e], Proceeds(e) PROVE pays
  <2>1. /\ UNCHANGED <<post, faults>> /\ ~At(e, "idle")
        /\ (Returns(e) \/ executing' = executing)
    BY <1>3 DEF Proceeds, Analyzes, SavesAnalysis, Stores, Raises, Inserts, LoadsRow, Marks, LoadsAccount,
       Books, Returns, CallEnds, At, called, queue
  <2>2. j \in begun /\ j \in Job /\ post[j] = "saved"
    BY <1>t, <1>3, <2>1 DEF TypeOK, Shapes, At, Called
  <2>3. \A f \in Execution \ {e} : pc'[f] = pc[f] /\ executing'[f] = executing[f]
    BY <1>t, <1>3, Others
  <2>4. \A k \in Job \ {j} : /\ status'[k] = status[k]
                             /\ k \in charged' <=> k \in charged
    BY <1>t, <1>3, OwnRow
  <2>5. \A k \in Job \ {j} : underway(k) => underway(k)'
    BY <1>3, <1>g, <2>1, <2>3 DEF Charging, At
  <2>6. CASE ~LoadsAccount(e) /\ ~Books(e)
    <3>1. UNCHANGED <<credits, charged, broke>>
      BY <1>3, <2>6 DEF Proceeds, Analyzes, SavesAnalysis, Stores, Raises, Inserts, LoadsRow, Marks,
         Returns, CallEnds, account
    <3>2. \A k \in Job : payable(k) => payable(k)'
      BY <1>p, <1>g, <3>1
    <3>3. status'[j] = "completed" => status[j] = "completed" \/ Charging(e)'
      <4>1. CASE Marks(e)
        <5>1. /\ status' = [status EXCEPT ![j] = IF work[e].seen = work[e].mark THEN @ ELSE work[e].mark]
              /\ pc' = [pc EXCEPT ![e] = IF work[e].mark = "completed" THEN "charging" ELSE "returned"]
          BY <1>3, <4>1 DEF Marks, Goto
        <5> QED
          BY <1>t, <2>2, <5>1 DEF Charging, At, TypeOK
      <4>2. CASE ~Marks(e)
        <5>1. status' = status
          BY <1>3, <2>6, <4>2 DEF Proceeds, Analyzes, SavesAnalysis, Stores, Raises, Inserts, LoadsRow,
             Returns, CallEnds, rows
        <5> QED
          BY <5>1
      <4> QED
        BY <4>1, <4>2
    <3>4. ~Charging(e)
      BY <1>3, <2>6 DEF Proceeds, Analyzes, SavesAnalysis, Stores, Raises, Inserts, LoadsRow, Marks,
         Returns, Charging, At
    <3>5. Charging(e)' => executing'[e] = j
      BY <1>3, <1>n, <2>1 DEF Returns, CallEnds, Charging, At, Goto, ChargeInv, TypeInv, TypeOK
    <3>6. status[j] = "completed" /\ underway(j) => underway(j)'
      BY <1>g, <2>3, <3>4 DEF Charging, At
    <3>7. Charging(e)' => underway(j)'
      BY <3>5
    <3>8. broke \subseteq Job
      BY <1>t DEF TypeOK
    <3> HIDE DEF payable, underway
    <3>9. \A k \in Job : post'[k] # "new" /\ kind[k] = "product_card" => payable(k)'
      BY <1>y, <2>1, <3>2
    <3>10. \A k \in broke' : kind[k] = "product_card" => OthersPaid(k)'
      BY <1>y, <1>o, <3>1, <3>8
    <3>11. ASSUME faults' = 0, NEW k \in Job, status'[k] = "completed", k \notin charged'
           PROVE  underway(k)'
      <4>1. CASE k # j
        BY <1>y, <2>1, <2>4, <2>5, <3>1, <3>11, <4>1
      <4>2. CASE k = j
        BY <1>y, <2>1, <3>1, <3>3, <3>6, <3>7, <3>11, <4>2
      <4> QED
        BY <4>1, <4>2
    <3> QED
      BY <3>9, <3>10, <3>11
  <2>7. CASE LoadsAccount(e)
    <3>1. /\ UNCHANGED <<credits, charged, status>> /\ executing' = executing
          /\ broke' = IF j \notin charged /\ credits[OwnerOf(j)] < PriceOf(j) THEN broke \cup {j} ELSE broke
          /\ pc'[e] = IF j \in charged \/ (j \notin charged /\ credits[OwnerOf(j)] < PriceOf(j))
                      THEN "returned" ELSE "booking"
      BY <1>t, <1>3, <2>7 DEF LoadsAccount, Goto, TypeOK, rows, account, called, queue
    <3>2. \A k \in Job : payable(k) => payable(k)'
      BY <1>p, <1>g, <3>1
    <3>3. j \notin charged => underway(j)'
      BY <1>3, <3>1 DEF Charging, At
    <3>4. j \notin charged /\ credits[OwnerOf(j)] < PriceOf(j) /\ kind[j] = "product_card" => OthersPaid(j)'
      <4>1. credits[OwnerOf(j)] \in Nat /\ PriceOf(j) \in Nat
        BY <1>t, <1>g, <2>2, Prices DEF TypeOK
      <4>2. j \notin charged /\ credits[OwnerOf(j)] < PriceOf(j) /\ kind[j] = "product_card" => OthersPaid(j)
        BY <1>y, <2>2, <4>1 DEF OthersPaid
      <4> QED
        BY <1>o, <2>2, <4>2
    <3>5. broke \subseteq Job
      BY <1>t DEF TypeOK
    <3> HIDE DEF payable, underway
    <3>6. \A k \in Job : post'[k] # "new" /\ kind[k] = "product_card" => payable(k)'
      BY <1>y, <2>1, <3>2
    <3>7. \A k \in broke' : kind[k] = "product_card" => OthersPaid(k)'
      BY <1>y, <1>o, <3>1, <3>4, <3>5
    <3>8. ASSUME faults' = 0, NEW k \in Job, status'[k] = "completed", k \notin charged'
          PROVE  underway(k)'
      BY <1>y, <2>1, <2>4, <2>5, <3>1, <3>3, <3>8
    <3> QED
      BY <3>6, <3>7, <3>8
  <2>8. CASE Books(e)
    <3>1. /\ UNCHANGED <<status, broke>> /\ charged' = charged \cup {j}
          /\ credits' = [credits EXCEPT ![OwnerOf(j)] = work[e].balance - PriceOf(j)]
      BY <1>3, <2>8 DEF Books, rows
    <3>2. \A k \in Job : payable(k) => payable(k)'
      <4> SUFFICES ASSUME NEW k \in Job, payable(k) PROVE payable(k)'
        OBVIOUS
      <4>1. CASE OwnerOf(k) = OwnerOf(j)
        BY <1>p, <2>2, <3>1, <4>1
      <4>2. CASE OwnerOf(k) # OwnerOf(j)
        <5>1. credits'[OwnerOf(k)] = credits[OwnerOf(k)]
          BY <1>t, <1>g, <3>1, <4>2, Prices DEF TypeOK
        <5> QED
          BY <1>p, <1>g, <3>1, <5>1
      <4> QED
        BY <4>1, <4>2
    <3> QED
      BY <1>y, <1>o, <1>t, <2>1, <2>2, <2>4, <2>5, <3>1, <3>2 DEF TypeOK
  <2> QED
    BY <2>6, <2>7, <2>8
<1>4. ASSUME NEW e \in Execution, Dies(e) PROVE pays
  <2>1. UNCHANGED <<credits, charged, broke, post>> /\ faults' = faults + 1 /\ faults \in Nat
    BY <1>t, <1>4, VersionAssumption DEF Dies, CallEnds, account, TypeOK
  <2>2. \A k \in Job : payable(k) => payable(k)'
    BY <1>p, <1>g, <2>1
  <2> HIDE DEF payable
  <2> QED
    BY <1>t, <1>y, <1>o, <2>1, <2>2 DEF TypeOK
<1>5. CASE UNCHANGED vars
  <2>1. UNCHANGED <<credits, charged, broke, post, faults, status, executing, pc>>
    BY <1>5 DEF vars, rows, account, queue, history
  <2>2. \A k \in Job : (payable(k) => payable(k)') /\ (underway(k) => underway(k)')
    BY <1>p, <1>g, <2>1 DEF Charging, At
  <2> HIDE DEF payable, underway
  <2> QED
    BY <1>t, <1>y, <1>o, <2>1, <2>2 DEF TypeOK
<1> QED
  BY <1>1, <1>2, <1>3, <1>4, <1>5 DEF Next

\* A completed job that nobody works on is charged, unless an execution died or
\* its owner could not pay; a card was affordable when it was admitted, so then
\* another one of its owner was charged.
THEOREM CompletedPaid == Spec => []CompletedIsPaid
<1>1. PayInv => CompletedIsPaid
  <2> SUFFICES ASSUME PayInv, NEW j \in Job, status[j] = "completed", Quiet(j), j \notin charged, ~(faults > 0)
               PROVE  j \in broke /\ (kind[j] = "product_card" => OthersPaid(j))
    BY DEF CompletedIsPaid, OthersPaid
  <2>1. faults = 0
    BY VersionAssumption DEF PayInv, ChargeInv, TypeInv, TypeOK
  <2> QED
    BY <2>1 DEF PayInv, Quiet
<1> QED
  BY <1>1, PayInvInit, PayInvStep, PTL DEF Spec

-----------------------------------------------------------------------------
(* What a version is made of *)

OwnName(j) == \A k \in Job \ {j} : names[k] # names[j]

\* A card's photos are its own from their upload on, through its analysis.
OwnPhotos ==
    \A j \in Job : kind[j] = "product_card" /\ OwnName(j) =>
        /\ post[j] \in {"uploaded", "saved"} => stored[names[j]] = j
        /\ \A e \in Execution : executing[e] = j =>
              /\ At(e, "analyzed") => work[e].photo = j
              /\ At(e, "generating") => analysis[j].photo = j
        /\ version[j] # 0 => analysis[j].photo = j

OwnCall ==
    \A e \in Execution : Busy(e) /\ executing[e] \notin again =>
        /\ At(e, "generating") /\ kind[executing[e]] = "product_card" =>
              analysis[executing[e]].call = work[e].call
        /\ At(e, "inserting") => artifacts[executing[e]] = work[e].call

\* Who analyzes makes a card, who inserts apart makes a content package.
Routes ==
    \A e \in Execution :
        /\ At(e, "analyzing") \/ At(e, "analyzed") => kind[executing[e]] = "product_card"
        /\ At(e, "inserting") => kind[executing[e]] = "content_package"

ShowInv == ChargeInv /\ Routes /\ OwnPhotos /\ OwnCall /\ ShowsItsOwn

LEMMA ShowInvInit == Init => ShowInv
<1> SUFFICES ASSUME Init PROVE ShowInv
  OBVIOUS
<1>1. /\ \A e \in Execution : pc[e] = "idle" /\ executing[e] = NoJob
      /\ \A j \in Job : post[j] = "new" /\ version[j] = 0
  BY DEF Init, Queue!Init
<1> QED
  BY <1>1, ChargeInvInit, VersionAssumption
  DEF ShowInv, Routes, OwnPhotos, OwnCall, ShowsItsOwn, Busy, At

\* Steps that touch neither photos, analyses, artifacts nor versions, and leave
\* no execution further on its way to a version, keep what versions show.
LEMMA NothingShown ==
    ASSUME ShowInv, [Next]_vars, UNCHANGED <<stored, analysis, artifacts, version>>,
           \A j \in Job : kind[j] = "product_card" /\ post'[j] \in {"uploaded", "saved"} =>
               post[j] \in {"uploaded", "saved"},
           \A f \in Execution : Early(f)' =>
               \/ pc'[f] = pc[f] /\ work'[f] = work[f] /\ executing'[f] = executing[f]
               \/ pc'[f] = "analyzing" /\ kind[executing'[f]] = "product_card"
               \/ pc'[f] = "generating" /\ kind[executing'[f]] # "product_card"
    PROVE  ShowInv'
<1>1. /\ kind' = kind /\ names' = names /\ again \subseteq again' /\ ChargeInv'
  BY Grows, ChargeInvStep DEF ShowInv, ChargeInv, TypeInv
<1>2. Routes'
  BY <1>1 DEF ShowInv, Routes, At, Early
<1>3. \A j \in Job : OwnName(j)' <=> OwnName(j)
  BY <1>1 DEF OwnName
<1>4. OwnPhotos'
  BY <1>1, <1>3 DEF ShowInv, OwnPhotos, At, Early
<1>5. OwnCall'
  BY <1>1 DEF ShowInv, OwnCall, Busy, At, Early
<1>6. ShowsItsOwn'
  BY <1>1 DEF ShowInv, ShowsItsOwn
<1> QED
  BY <1>1, <1>2, <1>4, <1>5, <1>6 DEF ShowInv

LEMMA ShowInvStep == ShowInv /\ [Next]_vars => ShowInv'
<1> SUFFICES ASSUME ShowInv, [Next]_vars PROVE ShowInv'
  OBVIOUS
<1>t. ChargeInv /\ TypeOK /\ Shapes /\ Called /\ OnceCalled
  BY DEF ShowInv, ChargeInv, TypeInv
<1>y. Routes /\ OwnPhotos /\ OwnCall /\ ShowsItsOwn
  BY DEF ShowInv
<1>n. ChargeInv' /\ TypeOK'
  BY <1>t, ChargeInvStep DEF ChargeInv, TypeInv
<1>g. /\ kind' = kind /\ names' = names /\ again \subseteq again'
      /\ kind \in [Job -> Kind] /\ DOMAIN names = Job
      /\ \A j \in Job : version[j] # 0 => version'[j] = version[j]
  BY <1>t, Grows, AskedTypes
<1>o. \A j \in Job : OwnName(j)' <=> OwnName(j)
  BY <1>g DEF OwnName
<1>1. ASSUME NEW j \in Job, Admits(j) \/ Creates(j) \/ Enqueues(j) \/ QueueMoves(j) PROVE ShowInv'
  <2>1. UNCHANGED <<stored, analysis, artifacts, version, pc, work, executing>>
    BY <1>1 DEF Admits, Creates, Enqueues, QueueMoves, Queue!Enqueue, Queue!Close, Queue!Suspect,
       rows, objects, unqueued, queue
  <2>2. \A k \in Job : kind[k] = "product_card" /\ post'[k] \in {"uploaded", "saved"} =>
               post[k] \in {"uploaded", "saved"}
    BY <1>t, <1>1 DEF Admits, Creates, Enqueues, QueueMoves, Posted, TypeOK
  <2> QED
    BY <2>1, <2>2, NothingShown
<1>2. ASSUME NEW j \in Job, Uploads(j) PROVE ShowInv'
  <2>1. /\ UNCHANGED <<analysis, artifacts, version, pc, work, executing, again>>
        /\ stored' = [stored EXCEPT ![names[j]] = j] /\ post' = [post EXCEPT ![j] = "uploaded"]
    BY <1>2 DEF Uploads, rows, unqueued, queue, Posted
  <2>2. ASSUME NEW k \in Job, kind[k] = "product_card", OwnName(k), post'[k] \in {"uploaded", "saved"}
        PROVE  stored'[names[k]] = k
    <3>1. CASE k = j
      BY <1>t, <2>1, <3>1 DEF Shapes
    <3>2. CASE k # j
      <4>1. post[k] \in {"uploaded", "saved"} /\ stored[names[k]] = k
        BY <1>t, <1>y, <2>1, <2>2, <3>2 DEF TypeOK, OwnPhotos
      <4>2. names[j] # names[k]
        BY <2>2, <3>2 DEF OwnName
      <4> QED
        BY <1>t, <2>1, <4>1, <4>2 DEF Shapes
    <3> QED
      BY <3>1, <3>2
  <2>3. OwnPhotos'
    BY <1>y, <1>g, <1>o, <2>1, <2>2 DEF OwnPhotos, At
  <2> QED
    BY <1>y, <1>n, <1>g, <2>1, <2>3 DEF ShowInv, Routes, OwnCall, ShowsItsOwn, Busy, At
<1>3. ASSUME NEW e \in Execution, NEW j \in Job, Begin(e, j) PROVE ShowInv'
  <2>1. /\ UNCHANGED <<stored, analysis, artifacts, version, post>> /\ executing'[e] = j
        /\ pc'[e] = IF kind[j] = "product_card" THEN "analyzing" ELSE "generating"
    BY <1>t, <1>3 DEF Begin, Queue!Begin, Goto, rows, objects, TypeOK
  <2>2. \A f \in Execution \ {e} : pc'[f] = pc[f] /\ work'[f] = work[f] /\ executing'[f] = executing[f]
    BY <1>t, <1>3, Others
  <2> QED
    BY <2>1, <2>2, NothingShown
<1>4. ASSUME NEW e \in Execution,
             Raises(e) \/ LoadsRow(e) \/ Marks(e) \/ LoadsAccount(e) \/ Books(e) \/ Returns(e) \/ Dies(e)
      PROVE  ShowInv'
  <2>1. /\ UNCHANGED <<stored, analysis, artifacts, version, post>>
        /\ pc'[e] \in {"closing", "returned", "marking", "charging", "booking", "idle"}
    BY <1>t, <1>4 DEF Raises, LoadsRow, Marks, LoadsAccount, Books, Returns, Dies, CallEnds, Goto, TypeOK,
       rows, objects, called
  <2>2. \A f \in Execution \ {e} : pc'[f] = pc[f] /\ work'[f] = work[f] /\ executing'[f] = executing[f]
    BY <1>t, <1>4, Others DEF Proceeds
  <2>3. ~Early(e)'
    BY <2>1 DEF Early, At
  <2> QED
    BY <2>1, <2>2, <2>3, NothingShown
<1>5. ASSUME NEW e \in Execution, NEW j, j = executing[e],
             Analyzes(e) \/ SavesAnalysis(e) \/ Stores(e) \/ Inserts(e)
      PROVE  ShowInv'
  <2>1. /\ UNCHANGED <<stored, post, executing, again>> /\ Early(e)
    BY <1>5 DEF Analyzes, SavesAnalysis, Stores, Inserts, Early, objects, called, queue, At
  <2>2. j \in begun /\ j \in Job /\ post[j] = "saved" /\ Busy(e)
    BY <1>t, <1>5, <2>1 DEF TypeOK, Shapes, Early, At, Called, Busy
  <2>3. \A f \in Execution \ {e} : pc'[f] = pc[f] /\ work'[f] = work[f] /\ executing'[f] = executing[f]
    BY <1>t, <1>5, Others DEF Proceeds
  <2>4. \A k \in Job \ {j} : /\ version'[k] = version[k] /\ analysis'[k] = analysis[k]
                             /\ artifacts'[k] = artifacts[k]
    BY <1>t, <1>5, OwnRow DEF Proceeds
  <2>5. j \notin again => version[j] = 0 /\ \A f \in Execution : executing[f] = j => f = e
    BY <1>t, <1>5, <2>1, <2>2 DEF OnceCalled
  <2>6. work'[e].call = work[e].call /\ work[e].call # 0 /\ analysis[j] \in Analysis
    BY <1>t, <1>5, <2>2 DEF Analyzes, SavesAnalysis, Stores, Inserts, TypeOK, Work, Called
  \* It suffices to look at this execution and its job.
  <2> DEFINE photos == kind[j] = "product_card" /\ OwnName(j) =>
                         /\ At(e, "analyzed")' => work'[e].photo = j
                         /\ At(e, "generating")' \/ version'[j] # 0 => analysis'[j].photo = j
                         /\ analysis[j].photo = j => analysis'[j].photo = j
             calls0 == j \notin again =>
                         /\ At(e, "generating")' /\ kind[j] = "product_card" =>
                               analysis'[j].call = work'[e].call
                         /\ At(e, "inserting")' => artifacts'[j] = work'[e].call
                         /\ version'[j] # 0 => /\ kind[j] = "product_card" => analysis'[j].call = version'[j]
                                               /\ kind[j] = "content_package" => artifacts'[j] = version'[j]
             route == /\ ~At(e, "analyzing")'
                      /\ At(e, "analyzed")' => kind[j] = "product_card"
                      /\ At(e, "inserting")' => kind[j] = "content_package"
  <2>7. ASSUME photos, calls0, route PROVE ShowInv'
    <3>1. Routes'
      BY <1>y, <1>5, <1>g, <2>1, <2>3, <2>7 DEF Routes, At
    <3>2. OwnPhotos'
      <4> SUFFICES ASSUME NEW k \in Job, kind[k] = "product_card", OwnName(k)
                   PROVE  /\ post'[k] \in {"uploaded", "saved"} => stored'[names[k]] = k
                          /\ \A f \in Execution : executing'[f] = k =>
                                /\ At(f, "analyzed")' => work'[f].photo = k
                                /\ At(f, "generating")' => analysis'[k].photo = k
                          /\ version'[k] # 0 => analysis'[k].photo = k
        BY <1>g, <1>o DEF OwnPhotos
      <4>1. CASE k = j
        BY <1>y, <1>5, <2>1, <2>3, <2>7, <4>1 DEF OwnPhotos, At
      <4>2. CASE k # j
        BY <1>y, <1>5, <2>1, <2>3, <2>4, <4>2 DEF OwnPhotos, At
      <4> QED
        BY <4>1, <4>2
    <3>3. OwnCall'
      <4> SUFFICES ASSUME NEW f \in Execution, Busy(f)', executing'[f] \notin again'
                   PROVE  /\ At(f, "generating")' /\ kind[executing'[f]] = "product_card" =>
                                analysis'[executing'[f]].call = work'[f].call
                          /\ At(f, "inserting")' => artifacts'[executing'[f]] = work'[f].call
        BY <1>g DEF OwnCall
      <4>1. CASE f = e
        BY <1>5, <2>1, <2>7, <4>1
      <4>2. CASE f # e
        <5>1. executing[f] # j /\ executing[f] \in Job
          BY <1>t, <2>1, <2>5, <4>2 DEF Busy, TypeOK
        <5> QED
          BY <1>y, <2>1, <2>3, <2>4, <4>2, <5>1 DEF OwnCall, Busy, At
      <4> QED
        BY <4>1, <4>2
    <3>4. ShowsItsOwn'
      <4> SUFFICES ASSUME NEW k \in Job, version'[k] # 0
                   PROVE  /\ kind[k] = "product_card" =>
                                /\ k \notin again => analysis'[k].call = version'[k]
                                /\ OwnName(k) => analysis'[k].photo = k
                          /\ kind[k] = "content_package" /\ k \notin again => artifacts'[k] = version'[k]
        BY <1>g, <2>1 DEF ShowsItsOwn, OwnName
      <4>1. CASE k = j
        BY <2>7, <4>1
      <4>2. CASE k # j
        BY <1>y, <2>4, <4>2 DEF ShowsItsOwn, OwnName
      <4> QED
        BY <4>1, <4>2
    <3> QED
      BY <1>n, <3>1, <3>2, <3>3, <3>4 DEF ShowInv
  <2>8. /\ kind[j] = "product_card" /\ OwnName(j) =>
              /\ stored[names[j]] = j /\ (At(e, "analyzed") => work[e].photo = j)
              /\ At(e, "generating") \/ version[j] # 0 => analysis[j].photo = j
        /\ j \notin again =>
              /\ At(e, "generating") /\ kind[j] = "product_card" => analysis[j].call = work[e].call
              /\ At(e, "inserting") => artifacts[j] = work[e].call
        /\ At(e, "analyzing") \/ At(e, "analyzed") => kind[j] = "product_card"
        /\ At(e, "inserting") => kind[j] = "content_package"
    BY <1>y, <1>5, <2>2 DEF OwnPhotos, OwnCall, Routes
  <2>9. CASE Analyzes(e)
    <3>1. /\ UNCHANGED <<analysis, artifacts, version>> /\ pc'[e] = "analyzed" /\ At(e, "analyzing")
          /\ work'[e].photo = stored[names[j]]
      BY <1>t, <1>5, <2>9 DEF Analyzes, Goto, TypeOK, Work, rows, objects
    <3> QED
      BY <2>5, <2>7, <2>8, <3>1 DEF At
  <2>10. CASE SavesAnalysis(e)
    <3>1. /\ UNCHANGED <<artifacts, version, work>> /\ pc'[e] = "generating" /\ At(e, "analyzed")
          /\ analysis'[j] = [call |-> work[e].call, photo |-> work[e].photo]
      BY <1>t, <1>5, <2>2, <2>10 DEF SavesAnalysis, Goto, TypeOK, objects
    <3> QED
      BY <2>5, <2>7, <2>8, <3>1 DEF At
  <2>11. CASE Stores(e)
    <3>1. /\ UNCHANGED <<analysis, version, work>> /\ pc'[e] = "inserting" /\ At(e, "generating")
          /\ artifacts'[j] = work[e].call /\ kind[j] = "content_package"
      BY <1>t, <1>5, <2>2, <2>11 DEF Stores, Goto, TypeOK, rows
    <3> QED
      BY <2>5, <2>7, <2>8, <3>1 DEF At
  <2>12. CASE Inserts(e)
    <3>1. /\ UNCHANGED <<analysis, artifacts>> /\ pc'[e] \in {"closing", "returned"}
          /\ At(e, "inserting") \/ (At(e, "generating") /\ kind[j] # "content_package")
          /\ version[j] = 0 => version'[j] = work[e].call
      BY <1>t, <1>5, <2>2, <2>12 DEF Inserts, Goto, TypeOK, objects
    <3> QED
      BY <1>g, <2>2, <2>5, <2>7, <2>8, <3>1 DEF At
  <2> QED
    BY <1>5, <2>9, <2>10, <2>11, <2>12
<1>6. CASE UNCHANGED vars
  <2>1. UNCHANGED <<stored, analysis, artifacts, version, post, pc, work, executing>>
    BY <1>6 DEF vars, rows, objects, queue
  <2> QED
    BY <2>1, NothingShown
<1> QED
  BY <1>1, <1>2, <1>3, <1>4, <1>5, <1>6 DEF Next, Proceeds

\* A saved version comes with the analysis or the artifacts of the call that made
\* it unless the job is redelivered, and a card is made from the photos of its own
\* POST unless another one used the same file names.
THEOREM VersionsShowTheirOwn == Spec => []ShowsItsOwn
<1>1. ShowInv => ShowsItsOwn
  BY DEF ShowInv
<1> QED
  BY <1>1, ShowInvInit, ShowInvStep, PTL DEF Spec

=============================================================================
