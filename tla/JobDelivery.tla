---------------------------- MODULE JobDelivery ----------------------------
(***************************************************************************)
(* What the workflow queue promises the handlers of its jobs, and all that *)
(* it promises: a handler is called for enqueued jobs only, once, unless   *)
(* somebody takes the execution for dead; from then on it may be called    *)
(* again and again, also while an earlier call goes on; and when a job is  *)
(* closed, with no call in progress, it is never called again.             *)
(* JobQueue implements this; workflows that are run by the queue are       *)
(* specified on top of it.                                                 *)
(***************************************************************************)
CONSTANTS Job, Worker, NoJob

VARIABLES
    known,      \* jobs that have been enqueued
    begun,      \* jobs whose handler has been called
    again,      \* jobs whose execution was taken for dead
    executing,  \* the job whose handler a worker is in
    closed      \* jobs whose outcome is final

vars == <<known, begun, again, executing, closed>>

Init ==
    /\ known = {}
    /\ begun = {}
    /\ again = {}
    /\ executing = [w \in Worker |-> NoJob]
    /\ closed = {}

Enqueue(j) ==
    /\ j \notin known
    /\ known' = known \cup {j}
    /\ UNCHANGED <<begun, again, executing, closed>>

Begin(w, j) ==
    /\ j \in known \ closed
    /\ j \in begun => j \in again
    /\ executing[w] = NoJob
    /\ executing' = [executing EXCEPT ![w] = j]
    /\ begun' = begun \cup {j}
    /\ UNCHANGED <<known, again, closed>>

Alone(w, j) == \A v \in Worker \ {w} : executing[v] # j

\* The call returns, raises or dies with its process.
End(w) ==
    LET j == executing[w] IN
    /\ j # NoJob
    /\ executing' = [executing EXCEPT ![w] = NoJob]
    /\ \/ closed' = closed
       \/ Alone(w, j) /\ closed' = closed \cup {j}
    /\ UNCHANGED <<known, begun, again>>

\* A call that has not been heard of for too long counts as dead, rightly or not.
Suspect(j) ==
    /\ j \in known \ closed
    /\ again' = again \cup {j}
    /\ UNCHANGED <<known, begun, executing, closed>>

Close(j) ==
    /\ j \in known \ closed
    /\ \A w \in Worker : executing[w] # j
    /\ closed' = closed \cup {j}
    /\ UNCHANGED <<known, begun, again, executing>>

Next ==
    \/ \E j \in Job : Enqueue(j) \/ Suspect(j) \/ Close(j)
    \/ \E w \in Worker : End(w) \/ \E j \in Job : Begin(w, j)

Spec == Init /\ [][Next]_vars
=============================================================================
