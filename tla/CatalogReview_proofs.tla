------------------------ MODULE CatalogReview_proofs ------------------------
(***************************************************************************)
(* Theorems about CatalogReview for every finite set of requests, every    *)
(* set of executions, tier, number of requests and of faults.              *)
(***************************************************************************)
EXTENDS CatalogReview, FiniteSetTheorems, TLAPS

-----------------------------------------------------------------------------
(* Type correctness *)

Indexing == {"approve", "batch", "retry"}
Uploading == {"upload", "keyed_upload"}

\* The operations of requests in progress, and the jobs of executions.
Shapes ==
    /\ \A r \in Request :
          /\ At(r, "storing") \/ At(r, "attaching") => hand[r].op \in Uploading
          /\ At(r, "enqueueing") => hand[r].op \in Indexing
          /\ hand[r].as.updated <= clock
    /\ \A e \in Execution : executing[e] = NoKey <=> step[e] = "idle"
    /\ \A e \in Execution : executing[e] # NoKey => executing[e] \in begun
    /\ \A e, f \in Execution : executing[e] # NoKey /\ executing[e] = executing[f] => e = f

\* What will still move the clock: a request, by saving the product or by the job
\* it has yet to enqueue, and a job that has yet to be marked.
Owes(r) ==
    \/ At(r, "storing") \/ At(r, "attaching") \/ At(r, "analyzing") \/ At(r, "listed")
    \/ (At(r, "loaded") \/ At(r, "merging") \/ At(r, "enqueueing")) /\ hand[r].op \in Indexing
Owing == {r \in Request : Owes(r)}
Marking(e) == step[e] \in {"reading", "indexing", "skipping"}
Outstanding == {q \in known : q \in begun => \E e \in Execution : executing[e] = q /\ Marking(e)}

\* Who will still attach an image.
Storing == {r \in Request : At(r, "storing") \/ At(r, "attaching")}

Counts ==
    /\ clock + Cardinality(Owing) + Cardinality(Outstanding) <= 2 * requests
    /\ images + Cardinality(Storing) <= 1 + requests
    /\ images + Cardinality(Storing) <= ImageLimit + Cardinality(Request) - 1

TypeInv == TypeOK /\ Shapes /\ Counts

LEMMA ProductFields ==
    ASSUME NEW p \in Product
    PROVE  /\ p.status \in {"draft", "submitted", "active", "rejected", "archived"}
           /\ p.review \in {"not_required", "pending", "approved", "rejected"}
           /\ p.verdict \in Verdict /\ p.updated \in Stamp
           /\ DOMAIN p = {"status", "review", "verdict", "index", "updated"}
           /\ [p EXCEPT !.verdict = Unchecked] \in Product
           /\ [p EXCEPT !.status = "submitted", !.review = "pending"] \in Product
           /\ [p EXCEPT !.status = "active", !.review = "approved", !.index = "pending"] \in Product
           /\ [p EXCEPT !.status = "rejected", !.review = "rejected"] \in Product
           /\ \A u \in Stamp :
                /\ [p EXCEPT !.updated = u] \in Product
                /\ [p EXCEPT !.status = "archived", !.review = "not_required",
                             !.index = "not_indexed", !.updated = u] \in Product
                /\ [p EXCEPT !.index = "pending", !.updated = u] \in Product
                /\ [p EXCEPT !.index = "indexed", !.updated = u] \in Product
                /\ [p EXCEPT !.index = "failed", !.updated = u] \in Product
                /\ \A v \in Verdict : [p EXCEPT !.verdict = v, !.updated = u] \in Product
<1>1. Unchecked \in Verdict
  BY CatalogAssumption DEF Unchecked, Verdict, Image
<1>2. /\ p.status \in {"draft", "submitted", "active", "rejected", "archived"}
      /\ p.review \in {"not_required", "pending", "approved", "rejected"}
      /\ p.verdict \in Verdict /\ p.updated \in Stamp
      /\ DOMAIN p = {"status", "review", "verdict", "index", "updated"}
  BY DEF Product
<1>3. /\ [p EXCEPT !.verdict = Unchecked] \in Product
      /\ [p EXCEPT !.status = "submitted", !.review = "pending"] \in Product
      /\ [p EXCEPT !.status = "active", !.review = "approved", !.index = "pending"] \in Product
      /\ [p EXCEPT !.status = "rejected", !.review = "rejected"] \in Product
  BY <1>1 DEF Product
<1>4. ASSUME NEW u \in Stamp
      PROVE  /\ [p EXCEPT !.updated = u] \in Product
             /\ [p EXCEPT !.status = "archived", !.review = "not_required",
                          !.index = "not_indexed", !.updated = u] \in Product
             /\ [p EXCEPT !.index = "pending", !.updated = u] \in Product
             /\ [p EXCEPT !.index = "indexed", !.updated = u] \in Product
             /\ [p EXCEPT !.index = "failed", !.updated = u] \in Product
             /\ \A v \in Verdict : [p EXCEPT !.verdict = v, !.updated = u] \in Product
  BY DEF Product
<1> QED
  BY <1>2, <1>3, <1>4

LEMMA HandFields ==
    ASSUME NEW h \in Hand
    PROVE  /\ h.op \in Operation /\ h.as \in Product /\ h.seen \in Product /\ h.image \in Image
           /\ \A op \in Operation : [h EXCEPT !.op = op] \in Hand
           /\ \A op \in Operation, i \in Image : [h EXCEPT !.op = op, !.image = i] \in Hand
           /\ \A op \in Operation, p \in Product : [h EXCEPT !.op = op, !.as = p] \in Hand
           /\ \A p \in Product : [h EXCEPT !.as = p] \in Hand /\ [h EXCEPT !.seen = p] \in Hand
BY DEF Hand

LEMMA Numbers ==
    /\ Stamp \subseteq Nat /\ 0 \in Stamp /\ \A n \in Nat : n <= 2 * MaxRequests => n \in Stamp
    /\ BatchKey \in Nat /\ BatchKey \notin Stamp /\ NoKey \notin QueueJob
    /\ Image \subseteq Nat /\ 0 \in Image /\ \A n \in Nat : n <= MaxRequests + 1 => n \in Image
    /\ MaxRequests \in Nat /\ MaxFaults \in Nat /\ ImageLimit \in Nat \ {0}
    /\ IsFiniteSet(Request) /\ Cardinality(Request) \in Nat \ {0}
    /\ IsFiniteSet(QueueJob)
<1>1. IsFiniteSet(Request) /\ Cardinality(Request) \in Nat \ {0}
  BY CatalogAssumption, FS_CardinalityType, FS_EmptySet
<1>2. 2 * MaxRequests \in Nat
  BY CatalogAssumption
<1>3. IsFiniteSet(QueueJob)
  <2>1. 0 \in Int /\ 2 * MaxRequests \in Int
    BY <1>2
  <2>2. IsFiniteSet(0..(2 * MaxRequests))
    BY <2>1, FS_Interval, Zenon
  <2> QED
    BY <2>2, FS_AddElement DEF QueueJob, Stamp
<1> QED
  BY <1>1, <1>2, <1>3, CatalogAssumption DEF Stamp, BatchKey, NoKey, QueueJob, Image

LEMMA NothingInHand ==
    Draft \in Product /\ NoHand \in Hand /\ NoHand.op = "none" /\ NoHand.as.updated = 0
    /\ NoHand.as = Draft /\ Unchecked \in Verdict
<1>1. Unchecked \in Verdict
  BY Numbers DEF Unchecked, Verdict
<1>2. Draft \in Product /\ Draft.updated = 0
  BY <1>1, Numbers DEF Draft, Product
<1> QED
  BY <1>1, <1>2, Numbers DEF NoHand, Hand, Operation

\* A commit mixes the columns of two rows, and takes one if the other was read.
LEMMA Mixes ==
    ASSUME NEW current \in Product, NEW old \in Product, NEW new \in Product
    PROVE  /\ Written(current, old, new) \in Product
           /\ Written(current, old, new).updated \in {current.updated, new.updated}
           /\ current = old => Written(current, old, new) = new
<1> DEFINE w == Written(current, old, new)
<1>1. DOMAIN current = {"status", "review", "verdict", "index", "updated"}
      /\ DOMAIN new = {"status", "review", "verdict", "index", "updated"}
  BY ProductFields
<1>2. w = [c \in {"status", "review", "verdict", "index", "updated"} |->
             IF new[c] = old[c] THEN current[c] ELSE new[c]]
  BY <1>1 DEF Written
<1>3. \A c \in {"status", "review", "verdict", "index", "updated"} : w[c] \in {current[c], new[c]}
  BY <1>2
<1>4. w \in Product
  BY <1>2, <1>3 DEF Product
<1>5. ASSUME current = old PROVE w = new
  <2>1. \A c \in {"status", "review", "verdict", "index", "updated"} : w[c] = new[c]
    BY <1>2, <1>5
  <2> QED
    BY <1>4, <2>1 DEF Product
<1> QED
  BY <1>3, <1>4, <1>5

\* A set in which one element has come, gone or stayed.
LEMMA OneMoves ==
    ASSUME NEW S, NEW T, NEW x, IsFiniteSet(S), S \ {x} = T \ {x}
    PROVE  /\ IsFiniteSet(T) /\ Cardinality(S) \in Nat /\ Cardinality(T) \in Nat
           /\ x \in S <=> x \in T => Cardinality(T) = Cardinality(S)
           /\ x \in S /\ x \notin T => Cardinality(T) = Cardinality(S) - 1
           /\ x \notin S /\ x \in T => Cardinality(T) = Cardinality(S) + 1
           /\ Cardinality(T) <= Cardinality(S) + 1
<1>1. IsFiniteSet(S \ {x})
  BY FS_RemoveElement
<1>2. CASE x \in S /\ x \in T
  <2>1. S = T
    BY <1>2
  <2> QED
    BY <1>2, <2>1, FS_CardinalityType
<1>3. CASE x \notin S /\ x \notin T
  <2>1. S = T
    BY <1>3
  <2> QED
    BY <1>3, <2>1, FS_CardinalityType
<1>4. CASE x \in S /\ x \notin T
  <2>1. T = S \ {x}
    BY <1>4
  <2>2. IsFiniteSet(T) /\ Cardinality(T) = Cardinality(S) - 1
    BY <1>4, <2>1, FS_RemoveElement
  <2>3. Cardinality(S) \in Nat /\ Cardinality(T) \in Nat
    BY <2>2, FS_CardinalityType
  <2> QED
    BY <1>4, <2>2, <2>3
<1>5. CASE x \notin S /\ x \in T
  <2>1. T = S \cup {x}
    BY <1>5
  <2>2. IsFiniteSet(T) /\ Cardinality(T) = Cardinality(S) + 1
    BY <1>5, <2>1, FS_AddElement
  <2>3. Cardinality(S) \in Nat /\ Cardinality(T) \in Nat
    BY <2>2, FS_CardinalityType
  <2> QED
    BY <1>5, <2>2, <2>3
<1> QED
  BY <1>2, <1>3, <1>4, <1>5

LEMMA TypeInvInit == Init => TypeInv
<1> SUFFICES ASSUME Init PROVE TypeInv
  OBVIOUS
<1>q. known = {} /\ begun = {} /\ again = {} /\ closed = {} /\ executing = [e \in Execution |-> NoKey]
  BY DEF Init, Queue!Init
<1>p. /\ \A r \in Request : pc[r] = "idle" /\ hand[r] = NoHand
      /\ \A e \in Execution : step[e] = "idle"
  BY DEF Init
<1>1. row \in Product /\ images \in {0, 1} /\ row.updated = 0
  <2>1. CASE row = Draft /\ images = 0
    BY <2>1, NothingInHand DEF NoHand
  <2>2. CASE /\ row = [Draft EXCEPT !.status = "submitted", !.review = "pending",
                                    !.verdict = [result |-> "matched", image |-> 1]]
             /\ images = 1
    <3>1. [result |-> "matched", image |-> 1] \in Verdict
      BY CatalogAssumption DEF Verdict, Image
    <3>2. row \in Product /\ row.updated = Draft.updated
      BY <2>2, <3>1, NothingInHand DEF Product
    <3> QED
      BY <2>2, <3>2, NothingInHand
  <2> QED
    BY <2>1, <2>2 DEF Init
<1>2. TypeOK
  <2>1. images \in Image /\ primary \in 0..images /\ keyed \in 0..images
    BY <1>1, Numbers DEF Init
  <2>2. pc \in [Request -> Place] /\ hand \in [Request -> Hand]
        /\ step \in [Execution -> {"idle", "reading", "indexing", "skipping", "returned"}]
        /\ executing \in [Execution -> QueueJob \cup {NoKey}]
    BY <1>q, NothingInHand DEF Init, Place
  <2>3. clock \in Stamp /\ row.updated <= clock /\ requests \in 0..MaxRequests /\ faults \in 0..MaxFaults
    BY <1>1, Numbers DEF Init
  <2>4. /\ late \in BOOLEAN /\ cached \in BOOLEAN /\ overlap \in BOOLEAN /\ unsent \in BOOLEAN /\ stale \in BOOLEAN
        /\ decision \in {"created", "submitted", "approved", "rejected", "archived"}
        /\ fresh \in SUBSET Request
    BY DEF Init
  <2> QED
    BY <1>1, <1>q, <2>1, <2>2, <2>3, <2>4 DEF TypeOK
<1>3. Shapes
  BY <1>p, <1>q, NothingInHand, Numbers DEF Init, Shapes, At
<1>4. Counts
  <2>1. Owing = {} /\ Outstanding = {} /\ Storing = {}
    BY <1>p, <1>q DEF Owing, Owes, Outstanding, Storing, At
  <2> QED
    BY <1>1, <2>1, Numbers, FS_EmptySet DEF Init, Counts
<1> QED
  BY <1>2, <1>3, <1>4 DEF TypeInv

LEMMA Amounts ==
    ASSUME TypeInv
    PROVE  /\ Cardinality(Owing) \in Nat /\ Cardinality(Outstanding) \in Nat /\ Cardinality(Storing) \in Nat
           /\ IsFiniteSet(Owing) /\ IsFiniteSet(Outstanding) /\ IsFiniteSet(Storing)
           /\ clock \in Nat /\ images \in Nat /\ requests \in Nat /\ primary \in Nat /\ keyed \in Nat
           /\ requests <= MaxRequests /\ row.updated \in Nat
           /\ \A r \in Owing : Cardinality(Owing) >= 1
           /\ \A q \in Outstanding : Cardinality(Outstanding) >= 1
           /\ \A r \in Storing : Cardinality(Storing) >= 1
<1>1. /\ clock \in Nat /\ images \in Nat /\ requests \in Nat /\ primary \in Nat /\ keyed \in Nat
      /\ requests <= MaxRequests /\ row.updated \in Nat
  <2>1. /\ clock \in Stamp /\ images \in Image /\ requests \in 0..MaxRequests
        /\ primary \in 0..images /\ keyed \in 0..images /\ row \in Product
    BY DEF TypeInv, TypeOK
  <2>2. row.updated \in Stamp
    BY <2>1, ProductFields
  <2>3. clock \in Nat /\ images \in Nat /\ row.updated \in Nat /\ MaxRequests \in Nat
    BY <2>1, <2>2, Numbers
  <2>4. requests \in Nat /\ requests <= MaxRequests
    BY <2>1, <2>3
  <2>5. primary \in Nat /\ keyed \in Nat
    BY <2>1, <2>3
  <2> QED
    BY <2>3, <2>4, <2>5
<1>2. IsFiniteSet(Owing) /\ IsFiniteSet(Storing)
  BY Numbers, FS_Subset DEF Owing, Storing
<1>3. IsFiniteSet(Outstanding)
  BY Numbers, FS_Subset DEF Outstanding, TypeInv, TypeOK
<1>4. ASSUME NEW S, IsFiniteSet(S) PROVE Cardinality(S) \in Nat /\ \A x \in S : Cardinality(S) >= 1
  <2>1. Cardinality(S) \in Nat
    BY <1>4, FS_CardinalityType
  <2>2. \A x \in S : Cardinality(S) # 0
    BY <1>4, FS_EmptySet
  <2> QED
    BY <2>1, <2>2
<1> QED
  BY <1>1, <1>2, <1>3, <1>4

\* Who may still move the clock or attach an image finds room to.
LEMMA Room ==
    ASSUME TypeInv
    PROVE  /\ requests < MaxRequests => clock + 1 \in Stamp
           /\ \A r \in Owing : clock + 1 \in Stamp
           /\ \A q \in Outstanding : clock + 1 \in Stamp
           /\ \A r \in Storing : images + 1 \in Image
<1>1. clock + Cardinality(Owing) + Cardinality(Outstanding) <= 2 * requests
      /\ images + Cardinality(Storing) <= 1 + requests
  BY DEF TypeInv, Counts
<1>2. clock + 1 <= 2 * MaxRequests => clock + 1 \in Stamp
  BY Amounts, Numbers
<1>3. requests < MaxRequests \/ Cardinality(Owing) >= 1 \/ Cardinality(Outstanding) >= 1 => clock + 1 <= 2 * MaxRequests
  BY <1>1, Amounts, Numbers
<1>4. Cardinality(Storing) >= 1 => images + 1 <= MaxRequests + 1
  BY <1>1, Amounts, Numbers
<1>5. images + 1 <= MaxRequests + 1 => images + 1 \in Image
  BY Amounts, Numbers
<1> QED
  BY <1>2, <1>3, <1>4, <1>5, Amounts

\* The requests that load the product and are going to save it.
Takes(r) ==
    \/ \E result \in {"matched", "other"} : Judges(r, result) \/ Analyzed(r, result)
    \/ Submits(r) \/ Approves(r) \/ ApprovesListed(r) \/ Rejects(r) \/ Archives(r) \/ Retries(r)

LEMMA SavesWhat ==
    ASSUME TypeInv, NEW r \in Request, NEW op \in Operation, NEW as \in Product, Saves(r, op, as)
    PROVE  /\ pc' = [pc EXCEPT ![r] = "loaded"] /\ fresh' = fresh \cup {r}
           /\ hand' = [hand EXCEPT ![r] = hand'[r]] /\ hand'[r] \in Hand
           /\ hand'[r].op = op /\ hand'[r].as = as
<1>1. hand' = [hand EXCEPT ![r] = [NoHand EXCEPT !.op = op, !.as = as]]
      /\ pc' = [pc EXCEPT ![r] = "loaded"] /\ fresh' = fresh \cup {r}
  BY DEF Saves, Goto
<1>2. hand'[r] = [NoHand EXCEPT !.op = op, !.as = as]
  BY <1>1 DEF TypeInv, TypeOK
<1>3. [NoHand EXCEPT !.op = op, !.as = as] \in Hand
  BY NothingInHand, HandFields
<1>4. [NoHand EXCEPT !.op = op, !.as = as].op = op /\ [NoHand EXCEPT !.op = op, !.as = as].as = as
  BY DEF NoHand
<1> QED
  BY <1>1, <1>2, <1>3, <1>4

LEMMA TakesAll ==
    ASSUME TypeInv, NEW r \in Request, Takes(r)
    PROVE  /\ pc' = [pc EXCEPT ![r] = "loaded"] /\ fresh' = fresh \cup {r}
           /\ hand' = [hand EXCEPT ![r] = hand'[r]] /\ hand'[r] \in Hand
           /\ hand'[r].as.updated <= clock' /\ clock' \in Stamp
           /\ \/ pc[r] = "idle" /\ requests < MaxRequests /\ requests' = requests + 1 /\ clock' \in {clock, clock + 1}
              \/ pc[r] = "analyzing" /\ requests' = requests /\ clock' = clock + 1 /\ hand'[r].op = "validate"
              \/ pc[r] = "listed" /\ requests' = requests /\ clock' = clock /\ hand'[r].op = "batch"
           /\ UNCHANGED <<others, overlap>>
           /\ LET op == hand'[r].op
                  as == hand'[r].as
              IN \/ /\ op = "validate" /\ as.status = row.status /\ as.review = row.review
                    /\ as.verdict.result # "not_checked"
                    /\ as.verdict.image = IF pc[r] = "analyzing" THEN hand[r].image ELSE primary
                 \/ /\ op = "retry" /\ as.status = row.status /\ as.review = row.review
                    /\ as.verdict = row.verdict /\ Public
                 \/ /\ op = "submit" /\ as.status = "submitted" /\ as.review = "pending" /\ as.verdict = row.verdict
                 \/ /\ op \in {"approve", "batch"} /\ as.status = "active" /\ as.review = "approved"
                    /\ as.verdict = row.verdict /\ as.verdict.result = "matched"
                 \/ /\ op = "reject" /\ as.status = "rejected" /\ as.review = "rejected" /\ as.verdict = row.verdict
                 \/ /\ op = "archive" /\ as.status = "archived" /\ as.review = "not_required"
                    /\ as.verdict = row.verdict
<1>1. /\ row \in Product /\ row.updated <= clock /\ clock \in Stamp /\ clock \in Nat /\ row.updated \in Nat
      /\ primary \in Image /\ hand[r] \in Hand
  BY Amounts, Numbers DEF TypeInv, TypeOK, Image
<1>2. pc[r] = "analyzing" => r \in Owing
  BY DEF Owing, Owes, At
<1>3. (pc[r] = "idle" /\ requests < MaxRequests) \/ pc[r] = "analyzing" => clock + 1 \in Stamp
  BY <1>2, Room
<1>v. ASSUME NEW result \in {"matched", "other"}, NEW image \in Image PROVE [result |-> result, image |-> image] \in Verdict
  BY DEF Verdict
<1>4. ASSUME NEW result \in {"matched", "other"}, Judges(r, result) \/ Analyzed(r, result)
      PROVE  /\ \E as \in Product :
                  /\ Saves(r, "validate", as) /\ as.status = row.status /\ as.review = row.review
                  /\ as.verdict.result # "not_checked" /\ as.updated = clock + 1
                  /\ as.verdict.image = IF pc[r] = "analyzing" THEN hand[r].image ELSE primary
             /\ clock' = clock + 1 /\ UNCHANGED <<others, overlap>>
             /\ \/ pc[r] = "idle" /\ requests < MaxRequests /\ requests' = requests + 1
                \/ pc[r] = "analyzing" /\ requests' = requests
  <2> DEFINE image == IF pc[r] = "analyzing" THEN hand[r].image ELSE primary
             v == [result |-> result, image |-> image]
             as == [row EXCEPT !.verdict = v, !.updated = clock + 1]
  <2>1. /\ Saves(r, "validate", as) /\ clock' = clock + 1 /\ UNCHANGED <<others, overlap>>
        /\ \/ pc[r] = "idle" /\ requests < MaxRequests /\ requests' = requests + 1
           \/ pc[r] = "analyzing" /\ requests' = requests
    BY <1>4 DEF Judges, Analyzed, Arrives, Touches, Now, At
  <2>2. image \in Image
    BY <1>1, HandFields
  <2>3. v \in Verdict /\ v.result # "not_checked" /\ v.image = image
    BY <1>v, <2>2
  <2>4. clock + 1 \in Stamp
    BY <1>3, <2>1
  <2> HIDE DEF v, image
  <2>5. as \in Product
    BY <1>1, <2>3, <2>4, ProductFields
  <2>6. as.status = row.status /\ as.review = row.review /\ as.verdict = v /\ as.updated = clock + 1
    BY <1>1 DEF Product
  <2> USE DEF image
  <2> QED
    BY <2>1, <2>3, <2>5, <2>6
<1>5. ASSUME Submits(r) \/ Approves(r) \/ ApprovesListed(r) \/ Rejects(r)
      PROVE  /\ \E op \in Operation, as \in Product :
                  /\ Saves(r, op, as) /\ as.verdict = row.verdict /\ as.updated = row.updated
                  /\ \/ op = "submit" /\ as.status = "submitted" /\ as.review = "pending" /\ pc[r] = "idle"
                     \/ /\ op = "approve" /\ as.status = "active" /\ as.review = "approved" /\ pc[r] = "idle"
                        /\ row.verdict.result = "matched"
                     \/ /\ op = "batch" /\ as.status = "active" /\ as.review = "approved" /\ pc[r] = "listed"
                        /\ row.verdict.result = "matched"
                     \/ op = "reject" /\ as.status = "rejected" /\ as.review = "rejected" /\ pc[r] = "idle"
             /\ clock' = clock /\ UNCHANGED <<others, overlap>>
             /\ \/ pc[r] = "idle" /\ requests < MaxRequests /\ requests' = requests + 1
                \/ pc[r] = "listed" /\ requests' = requests
  <2>1. CASE Submits(r)
    <3> DEFINE as == [row EXCEPT !.status = "submitted", !.review = "pending"]
    <3>1. as \in Product
      BY <1>1, ProductFields
    <3>2. /\ as.verdict = row.verdict /\ as.updated = row.updated /\ as.status = "submitted" /\ as.review = "pending"
      BY <1>1 DEF Product
    <3>3. Saves(r, "submit", as) /\ "submit" \in Operation
      BY <2>1 DEF Submits, Operation
    <3> QED
      BY <2>1, <3>1, <3>2, <3>3 DEF Submits, Arrives, Leaves, At
  <2>2. CASE Approves(r) \/ ApprovesListed(r)
    <3>1. Approved \in Product
      BY <1>1, ProductFields DEF Approved
    <3>2. /\ Approved.verdict = row.verdict /\ Approved.updated = row.updated
          /\ Approved.status = "active" /\ Approved.review = "approved"
      BY <1>1 DEF Approved, Product
    <3>3. "approve" \in Operation /\ "batch" \in Operation
      BY DEF Operation
    <3> QED
      BY <2>2, <3>1, <3>2, <3>3 DEF Approves, ApprovesListed, Arrives, Leaves, At
  <2>3. CASE Rejects(r)
    <3> DEFINE as == [row EXCEPT !.status = "rejected", !.review = "rejected"]
    <3>1. as \in Product
      BY <1>1, ProductFields
    <3>2. /\ as.verdict = row.verdict /\ as.updated = row.updated /\ as.status = "rejected" /\ as.review = "rejected"
      BY <1>1 DEF Product
    <3>3. Saves(r, "reject", as) /\ "reject" \in Operation
      BY <2>3 DEF Rejects, Operation
    <3> QED
      BY <2>3, <3>1, <3>2, <3>3 DEF Rejects, Arrives, Leaves, At
  <2> QED
    BY <1>5, <2>1, <2>2, <2>3
<1>6. ASSUME Archives(r) \/ Retries(r)
      PROVE  /\ \E op \in Operation, as \in Product :
                  /\ Saves(r, op, as) /\ as.verdict = row.verdict /\ as.updated = clock + 1
                  /\ \/ op = "archive" /\ as.status = "archived" /\ as.review = "not_required"
                     \/ op = "retry" /\ as.status = row.status /\ as.review = row.review /\ Public
             /\ clock' = clock + 1 /\ UNCHANGED <<others, overlap>>
             /\ pc[r] = "idle" /\ requests < MaxRequests /\ requests' = requests + 1
  <2>0. /\ clock' = clock + 1 /\ UNCHANGED <<others, overlap>>
        /\ pc[r] = "idle" /\ requests < MaxRequests /\ requests' = requests + 1
    BY <1>6 DEF Archives, Retries, Arrives, Touches, Now, At
  <2>1. CASE Archives(r)
    <3> DEFINE as == [row EXCEPT !.status = "archived", !.review = "not_required",
                                 !.index = "not_indexed", !.updated = clock + 1]
    <3>1. as \in Product
      BY <1>1, <1>3, <2>0, ProductFields
    <3>2. /\ as.verdict = row.verdict /\ as.updated = clock + 1 /\ as.status = "archived" /\ as.review = "not_required"
      BY <1>1 DEF Product
    <3>3. Saves(r, "archive", as) /\ "archive" \in Operation
      BY <2>1 DEF Archives, Operation, Now
    <3> QED
      BY <2>0, <3>1, <3>2, <3>3
  <2>2. CASE Retries(r)
    <3> DEFINE as == [row EXCEPT !.index = "pending", !.updated = clock + 1]
    <3>1. as \in Product
      BY <1>1, <1>3, <2>0, ProductFields
    <3>2. /\ as.verdict = row.verdict /\ as.updated = clock + 1 /\ as.status = row.status /\ as.review = row.review
      BY <1>1 DEF Product
    <3>3. Saves(r, "retry", as) /\ "retry" \in Operation /\ Public
      BY <2>2 DEF Retries, Operation, Now
    <3> QED
      BY <2>0, <3>1, <3>2, <3>3
  <2> QED
    BY <1>6, <2>1, <2>2
<1>o. "validate" \in Operation
  BY DEF Operation
<1>7. CASE \E result \in {"matched", "other"} : Judges(r, result) \/ Analyzed(r, result)
  BY <1>1, <1>3, <1>4, <1>7, <1>o, SavesWhat
<1>8. CASE Submits(r) \/ Approves(r) \/ ApprovesListed(r) \/ Rejects(r)
  BY <1>1, <1>5, <1>8, SavesWhat
<1>9. CASE Archives(r) \/ Retries(r)
  BY <1>1, <1>3, <1>6, <1>9, SavesWhat
<1> QED
  BY <1>7, <1>8, <1>9 DEF Takes

\* What a request has in hand after its other steps.
Waits(r) ==
    \/ \E op \in Uploading : Uploads(r, op)
    \/ Stores(r) \/ \E first \in BOOLEAN : Attaches(r, first)
    \/ Validates(r) \/ Lists(r) \/ Merges(r) \/ Commits(r) \/ Enqueues(r) \/ Stops(r) \/ RequestDies(r)

LEMMA WaitsHand ==
    ASSUME TypeInv, NEW r \in Request, Waits(r)
    PROVE  /\ pc' = [pc EXCEPT ![r] = pc'[r]] /\ pc'[r] \in Place
           /\ hand' = [hand EXCEPT ![r] = hand'[r]] /\ hand'[r] \in Hand
           /\ hand'[r].as.updated <= clock' /\ clock' \in Stamp
           /\ UNCHANGED <<step, begun, again, executing, closed>>
           /\ hand'[r] = NoHand \/ hand'[r].op = hand[r].op \/ pc[r] = "idle"
<1>1. /\ hand[r] \in Hand /\ row \in Product /\ clock \in Stamp /\ primary \in Image
      /\ clock \in Nat /\ row.updated <= clock /\ hand[r].as.updated <= clock
      /\ pc \in [Request -> Place] /\ hand \in [Request -> Hand]
  <2>1. primary \in Image
    BY Amounts, Numbers DEF TypeInv, TypeOK, Image
  <2> QED
    BY <2>1, Amounts DEF TypeInv, TypeOK, Shapes
<1>p. {"idle", "storing", "attaching", "listed", "analyzing", "loaded", "merging", "enqueueing"} = Place
  BY DEF Place
<1>f. UNCHANGED others => UNCHANGED <<step, begun, again, executing, closed>>
  BY DEF others, queue
<1>n. NoHand \in Hand /\ NoHand.as.updated = 0 /\ NoHand.as = Draft /\ Draft \in Product
  BY NothingInHand
<1>2. ASSUME NEW op \in Operation,
             \/ hand' = [hand EXCEPT ![r] = [hand[r] EXCEPT !.op = op]]
             \/ hand' = [hand EXCEPT ![r] = [hand[r] EXCEPT !.op = op, !.image = primary]]
      PROVE  hand' = [hand EXCEPT ![r] = hand'[r]] /\ hand'[r] \in Hand /\ hand'[r].as = hand[r].as
  <2>1. /\ [hand[r] EXCEPT !.op = op] \in Hand /\ [hand[r] EXCEPT !.op = op, !.image = primary] \in Hand
        /\ [hand[r] EXCEPT !.op = op].as = hand[r].as /\ [hand[r] EXCEPT !.op = op, !.image = primary].as = hand[r].as
    BY <1>1, HandFields DEF Hand
  <2> QED
    BY <1>1, <1>2, <2>1
<1>3. ASSUME NEW op \in Uploading, Uploads(r, op)
      PROVE  /\ pc' = [pc EXCEPT ![r] = "storing"] /\ pc[r] = "idle" /\ clock' = clock /\ UNCHANGED others
             /\ hand' = [hand EXCEPT ![r] = [hand[r] EXCEPT !.op = op]]
  BY <1>3 DEF Uploads, Arrives, At, Goto
<1>4. ASSUME Validates(r)
      PROVE  /\ pc' = [pc EXCEPT ![r] = "analyzing"] /\ pc[r] = "idle" /\ clock' = clock /\ UNCHANGED others
             /\ hand' = [hand EXCEPT ![r] = [hand[r] EXCEPT !.op = "validate", !.image = primary]]
  BY <1>4 DEF Validates, Arrives, At, Goto
<1>5. ASSUME Lists(r)
      PROVE  /\ pc' = [pc EXCEPT ![r] = "listed"] /\ pc[r] = "idle" /\ clock' = clock /\ UNCHANGED others
             /\ hand' = [hand EXCEPT ![r] = [hand[r] EXCEPT !.op = "batch"]]
  BY <1>5 DEF Lists, Arrives, At, Goto
<1>o. Uploading \cup Indexing \cup {"validate"} \subseteq Operation /\ "batch" \in Indexing
  BY DEF Uploading, Indexing, Operation
<1>6. CASE (\E op \in Uploading : Uploads(r, op)) \/ Validates(r) \/ Lists(r)
  BY <1>1, <1>2, <1>3, <1>4, <1>5, <1>6, <1>f, <1>o, <1>p
<1>7. CASE Stores(r)
  <2> DEFINE as == [row EXCEPT !.verdict = Unchecked]
             h == [hand[r] EXCEPT !.as = as]
  <2>0. as.updated = row.updated
    BY <1>1 DEF Product
  <2>1. as \in Product /\ as.updated = row.updated
    BY <1>1, <2>0, ProductFields
  <2>2. h \in Hand /\ h.as = as /\ h.op = hand[r].op
    BY <1>1, <2>1, HandFields DEF Hand
  <2>3. hand' = [hand EXCEPT ![r] = h] /\ pc' = [pc EXCEPT ![r] = "attaching"] /\ clock' = clock /\ UNCHANGED others
    BY <1>7 DEF Stores, Goto
  <2> QED
    BY <1>1, <1>f, <1>p, <2>1, <2>2, <2>3
<1>8. ASSUME NEW first \in BOOLEAN, Attaches(r, first)
      PROVE  /\ pc' = [pc EXCEPT ![r] = pc'[r]] /\ pc'[r] \in Place
             /\ hand' = [hand EXCEPT ![r] = hand'[r]] /\ hand'[r] \in Hand
             /\ hand'[r].as.updated <= clock' /\ clock' \in Stamp /\ hand'[r].op = hand[r].op
             /\ UNCHANGED <<step, begun, again, executing, closed>>
  <2> DEFINE as == [hand[r].as EXCEPT !.updated = clock + 1]
             h == [hand[r] EXCEPT !.as = as]
  <2>1. clock + 1 \in Stamp
    BY <1>8, Room DEF Attaches, Owing, Owes
  <2>2. hand[r].as \in Product
    BY <1>1, HandFields
  <2>0. as.updated = clock + 1
    BY <2>2 DEF Product
  <2>3. as \in Product /\ as.updated = clock + 1
    BY <2>0, <2>1, <2>2, ProductFields
  <2>4. h \in Hand /\ h.as = as /\ h.op = hand[r].op
    BY <1>1, <2>3, HandFields DEF Hand
  <2>5. /\ hand' = [hand EXCEPT ![r] = h] /\ pc' = [pc EXCEPT ![r] = "loaded"] /\ clock' = clock + 1
        /\ UNCHANGED <<step, queue>>
    BY <1>8 DEF Attaches, Goto, Touches, Now
  <2>6. hand'[r] = h /\ pc'[r] = "loaded" /\ hand' = [hand EXCEPT ![r] = hand'[r]] /\ pc' = [pc EXCEPT ![r] = pc'[r]]
    BY <1>1, <2>5
  <2>7. h.as.updated = clock + 1
    BY <2>3, <2>4
  <2>8. h.op = hand[r].op /\ h \in Hand
    BY <2>4
  <2> HIDE DEF h
  <2>9. hand'[r].as.updated <= clock'
    BY <1>1, <2>5, <2>6, <2>7
  <2>10. hand'[r].op = hand[r].op /\ hand'[r] \in Hand
    BY <2>6, <2>8
  <2> QED
    BY <1>p, <2>1, <2>5, <2>6, <2>9, <2>10 DEF queue
<1>9. CASE Merges(r)
  <2> DEFINE h == [hand[r] EXCEPT !.seen = row]
  <2>1. h \in Hand /\ h.as = hand[r].as /\ h.op = hand[r].op
    BY <1>1, HandFields DEF Hand
  <2>2. hand' = [hand EXCEPT ![r] = h] /\ pc' = [pc EXCEPT ![r] = "merging"] /\ clock' = clock /\ UNCHANGED others
    BY <1>9 DEF Merges, Goto
  <2> QED
    BY <1>1, <1>f, <1>p, <2>1, <2>2
<1>10. CASE Commits(r)
  <2> DEFINE h == [hand[r] EXCEPT !.seen = Draft]
  <2>1. h \in Hand /\ h.as = hand[r].as /\ h.op = hand[r].op
    BY <1>1, <1>n, HandFields DEF Hand
  <2>2. /\ hand' = [hand EXCEPT ![r] = h] \/ hand' = [hand EXCEPT ![r] = NoHand]
        /\ pc' = [pc EXCEPT ![r] = "enqueueing"] \/ pc' = [pc EXCEPT ![r] = "idle"]
        /\ clock' = clock /\ UNCHANGED <<step, begun, again, executing, closed>>
    BY <1>10 DEF Commits, Goto, queue
  <2>3. hand' = [hand EXCEPT ![r] = hand'[r]] /\ hand'[r] \in {h, NoHand}
    BY <1>1, <2>2
  <2>4. pc' = [pc EXCEPT ![r] = pc'[r]] /\ pc'[r] \in Place
    BY <1>1, <1>p, <2>2
  <2>5. hand'[r].as.updated <= clock
    <3>1. h.as.updated <= clock /\ NoHand.as.updated <= clock
      BY <1>1, <1>n, <2>1
    <3> HIDE DEF h
    <3> QED
      BY <2>3, <3>1
  <2> QED
    BY <1>1, <1>n, <2>1, <2>2, <2>3, <2>4, <2>5
<1>11. CASE Enqueues(r) \/ Stops(r) \/ RequestDies(r)
  <2>1. /\ hand' = [hand EXCEPT ![r] = NoHand] /\ pc' = [pc EXCEPT ![r] = "idle"] /\ clock' = clock
        /\ UNCHANGED <<step, begun, again, executing, closed>>
    BY <1>11 DEF Enqueues, Stops, RequestDies, Goto, others, queue, Queue!Enqueue
  <2> QED
    BY <1>1, <1>n, <1>p, <2>1
<1> QED
  BY <1>6, <1>7, <1>8, <1>9, <1>10, <1>11 DEF Waits

LEMMA Others ==
    ASSUME TypeInv, NEW r \in Request, Takes(r) \/ Waits(r), NEW s \in Request \ {r}
    PROVE  pc'[s] = pc[s] /\ hand'[s] = hand[s]
BY TakesAll, WaitsHand DEF TypeInv, TypeOK

\* What an execution changes.

LEMMA ExecutionsLeave ==
    ASSUME NEW e \in Execution, Executes(e) \/ ExecutionDies(e)
    PROVE  UNCHANGED <<gallery, cached, local, decision, stale, overlap, unsent, known, again>>
BY DEF Executes, ExecutionDies, Begin, Reads, Marks, MarksMissing, Indexed, Returns, indexer, queue, Queue!Begin, Queue!End

LEMMA MarkedRow ==
    ASSUME TypeInv, NEW e \in Execution, Marks(e) \/ MarksMissing(e)
    PROVE  /\ row' \in Product /\ row'.status = row.status /\ row'.review = row.review /\ row'.verdict = row.verdict
           /\ clock' = clock + 1 /\ clock' \in Stamp /\ row'.updated = clock'
           /\ Marking(e) /\ step' = [step EXCEPT ![e] = "returned"] /\ fresh' = {}
           /\ UNCHANGED <<queue, faults>>
<1>1. PICK index \in {"indexed", "failed"} : Indexed(e, index)
  BY DEF Marks, MarksMissing
<1>2. Marking(e)
  BY DEF Marks, MarksMissing, Marking
<1>3. executing[e] \in Outstanding
  BY <1>2 DEF Outstanding, Marking, TypeInv, TypeOK, Shapes
<1>4. row \in Product /\ clock + 1 \in Stamp
  BY <1>3, Room DEF TypeInv, TypeOK
<1>5. /\ row' = [row EXCEPT !.index = index, !.updated = clock + 1] /\ clock' = clock + 1 /\ fresh' = {}
      /\ step' = [step EXCEPT ![e] = "returned"] /\ UNCHANGED <<queue, faults>>
  BY <1>1 DEF Indexed, Touches, Now, StepTo
<1>6. row' \in Product
  BY <1>4, <1>5, ProductFields
<1>7. row'.status = row.status /\ row'.review = row.review /\ row'.verdict = row.verdict /\ row'.updated = clock + 1
  BY <1>4, <1>5 DEF Product
<1> QED
  BY <1>2, <1>4, <1>5, <1>6, <1>7

\* What the rest of the state becomes when a request waits or commits.
LEMMA WaitsRest ==
    ASSUME TypeInv, NEW r \in Request, Waits(r)
    PROVE  /\ row' \in Product /\ row'.updated <= clock'
           /\ images' \in Image /\ primary' \in 0..images' /\ keyed' \in 0..images'
           /\ requests' \in 0..MaxRequests /\ faults' \in 0..MaxFaults
           /\ known' \in SUBSET QueueJob /\ known \subseteq known'
           /\ late' \in BOOLEAN /\ cached' \in BOOLEAN /\ overlap' \in BOOLEAN /\ unsent' \in BOOLEAN
           /\ stale' \in BOOLEAN
           /\ decision' \in {"created", "submitted", "approved", "rejected", "archived"}
           /\ fresh' \in SUBSET Request
           /\ pc'[r] \in {"storing", "attaching"} => hand'[r].op \in Uploading
           /\ pc'[r] = "enqueueing" => hand'[r].op \in Indexing
<1>1. /\ row \in Product /\ row.updated <= clock /\ clock \in Nat /\ requests \in Nat /\ faults \in Nat
      /\ images \in Image /\ images \in Nat /\ primary \in 0..images /\ keyed \in 0..images
      /\ requests \in 0..MaxRequests /\ faults \in 0..MaxFaults /\ MaxFaults \in Nat /\ MaxRequests \in Nat
      /\ known \in SUBSET QueueJob
      /\ late \in BOOLEAN /\ cached \in BOOLEAN /\ overlap \in BOOLEAN /\ unsent \in BOOLEAN /\ stale \in BOOLEAN
      /\ decision \in {"created", "submitted", "approved", "rejected", "archived"}
      /\ fresh \in SUBSET Request
  BY Amounts, Numbers DEF TypeInv, TypeOK
<1>2. /\ hand \in [Request -> Hand] /\ pc \in [Request -> Place] /\ hand[r] \in Hand
      /\ At(r, "storing") \/ At(r, "attaching") => hand[r].op \in Uploading
      /\ hand[r].as.updated <= clock
  BY DEF TypeInv, TypeOK, Shapes
<1> DEFINE Rest ==
             /\ row' = row /\ clock' = clock /\ images' = images /\ primary' = primary /\ keyed' = keyed
             /\ known' = known /\ late' = late /\ decision' = decision /\ stale' = stale
           Sort == /\ pc'[r] \in {"storing", "attaching"} => hand'[r].op \in Uploading
                   /\ pc'[r] = "enqueueing" => hand'[r].op \in Indexing
<1>3. ASSUME NEW op \in Uploading, Uploads(r, op)
      PROVE  /\ Rest /\ Sort /\ requests' = requests + 1 /\ requests < MaxRequests
             /\ UNCHANGED <<faults, cached, unsent, fresh>> /\ overlap' \in BOOLEAN
  BY <1>1, <1>2, <1>3, HandFields DEF Uploads, Arrives, Goto, others, gallery, queue, Hand
<1>4. ASSUME Validates(r) \/ Lists(r)
      PROVE  /\ Rest /\ Sort /\ requests' = requests + 1 /\ requests < MaxRequests
             /\ UNCHANGED <<faults, cached, unsent, fresh, overlap>>
  BY <1>2, <1>4 DEF Validates, Lists, Arrives, Goto, others, gallery, queue
<1>5. ASSUME Stores(r) \/ Merges(r) \/ Stops(r)
      PROVE  /\ Rest /\ Sort
             /\ UNCHANGED <<requests, faults, cached, unsent, overlap>> /\ fresh' \in SUBSET Request
  <2>1. CASE Stores(r)
    <3>1. hand'[r].op = hand[r].op
      BY <1>2, <2>1 DEF Stores, Hand
    <3> QED
      BY <1>1, <1>2, <2>1, <3>1 DEF Stores, Goto, others, gallery, queue, At
  <2>2. CASE Merges(r) \/ Stops(r)
    BY <1>1, <1>2, <2>2 DEF Merges, Stops, Goto, others, gallery, queue
  <2> QED
    BY <1>5, <2>1, <2>2
<1>6. ASSUME RequestDies(r)
      PROVE  /\ Rest /\ Sort /\ faults' = faults + 1 /\ faults < MaxFaults
             /\ UNCHANGED <<requests, cached, unsent, overlap>> /\ fresh' \in SUBSET Request
  BY <1>1, <1>2, <1>6 DEF RequestDies, Goto, gallery, queue
<1>7. ASSUME Enqueues(r)
      PROVE  /\ row' = row /\ clock' = clock /\ images' = images /\ primary' = primary /\ keyed' = keyed
             /\ late' = late /\ decision' = decision /\ stale' = stale
             /\ Sort /\ UNCHANGED <<requests, faults, cached, overlap, fresh>> /\ unsent' \in BOOLEAN
             /\ known' \in SUBSET QueueJob /\ known \subseteq known'
  <2>1. KeyOf(r) \in QueueJob
    BY <1>2, HandFields, ProductFields DEF KeyOf, QueueJob
  <2>2. known' \in {known, known \cup {KeyOf(r)}}
    BY <1>7 DEF Enqueues, queue, Queue!Enqueue
  <2> QED
    BY <1>1, <1>2, <1>7, <2>1, <2>2 DEF Enqueues, Goto, gallery, seenBy
<1>8. ASSUME Commits(r)
      PROVE  /\ row' \in Product /\ row'.updated <= clock' /\ clock' = clock
             /\ images' = images /\ primary' = primary /\ keyed' = keyed
             /\ late' = late /\ known' = known /\ Sort
             /\ UNCHANGED <<requests, faults, overlap, unsent>> /\ fresh' = {}
             /\ stale' \in BOOLEAN /\ cached' \in BOOLEAN
             /\ decision' \in {"created", "submitted", "approved", "rejected", "archived"}
  <2>1. row' = Written(row, hand[r].seen, hand[r].as) /\ clock' = clock
    BY <1>8 DEF Commits
  <2>2. row' \in Product /\ row'.updated \in {row.updated, hand[r].as.updated}
    BY <1>1, <1>2, <2>1, HandFields, Mixes
  <2>3. decision' \in {"created", "submitted", "approved", "rejected", "archived"}
    BY <1>1, <1>8 DEF Commits, Decided
  <2>4. Sort
    <3>1. CASE hand[r].op \in Indexing
      <4>1. hand' = [hand EXCEPT ![r] = [hand[r] EXCEPT !.seen = Draft]] /\ pc' = [pc EXCEPT ![r] = "enqueueing"]
        BY <1>8, <3>1 DEF Commits, Indexing, Goto
      <4>2. hand'[r].op = hand[r].op
        BY <1>2, <4>1 DEF Hand
      <4> QED
        BY <1>2, <3>1, <4>1, <4>2
    <3>2. CASE hand[r].op \notin Indexing
      BY <1>2, <1>8, <3>2 DEF Commits, Indexing, Goto
    <3> QED
      BY <3>1, <3>2
  <2> QED
    BY <1>1, <1>2, <1>8, <2>1, <2>2, <2>3, <2>4 DEF Commits, gallery, queue
<1>9. ASSUME NEW first \in BOOLEAN, Attaches(r, first)
      PROVE  /\ row' = row /\ clock' = clock + 1 /\ known' = known /\ Sort
             /\ images' \in Image /\ primary' \in 0..images' /\ keyed' \in 0..images'
             /\ UNCHANGED <<requests, faults, cached, overlap, unsent, fresh, stale, decision>>
             /\ late' \in BOOLEAN
  <2>1. images + 1 \in Image
    BY <1>9, Room DEF Attaches, Storing
  <2>2. images' = images + 1 /\ primary' \in {primary, images + 1} /\ keyed' \in {keyed, keyed + 1}
    BY <1>9 DEF Attaches
  <2>3. primary' \in 0..images' /\ keyed' \in 0..images'
    BY <1>1, <2>2
  <2>4. pc'[r] = "loaded"
    BY <1>2, <1>9 DEF Attaches, Goto
  <2>5. /\ row' = row /\ clock' = clock + 1 /\ known' = known /\ late' \in BOOLEAN
        /\ UNCHANGED <<requests, faults, cached, overlap, unsent, fresh, stale, decision>>
    BY <1>1, <1>9 DEF Attaches, Touches, Now, queue, seenBy
  <2> QED
    BY <2>1, <2>2, <2>3, <2>4, <2>5
<1> HIDE DEF Sort
<1>s. SUFFICES ASSUME Sort
               PROVE  /\ row' \in Product /\ row'.updated <= clock'
                      /\ images' \in Image /\ primary' \in 0..images' /\ keyed' \in 0..images'
                      /\ requests' \in 0..MaxRequests /\ faults' \in 0..MaxFaults
                      /\ known' \in SUBSET QueueJob /\ known \subseteq known'
                      /\ late' \in BOOLEAN /\ cached' \in BOOLEAN /\ overlap' \in BOOLEAN /\ unsent' \in BOOLEAN
                      /\ stale' \in BOOLEAN
                      /\ decision' \in {"created", "submitted", "approved", "rejected", "archived"}
                      /\ fresh' \in SUBSET Request
  BY <1>3, <1>4, <1>5, <1>6, <1>7, <1>8, <1>9 DEF Waits, Sort
<1>n. /\ requests < MaxRequests => requests + 1 \in 0..MaxRequests
      /\ faults < MaxFaults => faults + 1 \in 0..MaxFaults
  BY <1>1
<1>10. CASE (\E op \in Uploading : Uploads(r, op)) \/ Validates(r) \/ Lists(r)
  BY <1>1, <1>3, <1>4, <1>10, <1>n
<1>11. CASE Stores(r) \/ Merges(r) \/ Stops(r) \/ RequestDies(r)
  BY <1>1, <1>5, <1>6, <1>11, <1>n
<1>12. CASE Enqueues(r)
  BY <1>1, <1>7, <1>12
<1>13. CASE Commits(r)
  BY <1>1, <1>8, <1>13
<1>14. CASE \E first \in BOOLEAN : Attaches(r, first)
  <2>1. row.updated <= clock + 1
    BY <1>1, Amounts
  <2> QED
    BY <1>1, <1>9, <1>14, <2>1
<1> QED
  BY <1>10, <1>11, <1>12, <1>13, <1>14 DEF Waits

LEMMA KindsStep == TypeInv /\ [Next]_vars => TypeOK' /\ Shapes'
<1> SUFFICES ASSUME TypeInv, [Next]_vars PROVE TypeOK' /\ Shapes'
  OBVIOUS
<1>t. TypeOK /\ Shapes
  BY DEF TypeInv
<1>r. ASSUME NEW r \in Request,
             pc' = [pc EXCEPT ![r] = pc'[r]], pc'[r] \in Place,
             hand' = [hand EXCEPT ![r] = hand'[r]], hand'[r] \in Hand,
             hand'[r].as.updated <= clock', clock' \in Stamp, clock' \in {clock, clock + 1},
             UNCHANGED <<step, begun, again, executing, closed>>,
             row' \in Product, row'.updated <= clock',
             images' \in Image, primary' \in 0..images', keyed' \in 0..images',
             requests' \in 0..MaxRequests, faults' \in 0..MaxFaults,
             known' \in SUBSET QueueJob, known \subseteq known',
             late' \in BOOLEAN, cached' \in BOOLEAN, overlap' \in BOOLEAN, unsent' \in BOOLEAN, stale' \in BOOLEAN,
             decision' \in {"created", "submitted", "approved", "rejected", "archived"},
             fresh' \in SUBSET Request,
             pc'[r] \in {"storing", "attaching"} => hand'[r].op \in Uploading,
             pc'[r] = "enqueueing" => hand'[r].op \in Indexing
      PROVE  TypeOK' /\ Shapes'
  <2>1. pc \in [Request -> Place] /\ hand \in [Request -> Hand] /\ begun \in SUBSET known /\ closed \in SUBSET known
        /\ again = {} /\ executing \in [Execution -> QueueJob \cup {NoKey}]
        /\ step \in [Execution -> {"idle", "reading", "indexing", "skipping", "returned"}]
    BY <1>t DEF TypeOK
  <2>2. pc' \in [Request -> Place] /\ hand' \in [Request -> Hand]
        /\ \A s \in Request \ {r} : pc'[s] = pc[s] /\ hand'[s] = hand[s]
    BY <1>r, <2>1
  <2>3. begun' \in SUBSET known' /\ closed' \in SUBSET known' /\ again' = {}
    BY <1>r, <2>1
  <2>4. \A s \in Request : hand'[s].as.updated <= clock'
    <3>1. ASSUME NEW s \in Request \ {r} PROVE hand'[s].as.updated <= clock'
      <4>1. hand[s].as \in Product
        BY <2>1, HandFields
      <4>2. hand[s].as.updated \in Nat /\ hand[s].as.updated <= clock /\ clock \in Nat
        BY <1>t, <4>1, ProductFields, Numbers, Amounts DEF Shapes
      <4>3. clock <= clock + 1
        BY <4>2
      <4>4. hand[s].as.updated <= clock'
        BY <1>r, <4>2, <4>3
      <4> QED
        BY <2>2, <4>4
    <3> QED
      BY <1>r, <3>1
  <2>5. Shapes'
    BY <1>r, <1>t, <2>2, <2>4 DEF Shapes, At
  <2>6. TypeOK'
    BY <1>r, <2>1, <2>2, <2>3 DEF TypeOK
  <2> QED
    BY <2>5, <2>6
<1>c. ASSUME NEW r \in Request, Waits(r) PROVE clock' \in {clock, clock + 1}
  BY <1>c DEF Waits, Uploads, Stores, Attaches, Validates, Lists, Merges, Commits, Enqueues, Stops, RequestDies,
     Touches, Now, others
<1>1. ASSUME NEW r \in Request, Waits(r) PROVE TypeOK' /\ Shapes'
  BY <1>r, <1>c, <1>1, WaitsHand, WaitsRest
<1>2. ASSUME NEW r \in Request, Takes(r) PROVE TypeOK' /\ Shapes'
  <2>1. /\ UNCHANGED <<row, images, primary, keyed, late, cached, known, begun, again, executing, closed, step,
                       decision, stale, unsent, faults, overlap>>
    BY <1>2, TakesAll DEF others, gallery, queue
  <2>2. requests' \in 0..MaxRequests
    BY <1>2, TakesAll, Amounts, Numbers
  <2>3. row.updated <= clock'
    <3>1. clock' \in {clock, clock + 1}
      BY <1>2, TakesAll
    <3>2. row.updated <= clock /\ row.updated \in Nat /\ clock \in Nat
      BY <1>t, Amounts DEF TypeOK
    <3>3. row.updated <= clock + 1
      BY <3>2
    <3> QED
      BY <3>1, <3>2, <3>3
  <2>4. clock' \in {clock, clock + 1} /\ pc'[r] = "loaded" /\ pc'[r] \in Place
        /\ pc' = [pc EXCEPT ![r] = pc'[r]] /\ fresh' \in SUBSET Request
    BY <1>2, <1>t, TakesAll DEF TypeOK, Place
  <2>5. /\ hand' = [hand EXCEPT ![r] = hand'[r]] /\ hand'[r] \in Hand
        /\ hand'[r].as.updated <= clock' /\ clock' \in Stamp
    BY <1>2, TakesAll
  <2> QED
    BY <1>r, <1>t, <2>1, <2>2, <2>3, <2>4, <2>5 DEF TypeOK
<1>3. ASSUME Restarts PROVE TypeOK' /\ Shapes'
  <2>1. faults' \in 0..MaxFaults
    BY <1>3, <1>t, Numbers DEF Restarts, TypeOK
  <2> QED
    BY <1>3, <1>t, <2>1 DEF Restarts, TypeOK, Shapes, At, gallery, queue, local, seenBy
\* What an execution leaves.
<1>e. ASSUME NEW e \in Execution, Executes(e) \/ ExecutionDies(e),
             row' \in Product, row'.updated <= clock', clock' \in Stamp, clock' \in {clock, clock + 1},
             begun' \in SUBSET known, closed' \in SUBSET known, faults' \in 0..MaxFaults,
             executing' \in [Execution -> QueueJob \cup {NoKey}],
             step' \in [Execution -> {"idle", "reading", "indexing", "skipping", "returned"}],
             fresh' \in SUBSET Request,
             \A f \in Execution : executing'[f] = NoKey <=> step'[f] = "idle",
             \A f \in Execution : executing'[f] # NoKey => executing'[f] \in begun',
             \A f, g \in Execution : executing'[f] # NoKey /\ executing'[f] = executing'[g] => f = g
      PROVE  TypeOK' /\ Shapes'
  <2>1. /\ UNCHANGED <<images, primary, keyed, late, cached, pc, hand, requests, decision, stale, overlap, unsent,
                       known, again>>
    BY <1>e, ExecutionsLeave DEF gallery, local
  <2>2. \A s \in Request : hand[s].as.updated <= clock'
    <3> SUFFICES ASSUME NEW s \in Request PROVE hand[s].as.updated <= clock'
      OBVIOUS
    <3>1. hand[s].as \in Product
      BY <1>t, HandFields DEF TypeOK
    <3>2. hand[s].as.updated \in Nat /\ hand[s].as.updated <= clock /\ clock \in Nat
      BY <1>t, <3>1, ProductFields, Numbers, Amounts DEF Shapes
    <3>3. clock <= clock + 1
      BY <3>2
    <3> QED
      BY <1>e, <3>2, <3>3
  <2>3. Shapes'
    BY <1>e, <1>t, <2>1, <2>2 DEF Shapes, At
  <2>4. TypeOK'
    BY <1>e, <1>t, <2>1 DEF TypeOK
  <2> QED
    BY <2>3, <2>4
<1>4. ASSUME NEW e \in Execution, NEW q \in QueueJob, Begin(e, q) PROVE TypeOK' /\ Shapes'
  <2>1. /\ executing[e] = NoKey /\ executing' = [executing EXCEPT ![e] = q] /\ step' = [step EXCEPT ![e] = "reading"]
        /\ begun' = begun \cup {q} /\ q \in known /\ q \notin begun /\ closed' = closed
        /\ UNCHANGED <<row, clock, fresh, faults>>
    BY <1>4, <1>t DEF Begin, Queue!Begin, StepTo, TypeOK
  <2>2. /\ executing' \in [Execution -> QueueJob \cup {NoKey}] /\ q # NoKey
        /\ step' \in [Execution -> {"idle", "reading", "indexing", "skipping", "returned"}]
    BY <1>t, <2>1, Numbers DEF TypeOK
  <2>3. /\ \A f \in Execution : executing'[f] = NoKey <=> step'[f] = "idle"
        /\ \A f \in Execution : executing'[f] # NoKey => executing'[f] \in begun'
        /\ \A f, g \in Execution : executing'[f] # NoKey /\ executing'[f] = executing'[g] => f = g
    BY <1>t, <2>1, <2>2 DEF TypeOK, Shapes
  <2> QED
    BY <1>e, <1>4, <1>t, <2>1, <2>2, <2>3 DEF TypeOK, Executes
<1>5. ASSUME NEW e \in Execution, Reads(e) PROVE TypeOK' /\ Shapes'
  <2>1. /\ \E s \in {"indexing", "skipping"} : step' = [step EXCEPT ![e] = s]
        /\ step[e] = "reading" /\ UNCHANGED <<row, clock, begun, executing, closed, fresh, faults>>
    BY <1>5 DEF Reads, StepTo, queue
  <2>2. /\ step' \in [Execution -> {"idle", "reading", "indexing", "skipping", "returned"}]
        /\ \A f \in Execution : executing'[f] = NoKey <=> step'[f] = "idle"
    BY <1>t, <2>1 DEF TypeOK, Shapes
  <2> QED
    BY <1>e, <1>5, <1>t, <2>1, <2>2 DEF TypeOK, Shapes, Executes
<1>6. ASSUME NEW e \in Execution, Marks(e) \/ MarksMissing(e) PROVE TypeOK' /\ Shapes'
  <2>1. /\ row' \in Product /\ clock' = clock + 1 /\ clock' \in Stamp /\ row'.updated = clock'
        /\ Marking(e) /\ step' = [step EXCEPT ![e] = "returned"] /\ fresh' = {}
        /\ UNCHANGED <<begun, executing, closed, faults>>
    BY <1>6, MarkedRow DEF queue
  <2>2. /\ step' \in [Execution -> {"idle", "reading", "indexing", "skipping", "returned"}]
        /\ \A f \in Execution : executing'[f] = NoKey <=> step'[f] = "idle"
    BY <1>t, <2>1 DEF TypeOK, Shapes, Marking
  <2>3. row'.updated <= clock'
    BY <2>1, Numbers
  <2> QED
    BY <1>e, <1>6, <1>t, <2>1, <2>2, <2>3 DEF TypeOK, Shapes, Executes
<1>7. ASSUME NEW e \in Execution, Returns(e) \/ ExecutionDies(e) PROVE TypeOK' /\ Shapes'
  <2>1. /\ executing[e] # NoKey /\ executing' = [executing EXCEPT ![e] = NoKey] /\ step' = [step EXCEPT ![e] = "idle"]
        /\ begun' = begun /\ closed' \in {closed, closed \cup {executing[e]}}
        /\ UNCHANGED <<row, clock, fresh>>
    BY <1>7 DEF Returns, ExecutionDies, Queue!End, StepTo
  <2>2. executing[e] \in known
    BY <1>t, <2>1 DEF TypeOK, Shapes
  <2>3. faults' \in 0..MaxFaults
    BY <1>7, <1>t, Numbers DEF Returns, ExecutionDies, TypeOK
  <2>4. /\ executing' \in [Execution -> QueueJob \cup {NoKey}]
        /\ step' \in [Execution -> {"idle", "reading", "indexing", "skipping", "returned"}]
        /\ \A f \in Execution : executing'[f] = NoKey <=> step'[f] = "idle"
        /\ \A f \in Execution : executing'[f] # NoKey => executing'[f] \in begun'
        /\ \A f, g \in Execution : executing'[f] # NoKey /\ executing'[f] = executing'[g] => f = g
    BY <1>t, <2>1 DEF TypeOK, Shapes
  <2> QED
    BY <1>e, <1>7, <1>t, <2>1, <2>2, <2>3, <2>4 DEF TypeOK, Executes
<1>8. CASE UNCHANGED vars
  BY <1>8, <1>t DEF TypeOK, Shapes, At, vars, gallery, queue, local, seenBy
<1> QED
  BY <1>1, <1>2, <1>3, <1>4, <1>5, <1>6, <1>7, <1>8 DEF Next, Handles, Takes, Waits, Executes, Uploading

\* Only the request that moves comes to owe something, or ceases to.
LEMMA Tallies ==
    ASSUME TypeInv, NEW r \in Request, Takes(r) \/ Waits(r)
    PROVE  /\ Cardinality(Owing)' \in Nat /\ Cardinality(Storing)' \in Nat
           /\ (Owes(r) <=> Owes(r)') => Cardinality(Owing)' = Cardinality(Owing)
           /\ Owes(r) /\ ~Owes(r)' => Cardinality(Owing)' = Cardinality(Owing) - 1
           /\ ~Owes(r) /\ Owes(r)' => Cardinality(Owing)' = Cardinality(Owing) + 1
           /\ (r \in Storing <=> r \in Storing') => Cardinality(Storing)' = Cardinality(Storing)
           /\ r \in Storing /\ r \notin Storing' => Cardinality(Storing)' = Cardinality(Storing) - 1
           /\ r \notin Storing /\ r \in Storing' => Cardinality(Storing)' = Cardinality(Storing) + 1
<1>1. \A s \in Request \ {r} : pc'[s] = pc[s] /\ hand'[s] = hand[s]
  BY Others
<1>2. Owing \ {r} = Owing' \ {r} /\ Storing \ {r} = Storing' \ {r}
  BY <1>1 DEF Owing, Owes, Storing, At
<1>3. IsFiniteSet(Owing) /\ IsFiniteSet(Storing)
  BY Amounts
<1>4. /\ Cardinality(Owing') \in Nat
      /\ r \in Owing <=> r \in Owing' => Cardinality(Owing') = Cardinality(Owing)
      /\ r \in Owing /\ r \notin Owing' => Cardinality(Owing') = Cardinality(Owing) - 1
      /\ r \notin Owing /\ r \in Owing' => Cardinality(Owing') = Cardinality(Owing) + 1
  BY <1>2, <1>3, OneMoves
<1>5. /\ Cardinality(Storing') \in Nat
      /\ r \in Storing <=> r \in Storing' => Cardinality(Storing') = Cardinality(Storing)
      /\ r \in Storing /\ r \notin Storing' => Cardinality(Storing') = Cardinality(Storing) - 1
      /\ r \notin Storing /\ r \in Storing' => Cardinality(Storing') = Cardinality(Storing) + 1
  BY <1>2, <1>3, OneMoves
<1>6. (Owes(r) <=> r \in Owing) /\ (Owes(r)' <=> r \in Owing')
  BY DEF Owing
<1> QED
  BY <1>4, <1>5, <1>6

LEMMA CountsStep == TypeInv /\ [Next]_vars => Counts'
<1> SUFFICES ASSUME TypeInv, [Next]_vars PROVE Counts'
  OBVIOUS
<1> DEFINE o == Cardinality(Owing)
           q == Cardinality(Outstanding)
           s == Cardinality(Storing)
           n == Cardinality(Request)
<1>1. /\ clock + o + q <= 2 * requests /\ images + s <= 1 + requests /\ images + s <= ImageLimit + n - 1
      /\ o \in Nat /\ q \in Nat /\ s \in Nat /\ n \in Nat /\ clock \in Nat /\ images \in Nat /\ requests \in Nat
      /\ ImageLimit \in Nat
  BY Amounts, Numbers DEF TypeInv, Counts
<1>2. pc \in [Request -> Place] /\ hand \in [Request -> Hand] /\ n' = n
  BY DEF TypeInv, TypeOK
<1>3. UNCHANGED <<known, begun, executing, step>> => q' = q
  BY DEF Outstanding, Marking
<1>4. s' \in Nat /\ s' <= n
  <2>1. IsFiniteSet(Request) /\ Storing' \in SUBSET Request
    BY Numbers DEF Storing
  <2> QED
    BY <2>1, FS_Subset, FS_CardinalityType
<1>5. UNCHANGED <<pc, hand>> => o' = o /\ s' = s
  BY DEF Owing, Owes, Storing, At
\* The request that moves.
<1>6. ASSUME NEW r \in Request, Takes(r) PROVE Counts'
  <2>1. /\ pc' = [pc EXCEPT ![r] = "loaded"] /\ pc[r] \in {"idle", "analyzing", "listed"}
        /\ UNCHANGED <<images, known, begun, executing, step>>
        /\ \/ pc[r] = "idle" /\ requests' = requests + 1 /\ clock' \in {clock, clock + 1}
           \/ pc[r] = "analyzing" /\ requests' = requests /\ clock' = clock + 1 /\ hand'[r].op = "validate"
           \/ pc[r] = "listed" /\ requests' = requests /\ clock' = clock
    BY <1>6, TakesAll DEF others, gallery, queue
  <2>2. pc'[r] = "loaded"
    BY <1>2, <2>1
  <2>3. r \notin Storing /\ r \notin Storing' /\ (pc[r] = "idle" => ~Owes(r)) /\ (pc[r] # "idle" => Owes(r))
    BY <2>1, <2>2 DEF Storing, Owes, At
  <2>4. s' = s /\ o' \in Nat /\ q' = q
    BY <1>3, <1>6, <2>1, <2>3, Tallies
  <2>5. CASE pc[r] = "idle"
    <3>1. o' <= o + 1 /\ requests' = requests + 1 /\ clock' <= clock + 1 /\ clock' \in Nat
      BY <1>1, <1>6, <2>1, <2>3, <2>5, Tallies
    <3> HIDE DEF o, q, s, n
    <3> QED
      BY <1>1, <1>2, <2>1, <2>4, <3>1 DEF Counts, o, q, s, n
  <2>6. CASE pc[r] = "analyzing"
    <3>1. ~Owes(r)' /\ requests' = requests /\ clock' = clock + 1
      BY <2>1, <2>2, <2>6 DEF Owes, At, Indexing
    <3>2. o' = o - 1
      BY <1>6, <2>3, <2>6, <3>1, Tallies
    <3> QED
      BY <1>1, <1>2, <2>1, <2>4, <3>1, <3>2 DEF Counts
  <2>7. CASE pc[r] = "listed"
    <3>1. o' <= o /\ requests' = requests /\ clock' = clock
      BY <1>1, <1>6, <2>1, <2>3, <2>7, Tallies
    <3> QED
      BY <1>1, <1>2, <2>1, <2>4, <3>1 DEF Counts
  <2> QED
    BY <2>1, <2>5, <2>6, <2>7
<1>7. ASSUME NEW r \in Request, (\E op \in Uploading : Uploads(r, op)) \/ Validates(r) \/ Lists(r) PROVE Counts'
  <2>1. /\ requests' = requests + 1 /\ clock' = clock /\ UNCHANGED <<images, known, begun, executing, step>>
        /\ pc[r] = "idle" /\ pc'[r] \in {"storing", "analyzing", "listed"}
        /\ pc'[r] = "storing" => images + 1 <= ImageLimit
    BY <1>2, <1>7 DEF Uploads, Validates, Lists, Arrives, Goto, At, others, gallery, queue
  <2>2. r \notin Storing /\ ~Owes(r) /\ Owes(r)' /\ (pc'[r] # "storing" => r \notin Storing')
    BY <2>1 DEF Storing, Owes, At
  <2>3. o' = o + 1 /\ q' = q /\ s' <= s + 1 /\ (pc'[r] # "storing" => s' = s)
    BY <1>1, <1>3, <1>7, <2>1, <2>2, Tallies DEF Waits
  <2> HIDE DEF o, q, s, n
  <2>4. images' + s' <= ImageLimit + n - 1
    BY <1>1, <1>4, <2>1, <2>3
  <2> QED
    BY <1>1, <1>2, <1>4, <2>1, <2>3, <2>4 DEF Counts, o, q, s, n
<1>8. ASSUME NEW r \in Request, Stores(r) \/ Merges(r) PROVE Counts'
  <2>1. /\ requests' = requests /\ clock' = clock /\ UNCHANGED <<images, known, begun, executing, step>>
        /\ \/ pc[r] = "storing" /\ pc'[r] = "attaching"
           \/ pc[r] = "loaded" /\ pc'[r] = "merging" /\ hand'[r].op = hand[r].op
    BY <1>2, <1>8 DEF Stores, Merges, Goto, At, others, gallery, queue, Hand
  <2>2. (r \in Storing <=> r \in Storing') /\ (Owes(r) <=> Owes(r)')
    BY <2>1 DEF Storing, Owes, At
  <2>3. o' = o /\ q' = q /\ s' = s
    BY <1>3, <1>8, <2>1, <2>2, Tallies DEF Waits
  <2> QED
    BY <1>1, <1>2, <2>1, <2>3 DEF Counts
<1>9. ASSUME NEW r \in Request, NEW first \in BOOLEAN, Attaches(r, first) PROVE Counts'
  <2>1. /\ requests' = requests /\ clock' = clock + 1 /\ images' = images + 1
        /\ UNCHANGED <<known, begun, executing, step>>
        /\ pc[r] = "attaching" /\ pc'[r] = "loaded"
    BY <1>2, <1>9 DEF Attaches, Goto, At, Touches, Now, queue
  <2>2. hand'[r].op = hand[r].op /\ hand[r].op \in Uploading
    <3>1. hand' = [hand EXCEPT ![r].as.updated = Now]
      BY <1>9 DEF Attaches
    <3>2. hand'[r].op = hand[r].op
      BY <1>2, <3>1 DEF Hand
    <3> QED
      BY <2>1, <3>2 DEF TypeInv, Shapes, At
  <2>3. r \in Storing /\ r \notin Storing' /\ Owes(r) /\ ~Owes(r)'
    BY <2>1, <2>2 DEF Storing, Owes, At, Uploading, Indexing
  <2>4. o' = o - 1 /\ q' = q /\ s' = s - 1
    BY <1>3, <1>9, <2>1, <2>3, Tallies DEF Waits
  <2> QED
    BY <1>1, <1>2, <2>1, <2>4 DEF Counts
<1>10. ASSUME NEW r \in Request, Commits(r) PROVE Counts'
  <2>1. /\ requests' = requests /\ clock' = clock /\ UNCHANGED <<images, known, begun, executing, step>>
        /\ pc[r] = "merging"
    BY <1>10 DEF Commits, At, gallery, queue
  <2>2. Owes(r)' <=> Owes(r)
    <3>1. CASE hand[r].op \in Indexing
      <4>1. hand' = [hand EXCEPT ![r] = [hand[r] EXCEPT !.seen = Draft]] /\ pc'[r] = "enqueueing"
        BY <1>2, <1>10, <3>1 DEF Commits, Indexing, Goto
      <4>2. hand'[r].op = hand[r].op
        BY <1>2, <4>1 DEF Hand
      <4> QED
        BY <2>1, <3>1, <4>1, <4>2 DEF Owes, At
    <3>2. CASE hand[r].op \notin Indexing
      <4>1. pc'[r] = "idle"
        BY <1>2, <1>10, <3>2 DEF Commits, Indexing, Goto
      <4> QED
        BY <2>1, <3>2, <4>1 DEF Owes, At
    <3> QED
      BY <3>1, <3>2
  <2>3. r \notin Storing /\ r \notin Storing'
    BY <1>2, <1>10, <2>1 DEF Commits, Goto, Storing, At
  <2>4. o' = o /\ q' = q /\ s' = s
    BY <1>3, <1>10, <2>1, <2>2, <2>3, Tallies DEF Waits
  <2> QED
    BY <1>1, <1>2, <2>1, <2>4 DEF Counts
<1>11. ASSUME NEW r \in Request, Enqueues(r) PROVE Counts'
  <2>1. /\ requests' = requests /\ clock' = clock /\ UNCHANGED <<images, begun, executing, step>>
        /\ pc[r] = "enqueueing" /\ pc'[r] = "idle"
        /\ known' \in {known, known \cup {KeyOf(r)}}
    BY <1>2, <1>11 DEF Enqueues, Goto, At, gallery, queue, Queue!Enqueue
  <2>2. Owes(r) /\ ~Owes(r)' /\ r \notin Storing /\ r \notin Storing'
    BY <2>1 DEF Owes, Storing, At, TypeInv, Shapes
  <2>3. o' = o - 1 /\ s' = s
    BY <1>11, <2>2, Tallies DEF Waits
  <2>4. q' \in Nat /\ q' <= q + 1
    <3>1. Outstanding \ {KeyOf(r)} = Outstanding' \ {KeyOf(r)}
      BY <2>1 DEF Outstanding, Marking
    <3>2. IsFiniteSet(Outstanding)
      BY Amounts
    <3> QED
      BY <3>1, <3>2, OneMoves
  <2> QED
    BY <1>1, <1>2, <2>1, <2>3, <2>4 DEF Counts
<1>12. ASSUME NEW r \in Request, Stops(r) \/ RequestDies(r) PROVE Counts'
  <2>1. /\ requests' = requests /\ clock' = clock /\ UNCHANGED <<images, known, begun, executing, step>>
        /\ pc'[r] = "idle"
    BY <1>2, <1>12 DEF Stops, RequestDies, Goto, others, gallery, queue
  <2>2. ~Owes(r)' /\ r \notin Storing'
    BY <2>1 DEF Owes, Storing, At
  <2>3. o' <= o /\ o' \in Nat /\ s' <= s /\ s' \in Nat /\ q' = q
    BY <1>1, <1>3, <1>12, <2>1, <2>2, Tallies DEF Waits
  <2> HIDE DEF o, q, s, n
  <2> QED
    BY <1>1, <1>2, <2>1, <2>3 DEF Counts, o, q, s, n
\* The execution that moves.
<1>e. ASSUME NEW e \in Execution, Executes(e) \/ ExecutionDies(e)
      PROVE  UNCHANGED <<images, requests, known, pc, hand>> /\ o' = o /\ s' = s
  BY <1>5, <1>e, ExecutionsLeave DEF gallery, local
<1>13. ASSUME NEW e \in Execution, NEW j \in QueueJob, Begin(e, j) PROVE Counts'
  <2>1. /\ executing[e] = NoKey /\ executing' = [executing EXCEPT ![e] = j] /\ step' = [step EXCEPT ![e] = "reading"]
        /\ begun' = begun \cup {j} /\ j \in known /\ j \notin begun /\ clock' = clock
    BY <1>13 DEF Begin, Queue!Begin, StepTo, TypeInv, TypeOK
  <2>2. Outstanding' = Outstanding
    <3>1. known' = known
      BY <1>e, <1>13 DEF Executes
    <3>2. /\ \A f \in Execution \ {e} : executing'[f] = executing[f] /\ step'[f] = step[f]
          /\ executing'[e] = j /\ step'[e] = "reading"
      BY <2>1 DEF TypeInv, TypeOK
    <3>3. \A k \in known \ {j} : k \in Outstanding' <=> k \in Outstanding
      BY <2>1, <3>1, <3>2, Numbers DEF Outstanding, Marking, TypeInv, TypeOK
    <3>4. j \in Outstanding /\ j \in Outstanding'
      BY <2>1, <3>1, <3>2 DEF Outstanding, Marking
    <3> QED
      BY <3>1, <3>3, <3>4 DEF Outstanding
  <2> QED
    BY <1>1, <1>2, <1>e, <1>13, <2>1, <2>2 DEF Counts, Executes
<1>14. ASSUME NEW e \in Execution, Reads(e) PROVE Counts'
  <2>1. /\ \E p \in {"indexing", "skipping"} : step' = [step EXCEPT ![e] = p]
        /\ step[e] = "reading" /\ UNCHANGED <<clock, known, begun, executing>>
    BY <1>14 DEF Reads, StepTo, queue
  <2>2. \A f \in Execution : Marking(f)' <=> Marking(f)
    BY <2>1 DEF Marking, TypeInv, TypeOK
  <2>3. Outstanding' = Outstanding
    BY <2>1, <2>2 DEF Outstanding
  <2> QED
    BY <1>1, <1>2, <1>e, <1>14, <2>1, <2>3 DEF Counts, Executes
<1>15. ASSUME NEW e \in Execution, Marks(e) \/ MarksMissing(e) PROVE Counts'
  <2>1. /\ clock' = clock + 1 /\ Marking(e) /\ step' = [step EXCEPT ![e] = "returned"]
        /\ UNCHANGED <<known, begun, executing>>
    BY <1>15, MarkedRow DEF queue
  <2>2. /\ \A f \in Execution \ {e} : Marking(f)' <=> Marking(f)
        /\ ~Marking(e)'
    BY <2>1 DEF Marking, TypeInv, TypeOK
  <2>3. executing[e] \in known /\ executing[e] \in begun /\ executing[e] # NoKey
    BY <2>1 DEF Marking, TypeInv, TypeOK, Shapes
  <2>4. executing[e] \in Outstanding
    BY <2>1, <2>3 DEF Outstanding
  <2>5. executing[e] \notin Outstanding'
    BY <2>1, <2>2, <2>3 DEF Outstanding, TypeInv, Shapes
  <2>6. Outstanding \ {executing[e]} = Outstanding' \ {executing[e]}
    BY <2>1, <2>2 DEF Outstanding
  <2>7. q' = q - 1
    BY <2>4, <2>5, <2>6, Amounts, OneMoves
  <2> QED
    BY <1>1, <1>2, <1>e, <1>15, <2>1, <2>7 DEF Counts, Executes
<1>16. ASSUME NEW e \in Execution, Returns(e) \/ ExecutionDies(e) PROVE Counts'
  <2>1. /\ executing' = [executing EXCEPT ![e] = NoKey] /\ step' = [step EXCEPT ![e] = "idle"]
        /\ begun' = begun /\ clock' = clock
    BY <1>16 DEF Returns, ExecutionDies, Queue!End, StepTo
  <2>2. known' = known /\ UNCHANGED <<images, requests, pc, hand>> /\ o' = o /\ s' = s
    BY <1>e, <1>16 DEF Executes
  <2>3. Outstanding' \in SUBSET Outstanding
    BY <2>1, <2>2, Numbers DEF Outstanding, Marking, TypeInv, TypeOK
  <2>4. q' \in Nat /\ q' <= q
    BY <2>3, Amounts, FS_Subset, FS_CardinalityType
  <2> HIDE DEF o, q, s, n
  <2> QED
    BY <1>1, <1>2, <2>1, <2>2, <2>4 DEF Counts, o, q, s, n
<1>17. CASE Restarts \/ UNCHANGED vars
  <2>1. UNCHANGED <<clock, images, requests, known, begun, executing, step, pc, hand>>
    BY <1>17 DEF Restarts, vars, gallery, queue, local
  <2> QED
    BY <1>1, <1>2, <1>3, <1>5, <2>1 DEF Counts
<1> HIDE DEF o, q, s, n
<1> QED
  BY <1>6, <1>7, <1>8, <1>9, <1>10, <1>11, <1>12, <1>13, <1>14, <1>15, <1>16, <1>17
  DEF Next, Handles, Takes, Executes, Uploading

LEMMA TypeInvStep == TypeInv /\ [Next]_vars => TypeInv'
BY KindsStep, CountsStep DEF TypeInv

\* Every reachable state is of the declared types; in particular the clock, the
\* keys of index jobs and the numbers of images stay in their ranges.
THEOREM TypeCorrect == Spec => []TypeOK
<1>1. TypeInv => TypeOK
  BY DEF TypeInv
<1> QED
  BY <1>1, TypeInvInit, TypeInvStep, PTL DEF Spec

-----------------------------------------------------------------------------
(* Decisions *)

\* What a decision makes of a product, and what is decided once an operation saves.
Says(d, p) ==
    /\ d = "created" => p.status = "draft" /\ p.review = "not_required"
    /\ d = "submitted" => p.status = "submitted" /\ p.review = "pending"
    /\ d = "approved" => p.status = "active" /\ p.review = "approved"
    /\ d = "rejected" => p.status = "rejected" /\ p.review = "rejected"
    /\ d = "archived" => p.status = "archived" /\ p.review = "not_required"

After(d, op) ==
    CASE op = "submit" -> "submitted" [] op \in {"approve", "batch"} -> "approved"
      [] op = "reject" -> "rejected" [] op = "archive" -> "archived"
      [] OTHER -> d

Carries(r) == At(r, "attaching") \/ At(r, "loaded") \/ At(r, "merging")

\* A request since whose load nobody has saved is going to save what its operation
\* decides, over the row it has loaded.
DecisionInv ==
    /\ TypeInv
    /\ \A r \in fresh : At(r, "merging") => hand[r].seen = row
    /\ ~stale => /\ Says(decision, row)
                 /\ \A r \in fresh : Carries(r) => Says(After(decision, hand[r].op), hand[r].as)

LEMMA DecisionInit == Init => DecisionInv
<1> SUFFICES ASSUME Init PROVE DecisionInv
  OBVIOUS
<1>1. Says(decision, row)
  <2>1. CASE row = Draft /\ decision = "created"
    BY <2>1 DEF Says, Draft
  <2>2. CASE /\ row = [Draft EXCEPT !.status = "submitted", !.review = "pending",
                                    !.verdict = [result |-> "matched", image |-> 1]]
             /\ decision = "submitted"
    <3>1. row.status = "submitted" /\ row.review = "pending"
      BY <2>2, NothingInHand DEF Product
    <3> QED
      BY <2>2, <3>1 DEF Says
  <2> QED
    BY <2>1, <2>2 DEF Init
<1> QED
  BY <1>1, TypeInvInit DEF Init, DecisionInv

LEMMA CommitsWhat ==
    ASSUME DecisionInv, NEW r \in Request, Commits(r)
    PROVE  /\ At(r, "merging") /\ fresh' = {} /\ stale' = (stale \/ r \notin fresh)
           /\ decision' = After(decision, hand[r].op)
           /\ r \in fresh => row' = hand[r].as
           /\ pc'[r] \in {"idle", "enqueueing"} /\ (hand'[r].op = "none" \/ hand'[r].op = hand[r].op)
           /\ pc'[r] = "idle" => hand'[r].op = "none"
           /\ UNCHANGED <<gallery, overlap, faults>> /\ cached' = (cached \/ hand[r].op = "keyed_upload")
<1>1. /\ pc \in [Request -> Place] /\ hand \in [Request -> Hand] /\ row \in Product /\ hand[r] \in Hand
      /\ hand[r].as \in Product /\ hand[r].seen \in Product
  BY HandFields DEF DecisionInv, TypeInv, TypeOK
<1>2. At(r, "merging") /\ fresh' = {} /\ stale' = (stale \/ r \notin fresh) /\ UNCHANGED <<gallery, overlap, faults>>
      /\ cached' = (cached \/ hand[r].op = "keyed_upload")
      /\ row' = Written(row, hand[r].seen, hand[r].as) /\ decision' = Decided(hand[r].op)
  BY DEF Commits
<1>3. r \in fresh => row' = hand[r].as
  BY <1>1, <1>2, Mixes DEF DecisionInv
<1>4. /\ pc'[r] \in {"idle", "enqueueing"} /\ (hand'[r].op = "none" \/ hand'[r].op = hand[r].op)
      /\ pc'[r] = "idle" => hand'[r].op = "none"
  BY <1>1, NothingInHand DEF Commits, Goto, Hand
<1> QED
  BY <1>2, <1>3, <1>4 DEF Decided, After

LEMMA StoresWhat ==
    ASSUME TypeInv, NEW r \in Request, Stores(r)
    PROVE  /\ At(r, "storing") /\ pc'[r] = "attaching" /\ hand'[r].op = hand[r].op /\ hand[r].op \in Uploading
           /\ hand'[r].as.status = row.status /\ hand'[r].as.review = row.review
           /\ hand'[r].as.verdict = Unchecked /\ fresh' = fresh \cup {r}
           /\ UNCHANGED <<row, images, primary, late, keyed, cached, decision, stale, overlap, faults>>
<1>1. pc \in [Request -> Place] /\ hand \in [Request -> Hand] /\ row \in Product
  BY DEF TypeInv, TypeOK
<1>2. hand' = [hand EXCEPT ![r].as = [row EXCEPT !.verdict = Unchecked]] /\ pc' = [pc EXCEPT ![r] = "attaching"]
      /\ At(r, "storing") /\ fresh' = fresh \cup {r}
      /\ UNCHANGED <<row, images, primary, late, keyed, cached, decision, stale, overlap, faults>>
  BY DEF Stores, Goto, others, gallery
<1>3. hand'[r].op = hand[r].op /\ hand'[r].as = [row EXCEPT !.verdict = Unchecked]
  BY <1>1, <1>2 DEF Hand
<1>4. [row EXCEPT !.verdict = Unchecked].status = row.status /\ [row EXCEPT !.verdict = Unchecked].review = row.review
      /\ [row EXCEPT !.verdict = Unchecked].verdict = Unchecked
  BY <1>1 DEF Product
<1> QED
  BY <1>1, <1>2, <1>3, <1>4 DEF TypeInv, Shapes

LEMMA AttachesWhat ==
    ASSUME TypeInv, NEW r \in Request, NEW first \in BOOLEAN, Attaches(r, first)
    PROVE  /\ At(r, "attaching") /\ pc'[r] = "loaded" /\ hand'[r].op = hand[r].op /\ hand[r].op \in Uploading
           /\ hand'[r].as.status = hand[r].as.status /\ hand'[r].as.review = hand[r].as.review
           /\ hand'[r].as.verdict = hand[r].as.verdict
           /\ late' = (late \/ Public \/ \E s \in Request : At(s, "analyzing"))
           /\ keyed' = IF hand[r].op = "keyed_upload" THEN keyed + 1 ELSE keyed
           /\ UNCHANGED <<row, fresh, stale, cached, decision, overlap, faults>>
<1>1. pc \in [Request -> Place] /\ hand \in [Request -> Hand] /\ hand[r] \in Hand /\ hand[r].as \in Product
  BY HandFields DEF TypeInv, TypeOK
<1>2. /\ hand' = [hand EXCEPT ![r].as.updated = Now] /\ pc' = [pc EXCEPT ![r] = "loaded"]
      /\ At(r, "attaching")
      /\ late' = (late \/ Public \/ \E s \in Request : At(s, "analyzing"))
      /\ keyed' = IF hand[r].op = "keyed_upload" THEN keyed + 1 ELSE keyed
      /\ UNCHANGED <<row, fresh, stale, cached, decision, overlap, faults>>
  BY DEF Attaches, Goto, seenBy
<1>3. hand'[r].op = hand[r].op /\ hand'[r].as = [hand[r].as EXCEPT !.updated = Now]
  BY <1>1, <1>2 DEF Hand
<1>4. hand'[r].as.status = hand[r].as.status /\ hand'[r].as.review = hand[r].as.review
      /\ hand'[r].as.verdict = hand[r].as.verdict
  BY <1>1, <1>3 DEF Product
<1> QED
  BY <1>1, <1>2, <1>3, <1>4 DEF TypeInv, Shapes

LEMMA MergesWhat ==
    ASSUME TypeInv, NEW r \in Request, Merges(r)
    PROVE  /\ At(r, "loaded") /\ pc'[r] = "merging" /\ hand'[r].op = hand[r].op
           /\ hand'[r].as = hand[r].as /\ hand'[r].seen = row
           /\ UNCHANGED <<row, images, primary, late, keyed, cached, fresh, stale, decision, overlap, faults>>
BY DEF TypeInv, TypeOK, Hand, Merges, Goto, others, gallery, seenBy

\* The steps of a request that carries no product before or after them.
Idles(r) ==
    \/ \E op \in Uploading : Uploads(r, op)
    \/ Validates(r) \/ Lists(r) \/ Enqueues(r) \/ Stops(r) \/ RequestDies(r)

LEMMA IdlesWhat ==
    ASSUME TypeInv, NEW r \in Request, Idles(r)
    PROVE  /\ ~Carries(r)' /\ fresh' \subseteq fresh
           /\ UNCHANGED <<row, images, primary, late, keyed, cached, stale, decision>>
           /\ faults' = 0 => faults = 0
           /\ faults' # faults \/ ~Carries(r)
           /\ \/ At(r, "idle") /\ ~At(r, "idle")' /\ faults' = faults
              \/ At(r, "idle")' /\ hand'[r].op = "none" /\ overlap' = overlap
<1>1. pc \in [Request -> Place] /\ hand \in [Request -> Hand] /\ faults \in Nat
  BY Numbers DEF TypeInv, TypeOK
<1>2. CASE (\E op \in Uploading : Uploads(r, op)) \/ Validates(r) \/ Lists(r)
  BY <1>1, <1>2 DEF Uploads, Validates, Lists, Arrives, Goto, At, others, gallery, Carries
<1>3. CASE Enqueues(r) \/ Stops(r) \/ RequestDies(r)
  BY <1>1, <1>3, NothingInHand DEF Enqueues, Stops, RequestDies, Goto, At, others, gallery, seenBy, Carries
<1> QED
  BY <1>2, <1>3 DEF Idles

\* Every step of a request is one of these.
LEMMA RequestSteps ==
    ASSUME TypeInv, [Next]_vars
    PROVE  \/ \E r \in Request :
                \/ Takes(r) \/ Idles(r) \/ Stores(r) \/ Merges(r) \/ Commits(r)
                \/ \E first \in BOOLEAN : Attaches(r, first)
           \/ Restarts
           \/ \E e \in Execution : Marks(e) \/ MarksMissing(e)
           \/ UNCHANGED <<row, gallery, cached, local, decision, seenBy, overlap>> /\ (faults' = 0 => faults = 0)
<1>0. faults \in Nat
  BY Numbers DEF TypeInv, TypeOK
<1>1. ASSUME NEW e \in Execution, Reads(e) \/ Returns(e) \/ ExecutionDies(e) \/ \E q \in QueueJob : Begin(e, q)
      PROVE  UNCHANGED <<row, gallery, cached, local, decision, seenBy, overlap>> /\ (faults' = 0 => faults = 0)
  BY <1>0, <1>1 DEF Reads, Returns, ExecutionDies, Begin, indexer, seenBy
<1> QED
  BY <1>1 DEF Next, Handles, Executes, Takes, Idles, Uploading, vars

LEMMA DecisionStep == DecisionInv /\ [Next]_vars => DecisionInv'
<1> SUFFICES ASSUME DecisionInv, [Next]_vars PROVE DecisionInv'
  OBVIOUS
<1>t. TypeInv /\ TypeInv' /\ fresh \subseteq Request
  BY TypeInvStep DEF DecisionInv, TypeInv, TypeOK
<1>o. /\ \A r \in fresh : At(r, "merging") => hand[r].seen = row
      /\ ~stale => /\ Says(decision, row)
                   /\ \A r \in fresh : Carries(r) => Says(After(decision, hand[r].op), hand[r].as)
  BY DEF DecisionInv
\* The row keeps what it says, and at most one request changes what it carries.
<1>1. ASSUME NEW r \in Request, \A s \in Request \ {r} : pc'[s] = pc[s] /\ hand'[s] = hand[s],
             UNCHANGED <<row, decision, stale>>, fresh' \subseteq fresh \cup {r},
             r \in fresh' => /\ At(r, "merging")' => hand'[r].seen = row
                             /\ ~stale /\ Carries(r)' => Says(After(decision, hand'[r].op), hand'[r].as)
      PROVE  DecisionInv'
  <2>1. \A s \in fresh' : At(s, "merging")' => hand'[s].seen = row'
    BY <1>1, <1>o, <1>t DEF At
  <2>2. ~stale' => /\ Says(decision', row')
                   /\ \A s \in fresh' : Carries(s)' => Says(After(decision', hand'[s].op), hand'[s].as)
    BY <1>1, <1>o, <1>t DEF Carries, At
  <2> QED
    BY <1>t, <2>1, <2>2 DEF DecisionInv, Says, After
<1>2. ASSUME NEW r \in Request, Takes(r) PROVE DecisionInv'
  <2>1. UNCHANGED <<row, decision, stale>> /\ fresh' = fresh \cup {r} /\ ~At(r, "merging")'
    BY <1>2, <1>t, TakesAll DEF others, At, TypeInv, TypeOK
  <2>2. ASSUME ~stale PROVE Says(After(decision, hand'[r].op), hand'[r].as)
    <3>1. Says(decision, row)
      BY <1>o, <2>2
    <3> QED
      BY <1>2, <1>t, <3>1, TakesAll DEF Says, After, Public
  <2> QED
    BY <1>1, <1>2, <1>t, <2>1, <2>2, Others
<1>3. ASSUME NEW r \in Request, Idles(r) PROVE DecisionInv'
  <2>1. Waits(r)
    BY <1>3 DEF Idles, Waits
  <2> QED
    BY <1>1, <1>3, <1>t, <2>1, IdlesWhat, Others DEF Carries, At
<1>4. ASSUME NEW r \in Request, Stores(r) PROVE DecisionInv'
  <2>1. /\ UNCHANGED <<row, decision, stale>> /\ fresh' = fresh \cup {r} /\ ~At(r, "merging")'
        /\ hand'[r].op \in Uploading /\ hand'[r].as.status = row.status /\ hand'[r].as.review = row.review
    BY <1>4, <1>t, StoresWhat DEF At
  <2>2. ~stale => Says(After(decision, hand'[r].op), hand'[r].as)
    BY <1>o, <2>1 DEF Says, After, Uploading
  <2> QED
    BY <1>1, <1>4, <1>t, <2>1, <2>2, Others DEF Waits
<1>5. ASSUME NEW r \in Request, NEW first \in BOOLEAN, Attaches(r, first) PROVE DecisionInv'
  <2>1. /\ UNCHANGED <<row, decision, stale, fresh>> /\ At(r, "attaching") /\ ~At(r, "merging")'
        /\ hand'[r].op = hand[r].op
        /\ hand'[r].as.status = hand[r].as.status /\ hand'[r].as.review = hand[r].as.review
    BY <1>5, <1>t, AttachesWhat DEF At
  <2>2. ~stale /\ r \in fresh => Says(After(decision, hand'[r].op), hand'[r].as)
    BY <1>o, <2>1 DEF Says, Carries
  <2> QED
    BY <1>1, <1>5, <1>t, <2>1, <2>2, Others DEF Waits
<1>6. ASSUME NEW r \in Request, Merges(r) PROVE DecisionInv'
  BY <1>1, <1>6, <1>t, <1>o, MergesWhat, Others DEF Waits, Carries
<1>7. ASSUME NEW r \in Request, Commits(r) PROVE DecisionInv'
  <2>1. /\ At(r, "merging") /\ fresh' = {} /\ stale' = (stale \/ r \notin fresh)
        /\ decision' = After(decision, hand[r].op) /\ (r \in fresh => row' = hand[r].as)
    BY <1>7, CommitsWhat
  <2>2. ~stale' => Says(decision', row')
    BY <1>o, <2>1 DEF Carries
  <2> QED
    BY <1>t, <2>1, <2>2 DEF DecisionInv, Says
<1>8. ASSUME NEW e \in Execution, Marks(e) \/ MarksMissing(e) PROVE DecisionInv'
  <2>1. fresh' = {} /\ row'.status = row.status /\ row'.review = row.review
    BY <1>8, <1>t, MarkedRow
  <2>2. decision' = decision /\ stale' = stale
    BY <1>8, ExecutionsLeave DEF Executes
  <2> QED
    BY <1>t, <1>o, <2>1, <2>2 DEF DecisionInv, Says
<1>9. CASE Restarts \/ UNCHANGED <<row, gallery, cached, local, decision, seenBy, overlap>>
  <2>1. UNCHANGED <<row, pc, hand, decision, fresh, stale>>
    BY <1>9 DEF Restarts, local, seenBy
  <2> QED
    BY <1>t, <1>o, <2>1 DEF DecisionInv, Says, After, Carries, At
<1> QED
  BY <1>t, <1>2, <1>3, <1>4, <1>5, <1>6, <1>7, <1>8, <1>9, RequestSteps

\* What was decided about a product is what it says, as long as nobody saves over
\* what he has not seen.
THEOREM DecisionsStand == Spec => []DecisionStands
<1>1. DecisionInv => DecisionStands
  BY DEF DecisionInv, DecisionStands, Says, Public, TypeInv, TypeOK
<1> QED
  BY <1>1, DecisionInit, DecisionStep, PTL DEF Spec

-----------------------------------------------------------------------------
(* Verdicts *)

Judged(p) == p.verdict.result # "not_checked"
Shown(p) == p.status = "active" /\ p.review = "approved"
Clean == ~stale /\ ~late /\ faults = 0

\* A verdict is about the primary image, or an upload whose image is attached is
\* going to take it back.
Depicts(p) == Judged(p) => p.verdict.image = primary \/ \E s \in Request : Attached(s)

\* A request since whose load nobody has saved saves nothing worse.
Fits(r) ==
    /\ At(r, "attaching") => ~Judged(hand[r].as) /\ (Shown(hand[r].as) => Shown(row))
    /\ At(r, "loaded") \/ At(r, "merging") =>
          /\ Depicts(hand[r].as)
          /\ Shown(hand[r].as) => Judged(hand[r].as)
          /\ hand[r].op \in Uploading => ~Judged(hand[r].as)

JudgedInv ==
    /\ DecisionInv
    /\ Clean =>
          /\ Depicts(row) /\ (Shown(row) => Judged(row))
          /\ \A r \in Request : At(r, "analyzing") => hand[r].image = primary
          /\ \A r \in fresh : Fits(r)

LEMMA JudgedInit == Init => JudgedInv
<1> SUFFICES ASSUME Init PROVE JudgedInv
  OBVIOUS
<1>1. Depicts(row) /\ ~Shown(row)
  <2>1. CASE row = Draft
    BY <2>1 DEF Depicts, Judged, Shown, Draft, Unchecked
  <2>2. CASE /\ row = [Draft EXCEPT !.status = "submitted", !.review = "pending",
                                    !.verdict = [result |-> "matched", image |-> 1]]
             /\ images = 1
    <3>1. row.status = "submitted" /\ row.verdict.image = 1 /\ primary = 1
      BY <2>2, NothingInHand DEF Product, Init
    <3> QED
      BY <3>1 DEF Depicts, Shown
  <2> QED
    BY <2>1, <2>2 DEF Init
<1> QED
  BY <1>1, DecisionInit DEF Init, JudgedInv, At

\* No step makes the history clean again.
LEMMA CleanBefore ==
    ASSUME TypeInv, [Next]_vars, Clean'
    PROVE  Clean
<1>0. faults \in Nat
  BY Numbers DEF TypeInv, TypeOK
<1>1. ASSUME NEW r \in Request, Takes(r) PROVE Clean
  BY <1>1, TakesAll DEF Clean, others, gallery
<1>2. ASSUME NEW r \in Request, Idles(r) PROVE Clean
  BY <1>2, IdlesWhat DEF Clean
<1>3. ASSUME NEW r \in Request, Stores(r) \/ Merges(r) \/ \E first \in BOOLEAN : Attaches(r, first) PROVE Clean
  BY <1>3, StoresWhat, MergesWhat, AttachesWhat DEF Clean
<1>4. ASSUME NEW r \in Request, Commits(r) PROVE Clean
  BY <1>4 DEF Commits, gallery, Clean
<1>5. ASSUME NEW e \in Execution, Marks(e) \/ MarksMissing(e) PROVE Clean
  BY <1>5, MarkedRow, ExecutionsLeave DEF Clean, Executes, gallery
<1>6. CASE Restarts \/ (UNCHANGED <<row, gallery, cached, local, decision, seenBy, overlap>> /\ (faults' = 0 => faults = 0))
  BY <1>0, <1>6 DEF Restarts, Clean, gallery, seenBy
<1> QED
  BY <1>1, <1>2, <1>3, <1>4, <1>5, <1>6, RequestSteps

LEMMA JudgedStep == JudgedInv /\ [Next]_vars => JudgedInv'
<1> SUFFICES ASSUME JudgedInv, [Next]_vars PROVE JudgedInv'
  OBVIOUS
<1>d. DecisionInv /\ DecisionInv' /\ TypeInv /\ fresh \subseteq Request
  BY DecisionStep DEF JudgedInv, DecisionInv, TypeInv, TypeOK
<1> SUFFICES ASSUME Clean'
             PROVE  /\ Depicts(row)' /\ (Shown(row') => Judged(row'))
                    /\ \A r \in Request : At(r, "analyzing")' => hand'[r].image = primary'
                    /\ \A r \in fresh' : Fits(r)'
  BY <1>d DEF JudgedInv
<1>c. Clean
  BY <1>d, CleanBefore
<1>o. /\ Depicts(row) /\ (Shown(row) => Judged(row))
      /\ \A r \in Request : At(r, "analyzing") => hand[r].image = primary
      /\ \A r \in fresh : Fits(r)
  BY <1>c DEF JudgedInv
<1> DEFINE Goal == /\ Depicts(row)' /\ (Shown(row') => Judged(row'))
                   /\ \A r \in Request : At(r, "analyzing")' => hand'[r].image = primary'
                   /\ \A r \in fresh' : Fits(r)'
\* The row and the primary image stay, and one request changes what it carries.
<1>1. ASSUME NEW r \in Request, \A s \in Request \ {r} : pc'[s] = pc[s] /\ hand'[s] = hand[s],
             UNCHANGED <<row, primary>>, fresh' \subseteq fresh \cup {r}, Attached(r) => Attached(r)',
             At(r, "analyzing")' => hand'[r].image = primary, r \in fresh' => Fits(r)'
      PROVE  Goal
  <2>1. \A s \in Request : Attached(s) => Attached(s)'
    BY <1>1 DEF Attached, At
  <2>2. Depicts(row)'
    BY <1>1, <1>o, <2>1 DEF Depicts, Judged
  <2>3. \A s \in Request : At(s, "analyzing")' => hand'[s].image = primary'
    BY <1>1, <1>o DEF At
  <2>4. ASSUME NEW s \in fresh', s # r PROVE Fits(s)'
    <3>1. Fits(s) /\ pc'[s] = pc[s] /\ hand'[s] = hand[s]
      BY <1>1, <1>d, <1>o, <2>4
    <3> QED
      BY <1>1, <2>1, <3>1 DEF Fits, Depicts, Judged, At
  <2> QED
    BY <1>1, <1>o, <2>2, <2>3, <2>4
<1>2. ASSUME NEW r \in Request, Takes(r) PROVE Goal
  <2>1. /\ UNCHANGED <<row, primary>> /\ fresh' = fresh \cup {r} /\ pc'[r] = "loaded"
        /\ pc[r] \in {"idle", "analyzing", "listed"}
    BY <1>2, <1>d, TakesAll DEF others, gallery, TypeInv, TypeOK
  <2>2. ~Attached(r) /\ \A s \in Request \ {r} : pc'[s] = pc[s] /\ hand'[s] = hand[s]
    BY <1>2, <1>d, <2>1, Others DEF Attached, At
  <2>3. \A s \in Request : Attached(s) => Attached(s)'
    BY <2>2 DEF Attached, At
  <2>4. /\ hand'[r].as.verdict = row.verdict \/ hand'[r].as.verdict.image = primary
        /\ Shown(hand'[r].as) => Judged(hand'[r].as)
        /\ hand'[r].op \notin Uploading
    <3>1. /\ At(r, "analyzing") => hand[r].image = primary
          /\ Shown(row) => Judged(row)
          /\ Shown(row) <=> Public
      BY <1>o DEF Shown, Public
    <3> QED
      BY <1>2, <1>d, <3>1, TakesAll DEF Shown, Judged, Uploading, At
  <2>5. Depicts(hand[r].as)'
    BY <1>o, <2>1, <2>3, <2>4 DEF Depicts, Judged
  <2>6. Fits(r)'
    BY <2>1, <2>4, <2>5 DEF Fits, At
  <2> QED
    BY <1>1, <2>1, <2>2, <2>6 DEF At
<1>3. ASSUME NEW r \in Request, Idles(r) PROVE Goal
  <2>1. Waits(r)
    BY <1>3 DEF Idles, Waits
  <2>2. /\ ~Carries(r)' /\ fresh' \subseteq fresh /\ UNCHANGED <<row, primary>>
        /\ faults' # faults \/ ~Carries(r)
    BY <1>3, <1>d, IdlesWhat
  <2>3. ~Attached(r)
    BY <1>c, <2>2 DEF Clean, Attached, Carries
  <2>4. Fits(r)'
    BY <2>2 DEF Fits, Carries
  <2>5. At(r, "analyzing")' => hand'[r].image = primary
    <3>1. pc \in [Request -> Place] /\ hand \in [Request -> Hand]
      BY <1>d DEF TypeInv, TypeOK
    <3> QED
      BY <1>3, <3>1 DEF Idles, Uploads, Validates, Lists, Enqueues, Stops, RequestDies, Goto, At, Hand
  <2> QED
    BY <1>1, <1>d, <2>1, <2>2, <2>3, <2>4, <2>5, Others
<1>4. ASSUME NEW r \in Request, Stores(r) PROVE Goal
  <2>1. /\ At(r, "storing") /\ pc'[r] = "attaching" /\ UNCHANGED <<row, primary>> /\ fresh' = fresh \cup {r}
        /\ hand'[r].as.status = row.status /\ hand'[r].as.review = row.review
        /\ hand'[r].as.verdict = Unchecked
    BY <1>4, <1>d, StoresWhat
  <2>2. Fits(r)'
    BY <2>1 DEF Fits, Judged, Shown, Unchecked, At
  <2> QED
    BY <1>1, <1>4, <1>d, <2>1, <2>2, Others DEF Waits, Attached, At
<1>5. ASSUME NEW r \in Request, Merges(r) PROVE Goal
  <2>1. /\ At(r, "loaded") /\ pc'[r] = "merging" /\ UNCHANGED <<row, primary, fresh>>
        /\ hand'[r].op = hand[r].op /\ hand'[r].as = hand[r].as
    BY <1>5, <1>d, MergesWhat
  <2>2. \A s \in Request \ {r} : pc'[s] = pc[s] /\ hand'[s] = hand[s]
    BY <1>5, <1>d, Others DEF Waits
  <2>3. \A s \in Request : Attached(s) => Attached(s)'
    BY <2>1, <2>2 DEF Attached, At
  <2>4. r \in fresh => Fits(r)'
    BY <1>o, <2>1, <2>3 DEF Fits, Depicts, At
  <2> QED
    BY <1>1, <2>1, <2>2, <2>3, <2>4 DEF At
<1>6. ASSUME NEW r \in Request, NEW first \in BOOLEAN, Attaches(r, first) PROVE Goal
  <2>1. /\ At(r, "attaching") /\ pc'[r] = "loaded" /\ hand'[r].op = hand[r].op /\ hand[r].op \in Uploading
        /\ hand'[r].as.status = hand[r].as.status /\ hand'[r].as.review = hand[r].as.review
        /\ hand'[r].as.verdict = hand[r].as.verdict
        /\ UNCHANGED <<row, fresh>>
        /\ late' = (late \/ Public \/ \E s \in Request : At(s, "analyzing"))
    BY <1>6, <1>d, AttachesWhat
  <2>2. \A s \in Request \ {r} : pc'[s] = pc[s] /\ hand'[s] = hand[s]
    BY <1>6, <1>d, Others DEF Waits
  <2>3. Attached(r)'
    BY <2>1 DEF Attached, Uploading, At
  <2>4. \A p : Judged(p) => p.verdict.image = primary' \/ \E s \in Request : Attached(s)'
    BY <2>3
  <2>5. ~Shown(row) /\ \A s \in Request : ~At(s, "analyzing")
    BY <2>1 DEF Clean, Shown, Public
  <2>6. \A s \in Request : ~At(s, "analyzing")'
    BY <2>1, <2>2, <2>5 DEF At
  <2>7. r \in fresh => Fits(r)'
    <3>1. r \in fresh => ~Judged(hand[r].as) /\ ~Shown(hand[r].as)
      BY <1>o, <2>1, <2>5 DEF Fits
    <3> QED
      BY <2>1, <2>4, <3>1 DEF Fits, Depicts, Judged, Shown, At
  <2>8. ASSUME NEW s \in fresh, s # r PROVE Fits(s)'
    <3>1. Fits(s) /\ pc'[s] = pc[s] /\ hand'[s] = hand[s]
      BY <1>d, <1>o, <2>2, <2>8
    <3> QED
      BY <2>1, <2>4, <3>1 DEF Fits, Depicts, At
  <2>9. Depicts(row)'
    BY <2>4 DEF Depicts
  <2> QED
    BY <2>1, <2>5, <2>6, <2>7, <2>8, <2>9
<1>7. ASSUME NEW r \in Request, Commits(r) PROVE Goal
  <2>1. /\ At(r, "merging") /\ fresh' = {} /\ stale' = (stale \/ r \notin fresh)
        /\ r \in fresh => row' = hand[r].as
        /\ pc'[r] \in {"idle", "enqueueing"} /\ primary' = primary
    BY <1>7, <1>d, CommitsWhat DEF gallery
  <2>2. \A s \in Request \ {r} : pc'[s] = pc[s] /\ hand'[s] = hand[s]
    BY <1>7, <1>d, Others DEF Waits
  <2>3. r \in fresh /\ row' = hand[r].as
    BY <2>1 DEF Clean
  <2>4. Fits(r)
    BY <1>o, <2>3
  <2>5. Depicts(row)'
    <3>1. ASSUME Judged(row') PROVE row'.verdict.image = primary' \/ \E s \in Request : Attached(s)'
      <4>1. ~Attached(r) /\ Depicts(hand[r].as)
        BY <2>1, <2>3, <2>4, <3>1 DEF Fits, Attached, Uploading
      <4>2. ASSUME NEW s \in Request, Attached(s) PROVE Attached(s)'
        BY <2>2, <4>1, <4>2 DEF Attached, At
      <4> QED
        BY <2>1, <2>3, <3>1, <4>1, <4>2 DEF Depicts
    <3> QED
      BY <3>1 DEF Depicts
  <2>6. Shown(row') => Judged(row')
    BY <2>1, <2>3, <2>4 DEF Fits
  <2>7. \A s \in Request : At(s, "analyzing")' => hand'[s].image = primary'
    BY <1>o, <2>1, <2>2 DEF At
  <2> QED
    BY <2>1, <2>5, <2>6, <2>7
<1>8. ASSUME NEW e \in Execution, Marks(e) \/ MarksMissing(e) PROVE Goal
  <2>1. fresh' = {} /\ row'.status = row.status /\ row'.review = row.review /\ row'.verdict = row.verdict
    BY <1>8, <1>d, MarkedRow
  <2>2. UNCHANGED <<primary, pc, hand>>
    BY <1>8, ExecutionsLeave DEF Executes, gallery, local
  <2> QED
    BY <1>o, <2>1, <2>2 DEF Depicts, Judged, Shown, Attached, At
<1>9. CASE Restarts \/ UNCHANGED <<row, gallery, cached, local, decision, seenBy, overlap>>
  <2>1. UNCHANGED <<row, primary, pc, hand, fresh>>
    BY <1>9 DEF Restarts, gallery, local, seenBy
  <2> QED
    BY <1>o, <2>1 DEF Fits, Depicts, Attached, At
<1> QED
  BY <1>d, <1>2, <1>3, <1>4, <1>5, <1>6, <1>7, <1>8, <1>9, RequestSteps

\* The public sees no image that nobody judged, unless images were attached to a
\* public product or while an agent looked at another, or an upload is not over.
THEOREM PublicJudged == Spec => []PublicIsJudged
<1>1. JudgedInv => PublicIsJudged
  BY DEF JudgedInv, PublicIsJudged, Clean, Depicts, Judged, Shown, Public
<1> QED
  BY <1>1, JudgedInit, JudgedStep, PTL DEF Spec

-----------------------------------------------------------------------------
(* Keys *)

Keyed(r) == hand[r].op = "keyed_upload"

\* One request at a time uploads with the key; it finds that no image was
\* attached with it and caches its result before it is over.
KeyInv ==
    /\ TypeInv
    /\ \A r \in Request : At(r, "idle") => hand[r].op = "none"
    /\ ~overlap /\ faults = 0 =>
          /\ \A r, s \in Request : Keyed(r) /\ Keyed(s) => r = s
          /\ \A r \in Request : Keyed(r) /\ (At(r, "storing") \/ At(r, "attaching")) => keyed = 0
          /\ keyed <= 1
          /\ keyed # 0 => cached \/ \E r \in Request : Keyed(r) /\ (At(r, "loaded") \/ At(r, "merging"))

LEMMA KeyInit == Init => KeyInv
<1> SUFFICES ASSUME Init PROVE KeyInv
  OBVIOUS
<1>1. \A r \in Request : hand[r].op = "none"
  BY NothingInHand DEF Init
<1> QED
  BY <1>1, TypeInvInit DEF Init, KeyInv, Keyed

LEMMA KeyStep == KeyInv /\ [Next]_vars => KeyInv'
<1> SUFFICES ASSUME KeyInv, [Next]_vars PROVE KeyInv'
  OBVIOUS
<1>t. TypeInv /\ TypeInv' /\ keyed \in Nat /\ faults \in Nat
  BY TypeInvStep, Amounts, Numbers DEF KeyInv, TypeInv, TypeOK
<1>i. \A r \in Request : At(r, "idle") => hand[r].op = "none"
  BY DEF KeyInv
<1>o. ~overlap /\ faults = 0 =>
          /\ \A r, s \in Request : Keyed(r) /\ Keyed(s) => r = s
          /\ \A r \in Request : Keyed(r) /\ (At(r, "storing") \/ At(r, "attaching")) => keyed = 0
          /\ keyed <= 1
          /\ keyed # 0 => cached \/ \E r \in Request : Keyed(r) /\ (At(r, "loaded") \/ At(r, "merging"))
  BY DEF KeyInv
\* A request goes on with its operation, or is over without having attached an image.
<1>1. ASSUME NEW r \in Request, \A s \in Request \ {r} : pc'[s] = pc[s] /\ hand'[s] = hand[s],
             keyed' = keyed, cached' = cached,
             ~overlap' /\ faults' = 0 => ~overlap /\ faults = 0,
             At(r, "idle")' => hand'[r].op = "none",
             ~overlap' /\ faults' = 0 =>
                /\ Keyed(r)' => Keyed(r)
                /\ Keyed(r)' /\ (At(r, "storing")' \/ At(r, "attaching")') => At(r, "storing") \/ At(r, "attaching")
                /\ Keyed(r) /\ (At(r, "loaded") \/ At(r, "merging")) => Keyed(r)' /\ (At(r, "loaded")' \/ At(r, "merging")')
      PROVE  KeyInv'
  <2>1. \A s \in Request : At(s, "idle")' => hand'[s].op = "none"
    BY <1>1, <1>i DEF At
  <2>2. ASSUME ~overlap', faults' = 0
        PROVE  /\ \A s \in Request : Keyed(s)' => Keyed(s)
               /\ \A s \in Request : Keyed(s)' /\ (At(s, "storing")' \/ At(s, "attaching")') =>
                     Keyed(s) /\ (At(s, "storing") \/ At(s, "attaching"))
               /\ \A s \in Request : Keyed(s) /\ (At(s, "loaded") \/ At(s, "merging")) =>
                     Keyed(s)' /\ (At(s, "loaded")' \/ At(s, "merging")')
    BY <1>1, <2>2 DEF Keyed, At
  <2> QED
    BY <1>t, <1>o, <1>1, <2>1, <2>2 DEF KeyInv
<1>2. ASSUME NEW r \in Request, Takes(r) PROVE KeyInv'
  <2>1. /\ pc'[r] = "loaded" /\ hand'[r].op \notin Uploading /\ pc[r] \in {"idle", "analyzing", "listed"}
        /\ UNCHANGED <<keyed, cached, overlap, faults>>
    BY <1>2, <1>t, TakesAll DEF others, gallery, Uploading, TypeInv, TypeOK
  <2> QED
    BY <1>1, <1>2, <1>t, <2>1, Others DEF Keyed, At, Uploading
<1>3. ASSUME NEW r \in Request, Idles(r) PROVE KeyInv'
  <2>0. Waits(r)
    BY <1>3 DEF Idles, Waits
  <2>1. /\ ~Carries(r)' /\ keyed' = keyed /\ cached' = cached
        /\ faults' = 0 => faults = 0
        /\ faults' # faults \/ ~Carries(r)
    BY <1>3, <1>t, IdlesWhat
  <2>2. \A s \in Request \ {r} : pc'[s] = pc[s] /\ hand'[s] = hand[s]
    BY <1>t, <2>0, Others
  <2>3. CASE At(r, "idle")' /\ hand'[r].op = "none" /\ overlap' = overlap
    BY <1>1, <2>1, <2>2, <2>3 DEF Keyed, Carries
  <2>4. CASE At(r, "idle") /\ ~At(r, "idle")'
    <3>1. pc \in [Request -> Place] /\ hand \in [Request -> Hand] /\ hand[r].op = "none"
      BY <1>t, <1>i, <2>4 DEF TypeInv, TypeOK
    <3>2. CASE \E op \in Uploading : Uploads(r, op)
      <4>1. PICK op \in Uploading : Uploads(r, op)
        BY <3>2
      <4>2. /\ pc'[r] = "storing" /\ hand'[r].op = op /\ UNCHANGED <<keyed, cached, faults>>
            /\ op = "keyed_upload" => ~cached
            /\ overlap' = (overlap \/ (op = "keyed_upload" /\ \E s \in Request : hand[s].op = op))
        BY <3>1, <4>1 DEF Uploads, Goto, others, gallery, Hand
      <4>3. CASE op # "keyed_upload"
        BY <1>1, <2>2, <2>4, <3>1, <4>2, <4>3 DEF Keyed, At
      <4>4. CASE op = "keyed_upload"
        <5>1. \A s \in Request : At(s, "idle")' => hand'[s].op = "none"
          BY <1>i, <2>2, <4>2 DEF At
        <5>2. ASSUME ~overlap', faults' = 0
              PROVE  /\ \A s \in Request : ~Keyed(s)
                     /\ keyed = 0
          BY <1>o, <4>2, <4>4, <5>2 DEF Keyed
        <5>3. ASSUME ~overlap', faults' = 0
              PROVE  \A s \in Request : Keyed(s)' => s = r
          BY <2>2, <5>2, <5>3 DEF Keyed
        <5> QED
          BY <1>t, <4>2, <5>1, <5>2, <5>3 DEF KeyInv
      <4> QED
        BY <4>3, <4>4
    <3>3. CASE Validates(r) \/ Lists(r)
      <4>1. hand'[r].op # "keyed_upload" /\ UNCHANGED <<keyed, cached, faults, overlap>>
        BY <3>1, <3>3 DEF Validates, Lists, others, gallery, Hand
      <4> QED
        BY <1>1, <2>2, <2>4, <3>1, <4>1 DEF Keyed, At
    <3>4. CASE Enqueues(r) \/ Stops(r) \/ RequestDies(r)
      BY <2>4, <3>1, <3>4 DEF Enqueues, Stops, RequestDies, Goto, At
    <3> QED
      BY <1>3, <3>2, <3>3, <3>4 DEF Idles
  <2> QED
    BY <1>3, <1>t, <2>3, <2>4, IdlesWhat
<1>4. ASSUME NEW r \in Request, Stores(r) \/ Merges(r) PROVE KeyInv'
  <2>1. /\ hand'[r].op = hand[r].op /\ UNCHANGED <<keyed, cached, overlap, faults>>
        /\ \/ At(r, "storing") /\ pc'[r] = "attaching"
           \/ At(r, "loaded") /\ pc'[r] = "merging"
    BY <1>4, <1>t, StoresWhat, MergesWhat
  <2>2. \A s \in Request \ {r} : pc'[s] = pc[s] /\ hand'[s] = hand[s]
    BY <1>4, <1>t, Others DEF Waits
  <2> QED
    BY <1>1, <2>1, <2>2 DEF Keyed, At
<1>5. ASSUME NEW r \in Request, NEW first \in BOOLEAN, Attaches(r, first) PROVE KeyInv'
  <2>1. /\ At(r, "attaching") /\ pc'[r] = "loaded" /\ hand'[r].op = hand[r].op
        /\ keyed' = IF hand[r].op = "keyed_upload" THEN keyed + 1 ELSE keyed
        /\ UNCHANGED <<cached, overlap, faults>>
    BY <1>5, <1>t, AttachesWhat
  <2>2. \A s \in Request \ {r} : pc'[s] = pc[s] /\ hand'[s] = hand[s]
    BY <1>5, <1>t, Others DEF Waits
  <2>3. CASE ~Keyed(r)
    BY <1>1, <2>1, <2>2, <2>3 DEF Keyed, At
  <2>4. CASE Keyed(r)
    <3>1. \A s \in Request : At(s, "idle")' => hand'[s].op = "none"
      BY <1>i, <2>1, <2>2 DEF At
    <3>2. Keyed(r)' /\ At(r, "loaded")'
      BY <2>1, <2>4 DEF Keyed, At
    <3>3. ASSUME ~overlap', faults' = 0
          PROVE  keyed' = 1 /\ \A s \in Request : Keyed(s)' => s = r
      <4>1. keyed = 0 /\ \A s \in Request : Keyed(s) => s = r
        BY <1>o, <2>1, <2>4, <3>3
      <4> QED
        BY <2>1, <2>2, <2>4, <4>1 DEF Keyed
    <3> QED
      BY <1>t, <3>1, <3>2, <3>3 DEF KeyInv, At
  <2> QED
    BY <2>3, <2>4
<1>6. ASSUME NEW r \in Request, Commits(r) PROVE KeyInv'
  <2>1. /\ At(r, "merging") /\ pc'[r] \in {"idle", "enqueueing"}
        /\ hand'[r].op = "none" \/ hand'[r].op = hand[r].op
        /\ pc'[r] = "idle" => hand'[r].op = "none"
        /\ cached' = (cached \/ hand[r].op = "keyed_upload")
        /\ UNCHANGED <<keyed, overlap, faults>>
    <3>1. hand \in [Request -> Hand] /\ pc \in [Request -> Place]
      BY <1>t DEF TypeInv, TypeOK
    <3> QED
      BY <1>6, <3>1, NothingInHand DEF Commits, Goto, gallery, Hand
  <2>2. \A s \in Request \ {r} : pc'[s] = pc[s] /\ hand'[s] = hand[s]
    BY <1>6, <1>t, Others DEF Waits
  <2>3. \A s \in Request : At(s, "idle")' => hand'[s].op = "none"
    BY <1>i, <2>1, <2>2 DEF At
  <2>4. /\ \A s \in Request : Keyed(s)' => Keyed(s)
        /\ \A s \in Request : At(s, "storing")' \/ At(s, "attaching")' => At(s, "storing") \/ At(s, "attaching")
        /\ \A s \in Request : Keyed(s) /\ (At(s, "loaded") \/ At(s, "merging")) =>
              cached' \/ (Keyed(s)' /\ (At(s, "loaded")' \/ At(s, "merging")'))
    BY <2>1, <2>2 DEF Keyed, At
  <2> QED
    BY <1>t, <1>o, <2>1, <2>3, <2>4 DEF KeyInv
<1>7. ASSUME NEW e \in Execution, Marks(e) \/ MarksMissing(e) PROVE KeyInv'
  <2>1. UNCHANGED <<gallery, cached, local, overlap, faults>>
    BY <1>7, <1>t, MarkedRow, ExecutionsLeave DEF Executes
  <2> QED
    BY <1>t, <1>i, <1>o, <2>1 DEF KeyInv, Keyed, At, gallery, local
<1>8. CASE Restarts
  <2>1. faults' # 0 /\ UNCHANGED <<pc, hand>>
    BY <1>8, <1>t DEF Restarts, local
  <2> QED
    BY <1>t, <1>i, <2>1 DEF KeyInv, At
<1>9. CASE UNCHANGED <<row, gallery, cached, local, decision, seenBy, overlap>> /\ (faults' = 0 => faults = 0)
  BY <1>t, <1>i, <1>o, <1>9 DEF KeyInv, Keyed, At, gallery, local
<1> QED
  BY <1>t, <1>2, <1>3, <1>4, <1>5, <1>6, <1>7, <1>8, <1>9, RequestSteps

\* The limit of the tier is exceeded by no more than the uploads that can pass the
\* check together, and an idempotency key attaches one image, unless uploads with
\* it overlap, one dies after it saved its image, or the cache is lost.
THEOREM UploadsAreGuarded == Spec => []UploadsGuarded
<1>1. KeyInv => UploadsGuarded
  <2> SUFFICES ASSUME KeyInv PROVE UploadsGuarded
    OBVIOUS
  <2>1. TypeInv /\ (~overlap /\ faults = 0 => keyed <= 1) /\ faults \in Nat
    BY Numbers DEF KeyInv, TypeInv, TypeOK
  <2>2. images + Cardinality(Storing) <= ImageLimit + Cardinality(Request) - 1
    BY <2>1 DEF TypeInv, Counts
  <2>3. images <= ImageLimit + Cardinality(Request) - 1
    BY <2>1, <2>2, Amounts, Numbers
  <2> QED
    BY <2>1, <2>3 DEF UploadsGuarded
<1> QED
  BY <1>1, KeyInit, KeyStep, PTL DEF Spec

=============================================================================
