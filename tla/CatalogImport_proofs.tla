------------------------ MODULE CatalogImport_proofs ------------------------
(***************************************************************************)
(* Theorems about CatalogImport for every set of requests, every set of    *)
(* files, every row limits and any number of faults.                       *)
(***************************************************************************)
EXTENDS CatalogImport, FiniteSetTheorems, WellFoundedInduction, TLAPS

-----------------------------------------------------------------------------
(* Files, rows and records *)

File == Files \cup {<<k>> : k \in RowKind} \cup {<<>>}
Operation == {"none", "profile", "tier", "create", "import"}
Place == {"new", "inserting", "loaded", "merging", "admitting", "product", "offer", "job",
          "errors", "failing", "answering"} \cup Ended
Hand == [op : Operation, file : File, keyed : BOOLEAN, left : SUBSET Nat, as : Merchant, seen : Merchant]

\* The rows of a file are numbered; as many as there are, they can be counted.
LEMMA Rows ==
    ASSUME NEW file \in File
    PROVE  /\ Len(file) \in Nat /\ DOMAIN file = 1..Len(file) /\ DOMAIN file \subseteq Nat
           /\ IsFiniteSet(DOMAIN file) /\ \A n \in DOMAIN file : file[n] \in RowKind
<1>1. file \in Seq(RowKind)
  <2>1. \A k \in RowKind : <<k>> \in Seq(RowKind)
    OBVIOUS
  <2>2. <<>> \in Seq(RowKind)
    OBVIOUS
  <2> QED
    BY <2>1, <2>2, ImportAssumption, Zenon DEF File
<1>2. Len(file) \in Nat /\ DOMAIN file = 1..Len(file)
  BY <1>1
<1>4. \A n \in 1..Len(file) : file[n] \in RowKind
  BY <1>1
<1>3. IsFiniteSet(1..Len(file))
  <2>1. 1 \in Int /\ Len(file) \in Int
    BY <1>2
  <2> QED
    BY <2>1, FS_Interval
<1> QED
  BY <1>2, <1>3, <1>4

\* The rows that are left have a first one.
LEMMA MinIsIn ==
    ASSUME NEW S, S \subseteq Nat, S # {}
    PROVE  Min(S) \in S
<1>1. PICK m \in S : \A k \in S : ~ (<<k, m>> \in OpToRel(<, Nat))
  BY NatLessThanWellFounded, WFMin, Zenon
<1>2. \A k \in S : ~ (k < m)
  BY <1>1, Zenon DEF OpToRel
<1>3. \A k \in S : m <= k
  BY <1>2
<1> QED
  BY <1>3 DEF Min

LEMMA MerchantFields ==
    /\ NoMerchant \in Merchant /\ NoHand \in Hand
    /\ NoMerchant.tier = "standard" /\ NoMerchant.by = Nobody /\ NoMerchant.profile = Nobody
    /\ NoHand.op = "none" /\ NoHand.file = <<>> /\ NoHand.keyed = FALSE /\ NoHand.left = {}
    /\ NoHand.as = NoMerchant /\ NoHand.seen = NoMerchant
    /\ \A m \in Merchant : m.tier \in Tier /\ m.by \in Request \cup {Nobody} /\ m.profile \in Request \cup {Nobody}
<1>1. NoMerchant \in Merchant
  BY DEF NoMerchant, Merchant, Tier
<1>2. NoHand \in Hand
  BY <1>1 DEF NoHand, Hand, Operation, File
<1> QED
  BY <1>1, <1>2 DEF NoMerchant, NoHand, Merchant

LEMMA HandFields ==
    ASSUME NEW h \in Hand
    PROVE  /\ h.op \in Operation /\ h.file \in File /\ h.keyed \in BOOLEAN /\ h.left \in SUBSET Nat
           /\ h.as \in Merchant /\ h.seen \in Merchant
BY DEF Hand

\* A commit mixes the columns of two rows, and takes one if the other was read.
LEMMA Mixes ==
    ASSUME NEW current \in Merchant, NEW old \in Merchant, NEW new \in Merchant
    PROVE  /\ Written(current, old, new) \in Merchant
           /\ Written(current, old, new).tier \in {current.tier, new.tier}
           /\ Written(current, old, new).known \in {current.known, new.known}
           /\ current = old => Written(current, old, new) = new
<1> DEFINE w == Written(current, old, new)
<1>1. DOMAIN current = {"known", "profile", "tier", "by"}
  BY DEF Merchant
<1>2. w = [c \in {"known", "profile", "tier", "by"} |-> IF new[c] = old[c] THEN current[c] ELSE new[c]]
  BY <1>1 DEF Written
<1>3. \A c \in {"known", "profile", "tier", "by"} : w[c] \in {current[c], new[c]}
  BY <1>2
<1>4. w \in Merchant
  BY <1>2, <1>3 DEF Merchant
<1>5. ASSUME current = old PROVE w = new
  <2>1. \A c \in {"known", "profile", "tier", "by"} : w[c] = new[c]
    BY <1>2, <1>5
  <2> QED
    BY <1>4, <2>1 DEF Merchant
<1> QED
  BY <1>3, <1>4, <1>5

LEMMA ResultIs ==
    ASSUME NEW file \in File
    PROVE  /\ Result(file) \in Job /\ Result(file).status # "none"
           /\ Result(file).accepted = Cardinality(Accepted(file))
<1>1. /\ IsFiniteSet(Accepted(file)) /\ IsFiniteSet({n \in DOMAIN file : file[n] \in {"bad", "worse"}})
      /\ IsFiniteSet({n \in DOMAIN file : file[n] = "worse"})
  BY Rows, FS_Subset DEF Accepted
<1>2. Cardinality(Accepted(file)) \in Nat /\ Errors(file) \in Nat
  BY <1>1, FS_CardinalityType DEF Errors
<1> QED
  BY <1>2 DEF Result, Job

-----------------------------------------------------------------------------
(* Type correctness *)

Selling == {"inserting", "loaded", "merging"}
Telling == {"errors", "failing", "answering"}

\* Where a request is tells what it was asked and how far it is.
Shape(r) ==
    /\ At(r, "new") => hand[r] = NoHand
    /\ hand[r].keyed => hand[r].op = "import"
    /\ pc[r] \in Selling => hand[r].op \in {"profile", "tier"} /\ hand[r].as.known
    /\ pc[r] \in {"loaded", "merging"} => merchant.known
    /\ pc[r] \in {"admitting", "job"} \cup Telling => hand[r].op = "import"
    /\ pc[r] \in {"product", "offer"} => hand[r].op \in {"create", "import"} /\ hand[r].left # {}
    /\ pc[r] = "offer" => <<r, Min(hand[r].left)>> \in products
    /\ pc[r] \in Telling => jobs[r].status # "none"

TypeInv == TypeOK /\ hand \in [Request -> Hand] /\ \A r \in Request : Shape(r)

\* A request that sells, and one that fills the catalog.
Sells(r) ==
    \/ SavesProfile(r) \/ \E tier \in Tier : AssignsTier(r, tier)
    \/ Inserts(r) \/ Merges(r) \/ Commits(r)

Fills(r) ==
    \/ \E kind \in {"good", "dear"} : Creates(r, kind)
    \/ \E file \in Files, keyed \in BOOLEAN : Imports(r, file, keyed)
    \/ Admits(r) \/ SavesProduct(r) \/ SavesOffer(r)
    \/ SavesJob(r) \/ SavesErrors(r) \/ ErrorsRefused(r) \/ MarksFailed(r) \/ Answers(r)

LEMMA Types ==
    ASSUME TypeInv
    PROVE  /\ merchant \in Merchant /\ pc \in [Request -> Place] /\ hand \in [Request -> Hand]
           /\ jobs \in [Request -> Job] /\ fresh \subseteq Request /\ faults \in Nat /\ MaxFaults \in Nat
           /\ merchant.known \/ merchant = NoMerchant
           /\ offers \subseteq products
           /\ \A r \in Request : hand[r].left \subseteq RowsOf(r) /\ hand[r] \in Hand /\ Shape(r)
BY ImportAssumption DEF TypeInv, TypeOK, Place

\* How a request goes on that saves a merchant.
Loaded(r) ==
    /\ At(r, "new") /\ pc'[r] \in {"loaded", "inserting"}
    /\ pc'[r] = "loaded" => merchant.known
    /\ hand'[r].as.known
    /\ \/ /\ hand'[r].op = "profile" /\ hand'[r].as.profile = r
          /\ hand'[r].as.tier = "standard" /\ hand'[r].as.by = Nobody
       \/ hand'[r].op = "tier" /\ hand'[r].as.profile = merchant.profile /\ hand'[r].as.by = r
    /\ fresh' = fresh \cup {r} /\ UNCHANGED <<merchant, profile, assigned, stale, mixed>>

Compared(r) ==
    /\ At(r, "loaded") /\ pc'[r] = "merging"
    /\ hand'[r].op = hand[r].op /\ hand'[r].as = hand[r].as /\ hand'[r].seen = merchant
    /\ UNCHANGED <<merchant, seenBy>>

Refused(r) ==
    /\ At(r, "inserting") /\ pc'[r] = "raised" /\ hand'[r] = hand[r]
    /\ UNCHANGED <<merchant, seenBy>>

Stored(r) ==
    /\ At(r, "inserting") \/ At(r, "merging")
    /\ pc'[r] = "done"
    /\ hand'[r].op = hand[r].op /\ hand'[r].as = hand[r].as
    /\ SavedBy(r) /\ hand[r].as \in Merchant /\ merchant' \in Merchant
    /\ At(r, "inserting") => merchant' = hand[r].as /\ mixed' = mixed
    /\ At(r, "merging") => /\ merchant' = Written(merchant, hand[r].seen, hand[r].as)
                           /\ mixed' = (mixed \/ hand[r].seen # merchant)

LEMMA SellsWhat ==
    ASSUME TypeInv, NEW r \in Request, Sells(r)
    PROVE  /\ UNCHANGED imports
           /\ pc' = [pc EXCEPT ![r] = pc'[r]]
           /\ hand' = [hand EXCEPT ![r] = hand'[r]] /\ hand'[r] \in Hand
           /\ hand'[r].file = hand[r].file /\ hand'[r].keyed = hand[r].keyed /\ hand'[r].left = hand[r].left
           /\ Loaded(r) \/ Compared(r) \/ Refused(r) \/ Stored(r)
<1>1. /\ merchant \in Merchant /\ pc \in [Request -> Place] /\ hand \in [Request -> Hand]
      /\ hand[r] \in Hand /\ hand[r].as \in Merchant /\ hand[r].seen \in Merchant
  BY Types, HandFields
<1>2. CASE SavesProfile(r)
  <2> DEFINE as == [NoMerchant EXCEPT !.known = TRUE, !.profile = r]
             h == [hand[r] EXCEPT !.op = "profile", !.as = as]
  <2>1. /\ as \in Merchant /\ as.known /\ as.profile = r /\ as.tier = "standard" /\ as.by = Nobody
    BY DEF NoMerchant, Merchant, Tier
  <2> HIDE DEF as
  <2>2. /\ h \in Hand /\ h.op = "profile" /\ h.as = as /\ h.file = hand[r].file
        /\ h.keyed = hand[r].keyed /\ h.left = hand[r].left
    BY <1>1, <2>1 DEF Hand, Operation
  <2>3. /\ hand' = [hand EXCEPT ![r] = h] /\ At(r, "new") /\ fresh' = fresh \cup {r}
        /\ pc' = [pc EXCEPT ![r] = IF merchant.known THEN "loaded" ELSE "inserting"]
        /\ UNCHANGED <<merchant, imports, profile, assigned, stale, mixed>>
    BY <1>2 DEF SavesProfile, Goto, as
  <2> HIDE DEF h
  <2> QED
    BY <1>1, <2>1, <2>2, <2>3 DEF Loaded
<1>3. CASE \E tier \in Tier : AssignsTier(r, tier)
  <2>1. PICK tier \in Tier : AssignsTier(r, tier)
    BY <1>3
  <2> DEFINE as == [merchant EXCEPT !.tier = tier, !.by = r]
             h == [hand[r] EXCEPT !.op = "tier", !.as = as]
  <2>2. /\ as \in Merchant /\ as.known = merchant.known /\ as.profile = merchant.profile /\ as.by = r
    BY <1>1 DEF Merchant
  <2> HIDE DEF as
  <2>3. /\ h \in Hand /\ h.op = "tier" /\ h.as = as /\ h.file = hand[r].file
        /\ h.keyed = hand[r].keyed /\ h.left = hand[r].left
    BY <1>1, <2>2 DEF Hand, Operation
  <2>4. /\ hand' = [hand EXCEPT ![r] = h] /\ At(r, "new") /\ fresh' = fresh \cup {r} /\ merchant.known
        /\ pc' = [pc EXCEPT ![r] = "loaded"]
        /\ UNCHANGED <<merchant, imports, profile, assigned, stale, mixed>>
    BY <2>1 DEF AssignsTier, Goto, as
  <2> HIDE DEF h
  <2> QED
    BY <1>1, <2>2, <2>3, <2>4 DEF Loaded
<1>4. CASE Inserts(r)
  BY <1>1, <1>4 DEF Inserts, Goto, At, Refused, Stored
<1>5. CASE Merges(r)
  <2> DEFINE h == [hand[r] EXCEPT !.seen = merchant]
  <2>1. /\ h \in Hand /\ h.op = hand[r].op /\ h.as = hand[r].as /\ h.seen = merchant
        /\ h.file = hand[r].file /\ h.keyed = hand[r].keyed /\ h.left = hand[r].left
    BY <1>1 DEF Hand
  <2>2. /\ hand' = [hand EXCEPT ![r] = h] /\ At(r, "loaded") /\ pc' = [pc EXCEPT ![r] = "merging"]
        /\ UNCHANGED <<merchant, imports, seenBy>>
    BY <1>5 DEF Merges, Goto
  <2> HIDE DEF h
  <2> QED
    BY <1>1, <2>1, <2>2 DEF Compared
<1>6. CASE Commits(r)
  <2> DEFINE h == [hand[r] EXCEPT !.seen = NoMerchant]
  <2>1. /\ h \in Hand /\ h.op = hand[r].op /\ h.as = hand[r].as
        /\ h.file = hand[r].file /\ h.keyed = hand[r].keyed /\ h.left = hand[r].left
    BY <1>1, MerchantFields DEF Hand
  <2>2. /\ hand' = [hand EXCEPT ![r] = h] /\ At(r, "merging") /\ pc' = [pc EXCEPT ![r] = "done"]
        /\ merchant' = Written(merchant, hand[r].seen, hand[r].as)
        /\ mixed' = (mixed \/ hand[r].seen # merchant)
        /\ SavedBy(r) /\ UNCHANGED imports
    BY <1>6 DEF Commits, Goto
  <2>3. merchant' \in Merchant
    BY <1>1, <2>2, Mixes
  <2> HIDE DEF h
  <2> QED
    BY <1>1, <2>1, <2>2, <2>3 DEF At, Stored
<1> QED
  BY <1>2, <1>3, <1>4, <1>5, <1>6 DEF Sells

\* How a request fills the catalog, apart from the merchant, which it leaves alone.
Created(r) ==
    /\ At(r, "new") /\ pc'[r] = "product" /\ hand'[r].op = "create" /\ ~hand'[r].keyed
    /\ hand'[r].left # {}
    /\ UNCHANGED <<catalog, told, cached, overlap, lost, faults>>

Imported(r) ==
    /\ At(r, "new") /\ hand'[r].op = "import" /\ hand'[r].left = {}
    /\ \/ /\ pc'[r] = "done" /\ hand'[r].keyed /\ cached # Nobody
          /\ answer' = [answer EXCEPT ![r] = cached]
       \/ pc'[r] = "admitting" /\ answer' = answer /\ (hand'[r].keyed => cached = Nobody)
    /\ overlap' = (overlap \/ (hand'[r].keyed /\ \E s \in Request : Importing(s)))
    /\ UNCHANGED <<catalog, jobs, reported, cached, lost, faults>>

Keeps(r) == hand'[r].op = hand[r].op /\ hand'[r].file = hand[r].file /\ hand'[r].keyed = hand[r].keyed

Admitted(r) ==
    /\ At(r, "admitting") /\ Keeps(r)
    /\ \/ pc'[r] = "raised"
       \/ /\ pc'[r] = IF hand'[r].left = {} THEN "job" ELSE "product"
          /\ hand'[r].left = Accepted(hand[r].file)
          /\ Len(hand[r].file) <= RowLimit[merchant.tier]
    /\ UNCHANGED <<catalog, told, cached, overlap, lost, faults>>

Saved(r) ==
    /\ At(r, "product") /\ hand'[r] = hand[r]
    /\ \/ pc'[r] = "raised" /\ products' = products
       \/ pc'[r] = "offer" /\ products' = products \cup {<<r, Min(hand[r].left)>>}
    /\ UNCHANGED <<offers, told, cached, overlap, lost, faults>>

Offered(r) ==
    /\ At(r, "offer") /\ Keeps(r)
    /\ \/ pc'[r] = "raised" /\ UNCHANGED <<offers, hand>>
       \/ /\ hand'[r].left = hand[r].left \ {Min(hand[r].left)}
          /\ pc'[r] = IF hand'[r].left # {} THEN "product"
                      ELSE IF hand[r].op = "import" THEN "job" ELSE "done"
          /\ offers' = offers \cup {<<r, Min(hand[r].left)>>}
    /\ UNCHANGED <<products, told, cached, overlap, lost, faults>>

Tells(r) == SavesJob(r) \/ SavesErrors(r) \/ ErrorsRefused(r) \/ MarksFailed(r)

LEMMA FillsWhat ==
    ASSUME TypeInv, NEW r \in Request, Fills(r)
    PROVE  /\ UNCHANGED <<merchant, seenBy>>
           /\ pc' = [pc EXCEPT ![r] = pc'[r]] /\ pc'[r] \in Place
           /\ hand' = [hand EXCEPT ![r] = hand'[r]] /\ hand'[r] \in Hand
           /\ hand'[r].as = hand[r].as /\ hand'[r].left \subseteq DOMAIN hand'[r].file
           /\ Created(r) \/ Imported(r) \/ Admitted(r) \/ Saved(r) \/ Offered(r)
              \/ ((Tells(r) \/ Answers(r)) /\ hand'[r] = hand[r])
<1>1. /\ pc \in [Request -> Place] /\ hand \in [Request -> Hand] /\ hand[r] \in Hand
      /\ hand[r].left \subseteq DOMAIN hand[r].file /\ hand[r].file \in File
  BY Types, HandFields DEF RowsOf
<1>n. At(r, "new") => hand[r].left = {} /\ hand[r].keyed = FALSE
  BY Types, MerchantFields DEF Shape
<1>2. CASE \E kind \in {"good", "dear"} : Creates(r, kind)
  <2>1. PICK kind \in {"good", "dear"} : Creates(r, kind)
    BY <1>2
  <2> DEFINE h == [hand[r] EXCEPT !.op = "create", !.file = <<kind>>, !.left = {1}]
  <2>2. <<kind>> \in File /\ {1} \subseteq DOMAIN <<kind>> /\ {1} \subseteq Nat
    BY DEF File, RowKind
  <2>3. h \in Hand /\ h.op = "create" /\ h.file = <<kind>> /\ h.left = {1} /\ h.as = hand[r].as
        /\ h.keyed = hand[r].keyed
    BY <1>1, <2>2 DEF Hand, Operation
  <2>4. /\ hand' = [hand EXCEPT ![r] = h] /\ At(r, "new") /\ pc' = [pc EXCEPT ![r] = "product"]
        /\ UNCHANGED <<seller, catalog, told, cached, overlap, faults>>
    BY <2>1 DEF Creates, Goto
  <2> HIDE DEF h
  <2> QED
    BY <1>1, <1>n, <2>2, <2>3, <2>4 DEF seller, Place, Created, At
<1>3. CASE \E file \in Files, keyed \in BOOLEAN : Imports(r, file, keyed)
  <2>1. PICK file \in Files, keyed \in BOOLEAN : Imports(r, file, keyed)
    BY <1>3
  <2> DEFINE h == [hand[r] EXCEPT !.op = "import", !.file = file, !.keyed = keyed]
             hit == keyed /\ cached # Nobody
  <2>2. h \in Hand /\ h.op = "import" /\ h.file = file /\ h.left = hand[r].left /\ h.as = hand[r].as
        /\ h.keyed = keyed
    BY <1>1 DEF Hand, Operation, File
  <2>3. /\ hand' = [hand EXCEPT ![r] = h] /\ At(r, "new")
        /\ pc' = [pc EXCEPT ![r] = IF hit THEN "done" ELSE "admitting"]
        /\ answer' = IF hit THEN [answer EXCEPT ![r] = cached] ELSE answer
        /\ overlap' = (overlap \/ (keyed /\ \E s \in Request : Importing(s)))
        /\ UNCHANGED <<seller, catalog, jobs, reported, cached, faults>>
    BY <2>1 DEF Imports, Goto
  <2> HIDE DEF h
  <2>4. hand'[r] = h /\ pc'[r] = (IF hit THEN "done" ELSE "admitting") /\ hand[r].left = {}
    BY <1>1, <1>n, <2>3
  <2> QED
    BY <1>1, <2>2, <2>3, <2>4 DEF seller, Place, Ended, Imported
<1>4. CASE Admits(r)
  <2> DEFINE file == hand[r].file
             admitted == /\ merchant.known
                         /\ Len(file) <= RowLimit[merchant.tier]
                         /\ \A n \in DOMAIN file : file[n] # "broken"
             rows == IF admitted THEN Accepted(file) ELSE {}
             h == [hand[r] EXCEPT !.left = rows]
  <2>1. rows \subseteq DOMAIN file /\ rows \subseteq Nat
    BY <1>1, Rows DEF Accepted
  <2>2. /\ hand' = [hand EXCEPT ![r] = h] /\ At(r, "admitting")
        /\ pc' = [pc EXCEPT ![r] = IF ~admitted THEN "raised" ELSE IF rows = {} THEN "job" ELSE "product"]
        /\ UNCHANGED <<seller, catalog, told, cached, overlap, faults>>
    BY <1>4 DEF Admits, Goto
  <2>3. admitted => rows = Accepted(file) /\ Len(file) <= RowLimit[merchant.tier]
    OBVIOUS
  <2> HIDE DEF rows, admitted
  <2>4. h \in Hand /\ h.op = hand[r].op /\ h.file = file /\ h.left = rows /\ h.as = hand[r].as
        /\ h.keyed = hand[r].keyed
    BY <1>1, <2>1 DEF Hand
  <2> HIDE DEF h
  <2>5. hand'[r] = h /\ pc'[r] = IF ~admitted THEN "raised" ELSE IF rows = {} THEN "job" ELSE "product"
    BY <1>1, <2>2
  <2> QED
    BY <1>1, <2>1, <2>2, <2>3, <2>4, <2>5 DEF seller, Place, Ended, Admitted, Keeps
<1>5. CASE SavesProduct(r)
  BY <1>1, <1>5 DEF SavesProduct, Goto, seller, Place, Ended, Saved
<1>6. CASE SavesOffer(r)
  <2> DEFINE left == hand[r].left \ {Min(hand[r].left)}
             h == [hand[r] EXCEPT !.left = left]
  <2>1. left \subseteq DOMAIN hand[r].file /\ left \subseteq Nat
    BY <1>1, HandFields
  <2> HIDE DEF left
  <2>2. h \in Hand /\ h.op = hand[r].op /\ h.file = hand[r].file /\ h.left = left /\ h.as = hand[r].as
        /\ h.keyed = hand[r].keyed
    BY <1>1, <2>1 DEF Hand
  <2>3. /\ At(r, "offer") /\ UNCHANGED <<seller, products, told, cached, overlap, faults>>
        /\ \/ pc' = [pc EXCEPT ![r] = "raised"] /\ UNCHANGED <<offers, hand>>
           \/ /\ hand' = [hand EXCEPT ![r] = h]
              /\ pc' = [pc EXCEPT ![r] = IF left # {} THEN "product"
                                         ELSE IF hand[r].op = "import" THEN "job" ELSE "done"]
              /\ offers' = offers \cup {<<r, Min(hand[r].left)>>}
    BY <1>6 DEF SavesOffer, Goto, left
  <2> HIDE DEF h
  <2>4. CASE pc' = [pc EXCEPT ![r] = "raised"] /\ UNCHANGED <<offers, hand>>
    BY <1>1, <2>3, <2>4 DEF seller, Place, Ended, Offered, Keeps
  <2>5. CASE /\ hand' = [hand EXCEPT ![r] = h]
             /\ pc' = [pc EXCEPT ![r] = IF left # {} THEN "product"
                                        ELSE IF hand[r].op = "import" THEN "job" ELSE "done"]
             /\ offers' = offers \cup {<<r, Min(hand[r].left)>>}
    <3>1. hand'[r] = h /\ pc'[r] = IF left # {} THEN "product" ELSE IF hand[r].op = "import" THEN "job" ELSE "done"
      BY <1>1, <2>5
    <3> QED
      BY <1>1, <2>1, <2>2, <2>3, <2>5, <3>1 DEF seller, Place, Ended, left, Offered, Keeps
  <2> QED
    BY <2>3, <2>4, <2>5
<1>7. CASE SavesJob(r) \/ SavesErrors(r) \/ ErrorsRefused(r) \/ MarksFailed(r) \/ Answers(r)
  BY <1>1, <1>7 DEF SavesJob, SavesErrors, ErrorsRefused, MarksFailed, Answers, Tells, Goto, seller, Place, Ended
<1> QED
  BY <1>2, <1>3, <1>4, <1>5, <1>6, <1>7 DEF Fills

LEMMA TypeInvInit == Init => TypeInv
<1> SUFFICES ASSUME Init PROVE TypeInv
  OBVIOUS
<1>1. PICK known \in BOOLEAN : merchant = [NoMerchant EXCEPT !.known = known]
  BY DEF Init
<1>2. merchant \in Merchant /\ (merchant.known \/ merchant = NoMerchant)
  BY <1>1, MerchantFields DEF NoMerchant, Merchant
<1>3. pc \in [Request -> Place] /\ hand \in [Request -> Hand] /\ jobs \in [Request -> Job]
  BY MerchantFields DEF Init, Place, NoJob, Job
<1>4. \A r \in Request : At(r, "new") /\ hand[r] = NoHand
  BY DEF Init, At
<1>5. \A r \in Request : Shape(r)
  BY <1>4, MerchantFields DEF Shape, At, Selling, Telling
<1>6. ASSUME NEW r \in Request
      PROVE  /\ hand[r].op \in {"none", "profile", "tier", "create", "import"}
             /\ hand[r].file \in Files \cup {<<k>> : k \in RowKind} \cup {<<>>}
             /\ hand[r].keyed \in BOOLEAN /\ hand[r].left \in SUBSET RowsOf(r)
             /\ hand[r].as \in Merchant /\ hand[r].seen \in Merchant
  BY <1>4, MerchantFields
<1>7. /\ reported = {} /\ cached = Nobody /\ \A r \in Request : answer[r] = Nobody
      /\ answer \in [Request -> {s \in Request : jobs[s].status # "none"} \cup {Nobody}]
  BY DEF Init
<1>8. /\ {profile, assigned} \subseteq Request \cup {Nobody} /\ fresh \in SUBSET Request
      /\ {stale, mixed, overlap, lost} \subseteq BOOLEAN
      /\ products = {} /\ offers = {}
  BY DEF Init
<1>f. faults \in 0..MaxFaults
  BY ImportAssumption DEF Init
<1>9. TypeOK
  BY <1>2, <1>3, <1>6, <1>7, <1>8, <1>f DEF TypeOK, Place
<1> QED
  BY <1>3, <1>5, <1>9 DEF TypeInv

\* A step of one request keeps the types if it does not take back what others rely on.
LEMMA TypeInvKept ==
    ASSUME TypeInv, NEW r \in Request,
           pc' = [pc EXCEPT ![r] = pc'[r]], pc'[r] \in Place,
           hand' = [hand EXCEPT ![r] = hand'[r]], hand'[r] \in Hand,
           hand'[r].left \subseteq DOMAIN hand'[r].file, At(r, "new") \/ hand'[r].file = hand[r].file,
           merchant' \in Merchant, merchant'.known \/ (merchant' = NoMerchant /\ ~merchant.known),
           profile' \in Request \cup {Nobody}, assigned' \in Request \cup {Nobody}, fresh' \subseteq Request,
           stale' \in BOOLEAN, mixed' \in BOOLEAN, overlap' \in BOOLEAN, lost' = lost,
           faults' \in 0..MaxFaults,
           jobs' = [jobs EXCEPT ![r] = jobs'[r]], jobs'[r] \in Job,
           jobs[r].status # "none" => jobs'[r].status # "none",
           products \subseteq products', products' \subseteq products \cup ({r} \X DOMAIN hand'[r].file),
           offers' \subseteq products',
           reported' \subseteq reported \cup {r}, r \in reported' \ reported => jobs'[r].status # "none",
           cached' = cached \/ (cached' = r /\ jobs'[r].status # "none"),
           answer' = [answer EXCEPT ![r] = answer'[r]],
           answer'[r] \in {answer[r], cached} \/ (answer'[r] = r /\ jobs'[r].status # "none"),
           Shape(r)'
    PROVE  TypeInv'
<1> DEFINE Posted == {s \in Request : jobs[s].status # "none"}
<1>0. /\ pc \in [Request -> Place] /\ hand \in [Request -> Hand] /\ jobs \in [Request -> Job]
      /\ products \subseteq Product /\ \A s \in Request : Shape(s) /\ hand[s] \in Hand
      /\ \A s \in Request : hand[s].left \subseteq DOMAIN hand[s].file
  BY Types DEF TypeInv, TypeOK, RowsOf
<1>1. pc' \in [Request -> Place] /\ hand' \in [Request -> Hand] /\ jobs' \in [Request -> Job]
  BY <1>0
<1>2. \A s \in Request \ {r} : pc'[s] = pc[s] /\ hand'[s] = hand[s] /\ jobs'[s] = jobs[s]
  BY <1>0
<1>3. Posted \subseteq Posted'
  BY <1>2
<1>4. \A s \in Request : Shape(s)'
  <2>1. ASSUME NEW s \in Request, s # r PROVE Shape(s)'
    <3>1. pc'[s] = pc[s] /\ hand'[s] = hand[s] /\ jobs'[s] = jobs[s] /\ (merchant.known => merchant'.known)
      BY <1>2, <2>1
    <3>2. Shape(s)
      BY <1>0
    <3> QED
      BY <3>1, <3>2 DEF Shape, At
  <2> QED
    BY <2>1
<1>5. products' \in SUBSET Product'
  <2>1. \A s \in Request : DOMAIN hand[s].file \subseteq DOMAIN hand'[s].file
    <3>1. At(r, "new") => hand[r].file = <<>>
      BY <1>0, MerchantFields DEF Shape
    <3> QED
      BY <1>2, <3>1
  <2>2. \A s \in Request : {s} \X RowsOf(s) \subseteq {s} \X RowsOf(s)'
    BY <2>1 DEF RowsOf
  <2>3. ASSUME NEW p \in Product PROVE p \in Product'
    <3>1. PICK s \in Request : p \in {s} \X RowsOf(s)
      BY Zenon DEF Product
    <3>2. p \in {s} \X RowsOf(s)'
      BY <2>2, <3>1
    <3> QED
      BY <3>2, Zenon DEF Product
  <2>4. \A p \in {r} \X DOMAIN hand'[r].file : p \in Product'
    BY DEF Product, RowsOf
  <2> QED
    BY <1>0, <2>3, <2>4
<1>6. /\ reported' \in SUBSET Posted' /\ cached' \in Posted' \cup {Nobody}
      /\ answer' \in [Request -> Posted' \cup {Nobody}]
  <2>1. reported \in SUBSET Posted /\ cached \in Posted \cup {Nobody} /\ answer \in [Request -> Posted \cup {Nobody}]
    BY DEF TypeInv, TypeOK
  <2>2. jobs'[r].status # "none" => r \in Posted'
    OBVIOUS
  <2> HIDE DEF Posted
  <2>3. answer'[r] \in Posted' \cup {Nobody}
    BY <1>3, <2>1, <2>2
  <2> QED
    BY <1>3, <2>1, <2>2, <2>3
<1>7. ASSUME NEW s \in Request
      PROVE  /\ hand'[s].op \in {"none", "profile", "tier", "create", "import"}
             /\ hand'[s].file \in Files \cup {<<k>> : k \in RowKind} \cup {<<>>}
             /\ hand'[s].keyed \in BOOLEAN /\ hand'[s].left \in SUBSET RowsOf(s)'
             /\ hand'[s].as \in Merchant /\ hand'[s].seen \in Merchant
  <2>1. hand'[s] \in Hand
    BY <1>1
  <2>2. hand'[s].left \in SUBSET RowsOf(s)'
    BY <1>0, <1>2 DEF RowsOf
  <2> QED
    BY <2>1, <2>2, HandFields DEF Operation, File
<1>8. {stale', mixed', overlap', lost'} \subseteq BOOLEAN
  BY DEF TypeInv, TypeOK
<1>9. TypeOK'
  BY <1>1, <1>5, <1>6, <1>7, <1>8 DEF TypeOK, Place
<1> QED
  BY <1>1, <1>4, <1>9 DEF TypeInv

LEMMA TypeInvStep == TypeInv /\ [Next]_vars => TypeInv'
<1> SUFFICES ASSUME TypeInv, [Next]_vars PROVE TypeInv'
  OBVIOUS
<1>0. /\ merchant \in Merchant /\ pc \in [Request -> Place] /\ hand \in [Request -> Hand]
      /\ jobs \in [Request -> Job] /\ fresh \subseteq Request /\ faults \in 0..MaxFaults /\ MaxFaults \in Nat
      /\ merchant.known \/ merchant = NoMerchant
      /\ offers \subseteq products /\ profile \in Request \cup {Nobody} /\ assigned \in Request \cup {Nobody}
      /\ stale \in BOOLEAN /\ mixed \in BOOLEAN /\ overlap \in BOOLEAN
      /\ answer \in [Request -> Request \cup {Nobody}]
      /\ \A r \in Request : Shape(r) /\ hand[r] \in Hand /\ hand[r].left \subseteq DOMAIN hand[r].file
  BY Types DEF TypeInv, TypeOK, RowsOf
<1>1. ASSUME NEW r \in Request, Sells(r) PROVE TypeInv'
  <2>1. /\ UNCHANGED imports
        /\ pc' = [pc EXCEPT ![r] = pc'[r]]
        /\ hand' = [hand EXCEPT ![r] = hand'[r]] /\ hand'[r] \in Hand
        /\ hand'[r].file = hand[r].file /\ hand'[r].keyed = hand[r].keyed /\ hand'[r].left = hand[r].left
    BY <1>1, SellsWhat
  <2>2. /\ merchant' \in Merchant /\ (merchant'.known \/ (merchant' = NoMerchant /\ ~merchant.known))
        /\ profile' \in Request \cup {Nobody} /\ assigned' \in Request \cup {Nobody} /\ fresh' \subseteq Request
        /\ stale' \in BOOLEAN /\ mixed' \in BOOLEAN
    <3>1. CASE Loaded(r) \/ Compared(r) \/ Refused(r)
      BY <1>0, <3>1 DEF Loaded, Compared, Refused, seenBy
    <3>2. CASE Stored(r)
      <4>1. hand[r].as.known /\ (At(r, "merging") => merchant.known) /\ hand[r].seen \in Merchant
        BY <1>0, <3>2, HandFields DEF Shape, Selling, At, Stored
      <4>2. merchant'.known
        BY <1>0, <3>2, <4>1, Mixes DEF Stored
      <4> QED
        BY <1>0, <3>2, <4>2 DEF SavedBy, Stored
    <3> QED
      BY <1>1, <3>1, <3>2, SellsWhat
  <2>3. Shape(r)' /\ pc'[r] \in Place
    <3>1. Shape(r) /\ NoHand.keyed = FALSE
      BY <1>0, MerchantFields
    <3> QED
      BY <1>1, <2>1, <2>2, <3>1, SellsWhat
         DEF Loaded, Compared, Refused, Stored, Shape, At, Selling, Telling, Place, Ended, imports
  <2> QED
    BY <1>0, <2>1, <2>2, <2>3, TypeInvKept DEF imports, catalog, told
<1>2. ASSUME NEW r \in Request, Fills(r) PROVE TypeInv'
  <2>1. /\ UNCHANGED <<merchant, seenBy>>
        /\ pc' = [pc EXCEPT ![r] = pc'[r]] /\ pc'[r] \in Place
        /\ hand' = [hand EXCEPT ![r] = hand'[r]] /\ hand'[r] \in Hand
        /\ hand'[r].left \subseteq DOMAIN hand'[r].file
    BY <1>2, FillsWhat
  <2>2. Shape(r) /\ hand[r] \in Hand /\ hand[r].file \in File /\ hand[r].left \subseteq DOMAIN hand[r].file
        /\ hand[r].left \subseteq Nat
    BY <1>0, HandFields
  <2>3. CASE Created(r) \/ Imported(r)
    <3>1. Shape(r)' /\ overlap' \in BOOLEAN
      BY <1>0, <2>3 DEF Created, Imported, Shape, At, Selling, Telling
    <3>2. /\ UNCHANGED <<catalog, jobs, reported, cached, lost, faults>> /\ At(r, "new")
          /\ answer' = answer \/ answer' = [answer EXCEPT ![r] = cached]
      BY <2>3 DEF Created, Imported, told
    <3> QED
      BY <1>0, <2>1, <3>1, <3>2, TypeInvKept DEF catalog, seenBy
  <2>4. CASE Admitted(r)
    <3>1. Shape(r)'
      BY <2>2, <2>4 DEF Admitted, Keeps, Shape, At, Selling, Telling
    <3> QED
      BY <1>0, <2>1, <2>4, <3>1, TypeInvKept DEF Admitted, Keeps, catalog, told, seenBy
  <2>5. CASE Saved(r)
    <3>1. hand[r].left # {} /\ Min(hand[r].left) \in DOMAIN hand[r].file
      BY <2>2, <2>5, MinIsIn DEF Saved, Shape, At
    <3>2. Shape(r)'
      BY <2>2, <2>5, <3>1 DEF Saved, Shape, At, Selling, Telling
    <3>3. products \subseteq products' /\ products' \subseteq products \cup ({r} \X DOMAIN hand'[r].file)
      BY <2>5, <3>1 DEF Saved
    <3> QED
      BY <1>0, <2>1, <2>5, <3>2, <3>3, TypeInvKept DEF Saved, told, seenBy
  <2>6. CASE Offered(r)
    <3>1. Shape(r)'
      BY <2>2, <2>6 DEF Offered, Keeps, Shape, At, Selling, Telling
    <3>2. offers' \subseteq products'
      BY <1>0, <2>2, <2>6 DEF Offered, Shape, At
    <3> QED
      BY <1>0, <2>1, <2>6, <3>1, <3>2, TypeInvKept DEF Offered, Keeps, told, seenBy
  <2>7. CASE (Tells(r) \/ Answers(r)) /\ hand'[r] = hand[r]
    <3>1. /\ jobs' = [jobs EXCEPT ![r] = jobs'[r]] /\ jobs'[r] \in Job
          /\ jobs[r].status # "none" => jobs'[r].status # "none"
          /\ SavesJob(r) => jobs'[r].status # "none"
      <4>1. Result(hand[r].file) \in Job /\ Result(hand[r].file).status # "none"
        BY <2>2, ResultIs
      <4>2. [jobs[r] EXCEPT !.status = "failed"] \in Job /\ [jobs[r] EXCEPT !.status = "failed"].status = "failed"
        BY <1>0 DEF Job
      <4>3. \/ jobs' = jobs \/ jobs' = [jobs EXCEPT ![r] = Result(hand[r].file)]
            \/ ~SavesJob(r) /\ jobs' = [jobs EXCEPT ![r] = [jobs[r] EXCEPT !.status = "failed"]]
        BY <2>7 DEF Tells, SavesJob, SavesErrors, ErrorsRefused, MarksFailed, Answers, told, At
      <4>4. SavesJob(r) => jobs' = [jobs EXCEPT ![r] = Result(hand[r].file)]
        BY DEF SavesJob
      <4> QED
        BY <1>0, <4>1, <4>2, <4>3, <4>4
    <3>2. pc[r] \in Telling \/ SavesJob(r)
      BY <2>7 DEF Tells, SavesErrors, ErrorsRefused, MarksFailed, Answers, At, Telling
    <3>3. jobs'[r].status # "none"
      BY <2>2, <3>1, <3>2 DEF Shape
    <3>4. /\ UNCHANGED <<catalog, overlap, lost>> /\ faults' \in 0..MaxFaults
          /\ reported' \subseteq reported \cup {r} /\ cached' \in {cached, r}
          /\ answer' = answer \/ answer' = [answer EXCEPT ![r] = r]
          /\ pc'[r] \in Telling \cup {"done"} /\ pc[r] \in Telling \cup {"job"}
      <4>1. CASE ErrorsRefused(r)
        BY <1>0, <4>1 DEF ErrorsRefused, Goto, seller, told, At, Telling
      <4>2. CASE SavesJob(r) \/ SavesErrors(r) \/ MarksFailed(r) \/ Answers(r)
        BY <1>0, <4>2 DEF SavesJob, SavesErrors, MarksFailed, Answers, Goto, seller, told, At, Telling
      <4> QED
        BY <2>7, <4>1, <4>2 DEF Tells
    <3>5. Shape(r)'
      BY <2>2, <2>7, <3>3, <3>4 DEF Shape, At, Selling, Telling
    <3> QED
      BY <1>0, <2>1, <2>7, <3>1, <3>3, <3>4, <3>5, TypeInvKept DEF catalog, seenBy
  <2> QED
    BY <1>2, <2>3, <2>4, <2>5, <2>6, <2>7, FillsWhat
<1>3. ASSUME NEW r \in Request, Dies(r) PROVE TypeInv'
  <2>1. /\ pc' = [pc EXCEPT ![r] = "died"] /\ faults' = faults + 1 /\ faults < MaxFaults /\ fresh' = fresh \ {r}
        /\ UNCHANGED <<merchant, catalog, told, cached, hand, profile, assigned, stale, mixed, overlap, lost>>
    BY <1>3 DEF Dies, Goto
  <2>2. faults' \in 0..MaxFaults
    BY <1>0, <2>1
  <2>3. Shape(r)' /\ pc'[r] = "died"
    BY <1>0, <2>1 DEF Shape, At, Selling, Telling
  <2> QED
    BY <1>0, <2>1, <2>2, <2>3, TypeInvKept DEF catalog, told, Place, Ended
<1>4. CASE Restarts
  <2>1. /\ faults' \in 0..MaxFaults /\ lost' = TRUE /\ cached' = Nobody /\ fresh' = {}
        /\ UNCHANGED <<merchant, catalog, told, hand, profile, assigned, stale, mixed, overlap>>
        /\ pc' \in [Request -> Place]
    BY <1>0, <1>4 DEF Restarts, Place, Ended
  <2>2. \A r \in Request : pc'[r] = pc[r] \/ pc'[r] = "died"
    BY <1>4 DEF Restarts
  <2>3. \A r \in Request : Shape(r)'
    BY <1>0, <2>1, <2>2 DEF Shape, At, Selling, Telling, catalog, told
  <2>4. Product' = Product /\ UNCHANGED <<products, offers, jobs, reported, answer>>
    BY <2>1 DEF Product, RowsOf, catalog, told
  <2>5. {stale', mixed', overlap', lost'} \subseteq BOOLEAN
    BY <1>0, <2>1
  <2>6. \A r \in Request : RowsOf(r)' = RowsOf(r)
    BY <2>1 DEF RowsOf
  <2>7. TypeOK'
    BY <2>1, <2>4, <2>5, <2>6 DEF TypeInv, TypeOK, Place
  <2> QED
    BY <1>0, <2>1, <2>3, <2>7 DEF TypeInv
<1>5. CASE UNCHANGED vars
  <2>1. UNCHANGED <<merchant, products, offers, jobs, reported, answer, cached, pc, hand, profile, assigned,
                    fresh, stale, mixed, overlap, lost, faults>>
    BY <1>5 DEF vars, catalog, told, seenBy
  <2>2. Product' = Product /\ \A r \in Request : RowsOf(r)' = RowsOf(r) /\ Shape(r)'
    BY <1>0, <2>1 DEF Product, RowsOf, Shape, At
  <2>3. TypeOK'
    BY <2>1, <2>2 DEF TypeInv, TypeOK
  <2> QED
    BY <1>0, <2>1, <2>2, <2>3 DEF TypeInv
<1> QED
  BY <1>1, <1>2, <1>3, <1>4, <1>5 DEF Next, Sells, Fills

\* Every reachable state is of the declared types: an offer has its product, a
\* product a row of the file it came from, and what is kept or answered a job.
THEOREM TypeCorrect == Spec => []TypeOK
<1>1. TypeInv => TypeOK
  BY DEF TypeInv
<1> QED
  BY <1>1, TypeInvInit, TypeInvStep, PTL DEF Spec

-----------------------------------------------------------------------------
(* What an import tells *)

\* What is in the catalog follows from where the request is, and what its job
\* tells is true from the moment the job is saved.
Told(r) ==
    /\ pc[r] \notin {"offer", "raised", "died"} => RowsIn(products, r) = RowsIn(offers, r)
    /\ At(r, "offer") => RowsIn(products, r) = RowsIn(offers, r) \cup {Min(hand[r].left)}
    /\ At(r, "admitting") => RowsIn(offers, r) = {}
    /\ At(r, "job") => hand[r].left = {}
    /\ hand[r].op = "import" /\ pc[r] \in {"product", "offer", "job"} =>
          /\ hand[r].left \subseteq Accepted(hand[r].file)
          /\ RowsIn(offers, r) = Accepted(hand[r].file) \ hand[r].left
    /\ jobs[r].status # "none" =>
          /\ pc[r] \in Telling \cup {"done", "died"}
          /\ RowsIn(offers, r) = Accepted(hand[r].file)
          /\ jobs[r].accepted = Cardinality(Accepted(hand[r].file))
    /\ jobs[r].rejected > 0 /\ r \notin reported =>
          jobs[r].status = "failed" \/ pc[r] \in {"errors", "failing", "died"}
    /\ jobs[r].rejected > 0 => jobs[r].status # "none"
    /\ hand[r].op = "import" /\ At(r, "done") =>
          /\ answer[r] # Nobody
          /\ hand[r].keyed \/ answer[r] = r

ToldInv == TypeInv /\ \A r \in Request : Told(r)

LEMMA ToldInit == Init => ToldInv
<1> SUFFICES ASSUME Init, NEW r \in Request PROVE Told(r)
  BY TypeInvInit DEF ToldInv
<1>1. pc[r] = "new" /\ jobs[r] = NoJob /\ hand[r] = NoHand /\ products = {} /\ offers = {}
  BY DEF Init
<1> QED
  BY <1>1 DEF Told, RowsIn, At, NoJob, Telling

\* A request that has not begun has no product.
LEMMA NoneYet ==
    ASSUME TypeInv, NEW r \in Request, At(r, "new")
    PROVE  \A n : <<r, n>> \notin products /\ <<r, n>> \notin offers
<1>1. hand[r].file = <<>>
  BY Types, MerchantFields DEF Shape
<1>2. ASSUME NEW n, <<r, n>> \in products PROVE FALSE
  <2>1. <<r, n>> \in Product
    BY <1>2 DEF TypeInv, TypeOK
  <2>2. PICK s \in Request : <<r, n>> \in {s} \X RowsOf(s)
    BY <2>1, Zenon DEF Product
  <2> QED
    BY <1>1, <2>2 DEF RowsOf
<1> QED
  BY <1>2, Types

\* A step of one request leaves what the others are at and have made.
Others(r) == \A s \in Request \ {r} :
    /\ pc'[s] = pc[s] /\ hand'[s] = hand[s] /\ jobs'[s] = jobs[s] /\ answer'[s] = answer[s]
    /\ s \in reported' <=> s \in reported
    /\ RowsIn(products, s)' = RowsIn(products, s) /\ RowsIn(offers, s)' = RowsIn(offers, s)

LEMMA OthersStay ==
    ASSUME TypeInv, NEW r \in Request, Sells(r) \/ Fills(r) \/ Dies(r)
    PROVE  Others(r)
<1>0. pc \in [Request -> Place] /\ hand \in [Request -> Hand] /\ jobs \in [Request -> Job]
      /\ answer \in [Request -> Request \cup {Nobody}]
  BY Types DEF TypeInv, TypeOK
<1>1. ASSUME \A s \in Request \ {r} : pc'[s] = pc[s] /\ hand'[s] = hand[s] /\ jobs'[s] = jobs[s] /\ answer'[s] = answer[s],
             \A s \in Request \ {r} : s \in reported' <=> s \in reported,
             \A s \in Request \ {r} : \A n : (<<s, n>> \in products' <=> <<s, n>> \in products)
                                             /\ (<<s, n>> \in offers' <=> <<s, n>> \in offers)
      PROVE  Others(r)
  BY <1>1 DEF Others, RowsIn, RowsOf
<1>2. CASE Sells(r)
  <2>1. pc' = [pc EXCEPT ![r] = pc'[r]] /\ hand' = [hand EXCEPT ![r] = hand'[r]]
        /\ UNCHANGED <<jobs, answer, reported, products, offers>>
    BY <1>2, SellsWhat DEF imports, catalog, told
  <2> QED
    BY <1>0, <1>1, <2>1
<1>3. CASE Fills(r)
  <2>1. pc' = [pc EXCEPT ![r] = pc'[r]] /\ hand' = [hand EXCEPT ![r] = hand'[r]]
    BY <1>3, FillsWhat
  <2>2. CASE Created(r) \/ Imported(r) \/ Admitted(r)
    <3>1. UNCHANGED <<jobs, reported, products, offers>> /\ \A s \in Request \ {r} : answer'[s] = answer[s]
      BY <1>0, <2>2 DEF Created, Imported, Admitted, catalog, told
    <3> QED
      BY <1>0, <1>1, <2>1, <3>1
  <2>3. CASE Saved(r) \/ Offered(r)
    <3>1. /\ UNCHANGED <<jobs, reported, answer>>
          /\ products' \in {products, products \cup {<<r, Min(hand[r].left)>>}}
          /\ offers' \in {offers, offers \cup {<<r, Min(hand[r].left)>>}}
      BY <2>3 DEF Saved, Offered, told
    <3> QED
      BY <1>0, <1>1, <2>1, <3>1
  <2>4. CASE Tells(r) \/ Answers(r)
    <3>1. /\ UNCHANGED <<products, offers>> /\ \A s \in Request \ {r} : jobs'[s] = jobs[s] /\ answer'[s] = answer[s]
          /\ \A s \in Request \ {r} : s \in reported' <=> s \in reported
      BY <1>0, <2>4 DEF Tells, SavesJob, SavesErrors, ErrorsRefused, MarksFailed, Answers, catalog, told
    <3> QED
      BY <1>0, <1>1, <2>1, <3>1
  <2> QED
    BY <1>3, <2>2, <2>3, <2>4, FillsWhat
<1>4. CASE Dies(r)
  <2>1. pc' = [pc EXCEPT ![r] = "died"] /\ UNCHANGED <<hand, jobs, answer, reported, products, offers>>
    BY <1>4 DEF Dies, Goto, catalog, told
  <2> QED
    BY <1>0, <1>1, <2>1
<1> QED
  BY <1>2, <1>3, <1>4

LEMMA ToldStep == ToldInv /\ [Next]_vars => ToldInv'
<1> SUFFICES ASSUME ToldInv, [Next]_vars PROVE ToldInv'
  OBVIOUS
<1>t. TypeInv /\ TypeInv'
  BY TypeInvStep DEF ToldInv
<1>o. \A r \in Request : Told(r)
  BY DEF ToldInv
<1>0. /\ pc \in [Request -> Place] /\ hand \in [Request -> Hand] /\ jobs \in [Request -> Job]
      /\ answer \in [Request -> Request \cup {Nobody}] /\ Nobody \notin Request /\ cached \in Request \cup {Nobody}
      /\ \A r \in Request : Shape(r) /\ hand[r] \in Hand /\ hand[r].file \in File
                            /\ hand[r].left \subseteq DOMAIN hand[r].file /\ hand[r].left \subseteq Nat
  BY <1>t, Types, HandFields, ImportAssumption DEF TypeInv, TypeOK, RowsOf
<1>1. ASSUME NEW r \in Request, Others(r), Told(r)' PROVE ToldInv'
  <2>1. ASSUME NEW s \in Request, s # r PROVE Told(s)'
    <3>1. /\ pc'[s] = pc[s] /\ hand'[s] = hand[s] /\ jobs'[s] = jobs[s] /\ answer'[s] = answer[s]
          /\ s \in reported' <=> s \in reported
          /\ RowsIn(products, s)' = RowsIn(products, s) /\ RowsIn(offers, s)' = RowsIn(offers, s)
      BY <1>1, <2>1 DEF Others
    <3> QED
      BY <1>o, <3>1 DEF Told, At
  <2> QED
    BY <1>1, <1>t, <2>1 DEF ToldInv
<1>2. ASSUME NEW r \in Request, Sells(r) PROVE Told(r)'
  <2>1. /\ UNCHANGED <<jobs, reported, answer>>
        /\ hand'[r].file = hand[r].file
        /\ hand'[r].op \in {"profile", "tier"}
        /\ pc[r] \in {"new", "inserting", "loaded", "merging"}
        /\ pc'[r] \in {"inserting", "loaded", "merging", "raised", "done"}
    BY <1>0, <1>2, <1>t, SellsWhat DEF Loaded, Compared, Refused, Stored, imports, told, At, Shape, Selling
  <2>2. RowsIn(products, r)' = RowsIn(products, r) /\ RowsIn(offers, r)' = RowsIn(offers, r)
    BY <1>2, <1>t, <2>1, SellsWhat DEF imports, catalog, RowsIn, RowsOf
  <2> QED
    BY <1>o, <2>1, <2>2 DEF Told, At, Telling
<1>3. ASSUME NEW r \in Request, Fills(r) PROVE Told(r)'
  <2>o. Told(r) /\ Shape(r) /\ hand[r] \in Hand
    BY <1>o, <1>0
  <2>1. CASE Created(r) \/ Imported(r)
    <3>1. At(r, "new") /\ jobs'[r] = jobs[r] /\ reported' = reported /\ UNCHANGED catalog
      BY <2>1 DEF Created, Imported, told
    <3>2. RowsIn(products, r)' = {} /\ RowsIn(offers, r)' = {}
      BY <1>t, <3>1, NoneYet DEF RowsIn, catalog
    <3>3. jobs[r].status = "none"
      BY <2>o, <3>1 DEF Told, At, Telling
    <3>4. CASE Created(r)
      BY <2>o, <3>1, <3>2, <3>3, <3>4 DEF Created, Told, At
    <3>5. CASE Imported(r)
      <4>1. answer'[r] \in {answer[r], cached} /\ (pc'[r] = "done" => answer'[r] = cached)
        BY <1>0, <3>5 DEF Imported
      <4> QED
        BY <2>o, <3>1, <3>2, <3>3, <3>5, <4>1 DEF Imported, Told, At
    <3> QED
      BY <2>1, <3>4, <3>5
  <2>2. CASE Admitted(r)
    <3>1. RowsIn(products, r)' = RowsIn(products, r) /\ RowsIn(offers, r)' = RowsIn(offers, r)
      BY <2>2 DEF Admitted, Keeps, RowsIn, RowsOf, catalog
    <3>2. jobs[r].status = "none" /\ UNCHANGED <<jobs, reported, answer>>
      BY <2>o, <2>2 DEF Told, Admitted, At, Telling, told
    <3> QED
      BY <2>o, <2>2, <3>1, <3>2 DEF Admitted, Keeps, Told, At
  <2>3. CASE Saved(r)
    <3>1. RowsIn(offers, r)' = RowsIn(offers, r) /\ UNCHANGED <<jobs, reported, answer>>
      BY <2>3 DEF Saved, RowsIn, RowsOf, told
    <3>2. jobs[r].status = "none"
      BY <2>o, <2>3 DEF Told, Saved, At, Telling
    <3>3. hand[r].left # {} /\ Min(hand[r].left) \in RowsOf(r)
      BY <1>0, <2>o, <2>3, MinIsIn DEF Saved, Shape, At, RowsOf
    <3>4. pc'[r] = "offer" => RowsIn(products, r)' = RowsIn(products, r) \cup {Min(hand[r].left)}
      BY <2>3, <3>3 DEF Saved, RowsIn, RowsOf
    <3> QED
      BY <2>o, <2>3, <3>1, <3>2, <3>4 DEF Saved, Told, At
  <2>4. CASE Offered(r)
    <3> DEFINE n == Min(hand[r].left)
    <3>1. RowsIn(products, r)' = RowsIn(products, r) /\ UNCHANGED <<jobs, reported, answer>>
      BY <2>4 DEF Offered, Keeps, RowsIn, RowsOf, told
    <3>2. jobs[r].status = "none"
      BY <2>o, <2>4 DEF Told, Offered, At, Telling
    <3>3. n \in hand[r].left /\ n \in RowsOf(r)
      BY <1>0, <2>o, <2>4, MinIsIn DEF Offered, Shape, At, RowsOf
    <3>4. CASE pc'[r] = "raised" /\ UNCHANGED <<offers, hand>>
      BY <2>o, <3>1, <3>2, <3>4 DEF Told, At
    <3>5. CASE /\ hand'[r].left = hand[r].left \ {n}
               /\ pc'[r] = IF hand'[r].left # {} THEN "product"
                           ELSE IF hand[r].op = "import" THEN "job" ELSE "done"
               /\ offers' = offers \cup {<<r, n>>}
      <4>1. RowsIn(offers, r)' = RowsIn(offers, r) \cup {n}
        BY <2>4, <3>3, <3>5 DEF Offered, Keeps, RowsIn, RowsOf
      <4>2. RowsIn(products, r)' = RowsIn(offers, r)'
        BY <2>o, <2>4, <3>1, <4>1 DEF Told, Offered
      <4>3. hand[r].op = "import" => /\ hand'[r].left \subseteq Accepted(hand[r].file)
                                     /\ RowsIn(offers, r)' = Accepted(hand[r].file) \ hand'[r].left
        BY <2>o, <2>4, <3>3, <3>5, <4>1 DEF Told, Offered, At
      <4> HIDE DEF n
      <4> QED
        BY <2>o, <2>4, <3>1, <3>2, <3>5, <4>2, <4>3 DEF Offered, Keeps, Told, At
    <3> QED
      BY <2>4, <3>4, <3>5 DEF Offered
  <2>5. CASE (Tells(r) \/ Answers(r)) /\ hand'[r] = hand[r]
    <3>1. RowsIn(products, r)' = RowsIn(products, r) /\ RowsIn(offers, r)' = RowsIn(offers, r)
      BY <2>5 DEF Tells, SavesJob, SavesErrors, ErrorsRefused, MarksFailed, Answers, RowsIn, RowsOf, catalog
    <3>2. CASE SavesJob(r)
      <4>1. /\ At(r, "job") /\ jobs'[r] = Result(hand[r].file) /\ UNCHANGED <<answer, reported>>
            /\ pc'[r] = IF jobs'[r].rejected > 0 THEN "errors" ELSE "answering"
        BY <1>0, <3>2 DEF SavesJob, Goto
      <4>2. Result(hand[r].file).status # "none" /\ Result(hand[r].file).accepted = Cardinality(Accepted(hand[r].file))
        BY <1>0, ResultIs
      <4>3. RowsIn(offers, r)' = Accepted(hand[r].file) /\ RowsIn(products, r)' = RowsIn(offers, r)'
        BY <2>o, <3>1, <4>1 DEF Told, Shape, At
      <4> QED
        BY <2>5, <4>1, <4>2, <4>3 DEF Told, At, Telling
    <3>3. CASE SavesErrors(r)
      <4>1. /\ At(r, "errors") /\ pc'[r] = "answering" /\ reported' = reported \cup {r} /\ UNCHANGED <<jobs, answer>>
        BY <1>0, <3>3 DEF SavesErrors, Goto
      <4> QED
        BY <2>o, <2>5, <3>1, <4>1 DEF Told, At, Telling
    <3>4. CASE ErrorsRefused(r)
      <4>1. /\ At(r, "errors") /\ pc'[r] = "failing" /\ UNCHANGED <<jobs, answer, reported>>
        BY <1>0, <3>4 DEF ErrorsRefused, Goto, told
      <4> QED
        BY <2>o, <2>5, <3>1, <4>1 DEF Told, At, Telling
    <3>5. CASE MarksFailed(r)
      <4>1. /\ At(r, "failing") /\ pc'[r] = "answering" /\ UNCHANGED <<answer, reported>>
            /\ jobs'[r] = [jobs[r] EXCEPT !.status = "failed"]
        BY <1>0, <3>5 DEF MarksFailed, Goto
      <4>2. jobs'[r].status = "failed" /\ jobs'[r].accepted = jobs[r].accepted /\ jobs'[r].rejected = jobs[r].rejected
        BY <1>0, <4>1 DEF Job
      <4>3. jobs[r].status # "none"
        BY <2>o, <4>1 DEF Shape, At, Telling
      <4> QED
        BY <2>o, <2>5, <3>1, <4>1, <4>2, <4>3 DEF Told, At, Telling
    <3>6. CASE Answers(r)
      <4>1. /\ At(r, "answering") /\ pc'[r] = "done" /\ answer'[r] = r /\ UNCHANGED <<jobs, reported>>
        BY <1>0, <3>6 DEF Answers, Goto
      <4> QED
        BY <1>0, <2>o, <2>5, <3>1, <4>1 DEF Told, At, Telling
    <3> QED
      BY <2>5, <3>2, <3>3, <3>4, <3>5, <3>6 DEF Tells
  <2> QED
    BY <1>3, <1>t, <2>1, <2>2, <2>3, <2>4, <2>5, FillsWhat
<1>4. ASSUME NEW r \in Request, pc'[r] \in {pc[r], "died"}, pc'[r] = "died" => pc[r] \notin {"new", "done", "raised"},
             UNCHANGED <<hand, jobs, answer, reported, products, offers>>
      PROVE  Told(r)'
  <2>1. RowsIn(products, r)' = RowsIn(products, r) /\ RowsIn(offers, r)' = RowsIn(offers, r)
    BY <1>4 DEF RowsIn, RowsOf
  <2> QED
    BY <1>4, <1>o, <2>1 DEF Told, At
<1>5. ASSUME NEW r \in Request, Dies(r) PROVE Told(r)'
  BY <1>0, <1>4, <1>5 DEF Dies, Goto, InFlight, At, Ended, catalog, told
<1>6. CASE Restarts \/ UNCHANGED vars
  <2>1. UNCHANGED <<hand, jobs, answer, reported, products, offers>>
    BY <1>6 DEF Restarts, vars, catalog, told
  <2>2. \A r \in Request : pc'[r] \in {pc[r], "died"} /\ (pc'[r] = "died" /\ pc[r] # "died" => InFlight(r))
    BY <1>6 DEF Restarts, vars
  <2>3. \A r \in Request : Told(r)'
    BY <1>4, <2>1, <2>2 DEF InFlight, At, Ended
  <2> QED
    BY <1>t, <2>3 DEF ToldInv
<1> QED
  BY <1>1, <1>2, <1>3, <1>5, <1>6, <1>t, OthersStay DEF Next, Sells, Fills

\* An import job tells what became of the file; see ImportIsTold.
THEOREM ImportsTold == Spec => []ImportIsTold
<1>1. ToldInv => ImportIsTold
  BY DEF ToldInv, Told, ImportIsTold, At
<1> QED
  BY <1>1, ToldInit, ToldStep, PTL DEF Spec

-----------------------------------------------------------------------------
(* The merchant *)

\* The tier of a merchant is the one its last assignment names.
Assigned(h, m) ==
    /\ m.tier = IF m.by = Nobody THEN "standard" ELSE h[m.by].as.tier
    /\ m.by # Nobody => h[m.by].op = "tier"

\* Whom the row names when a request has saved it.
Assigner(r) == IF hand[r].op = "tier" THEN r ELSE Nobody

\* What requests are going to save is assigned, by themselves if by anybody, so the
\* merchant carries the last assignment as long as no save mixes two rows; its
\* profile is the last one, and that of who loaded it since; whoever saved the
\* large tier had assigned it; and whoever fills the catalog above the limit found
\* the large tier.
MerchantInv ==
    /\ TypeInv
    /\ \A r \in Request :
          /\ Assigned(hand, hand[r].as)
          /\ pc[r] \in Selling => hand[r].as.by = Assigner(r)
    /\ ~mixed => Assigned(hand, merchant) /\ merchant.by = assigned
    /\ merchant.tier = "large" => LargeAssigned
    /\ \A r \in fresh : At(r, "merging") => hand[r].seen = merchant
    /\ ~stale => /\ merchant.profile = profile
                 /\ \A r \in fresh : pc[r] \in Selling =>
                       hand[r].as.profile = IF hand[r].op = "profile" THEN r ELSE profile
    /\ \A r \in Request :
          /\ hand[r].op = "import" /\ Len(hand[r].file) > RowLimit["standard"]
          /\ pc[r] \in {"product", "offer"} \/ RowsIn(products, r) # {}
          => LargeAssigned

LEMMA MerchantInit == Init => MerchantInv
<1> SUFFICES ASSUME Init PROVE MerchantInv
  OBVIOUS
<1>1. PICK known \in BOOLEAN : merchant = [NoMerchant EXCEPT !.known = known]
  BY DEF Init
<1>2. merchant.tier = "standard" /\ merchant.by = Nobody /\ merchant.profile = Nobody
  BY <1>1 DEF NoMerchant
<1>3. \A r \in Request : hand[r] = NoHand
  BY DEF Init
<1> QED
  BY <1>2, <1>3, TypeInvInit, MerchantFields DEF Init, MerchantInv, Assigned, At, Selling

LEMMA MerchantStep == MerchantInv /\ [Next]_vars => MerchantInv'
<1> SUFFICES ASSUME MerchantInv, [Next]_vars PROVE MerchantInv'
  OBVIOUS
<1>t. TypeInv /\ TypeInv'
  BY TypeInvStep DEF MerchantInv
<1>o. /\ \A r \in Request : Assigned(hand, hand[r].as) /\ (pc[r] \in Selling => hand[r].as.by = Assigner(r))
      /\ ~mixed => Assigned(hand, merchant) /\ merchant.by = assigned
      /\ merchant.tier = "large" => LargeAssigned
      /\ \A r \in fresh : At(r, "merging") => hand[r].seen = merchant
      /\ ~stale => /\ merchant.profile = profile
                   /\ \A r \in fresh : pc[r] \in Selling =>
                         hand[r].as.profile = IF hand[r].op = "profile" THEN r ELSE profile
      /\ \A r \in Request :
            /\ hand[r].op = "import" /\ Len(hand[r].file) > RowLimit["standard"]
            /\ pc[r] \in {"product", "offer"} \/ RowsIn(products, r) # {}
            => LargeAssigned
  BY DEF MerchantInv
<1>0. /\ merchant \in Merchant /\ pc \in [Request -> Place] /\ hand \in [Request -> Hand] /\ fresh \subseteq Request
      /\ \A r \in Request : /\ Shape(r) /\ hand[r] \in Hand /\ hand[r].as \in Merchant /\ hand[r].seen \in Merchant
                            /\ hand[r].left \subseteq RowsOf(r) /\ hand[r].left \subseteq Nat
  BY <1>t, Types, HandFields
\* What has been assigned once stays, and so does who saved the large tier.
<1>1. ASSUME NEW r \in Request, hand' = [hand EXCEPT ![r] = hand'[r]],
             hand'[r].as = hand[r].as \/ At(r, "new"),
             hand[r].op = "tier" => hand'[r].op = "tier"
      PROVE  \A m \in Merchant : Assigned(hand, m) => Assigned(hand', m)
  <2>1. \A s \in Request : hand[s].op = "tier" => hand'[s].op = "tier" /\ hand'[s].as = hand[s].as
    BY <1>0, <1>1, MerchantFields DEF Shape
  <2>2. \A m \in Merchant : m.by # Nobody => m.by \in Request
    BY MerchantFields
  <2> QED
    BY <2>1, <2>2 DEF Assigned
<1>l. ASSUME \A s \in Request : At(s, "done") =>
                pc'[s] = "done" /\ hand'[s].op = hand[s].op /\ hand'[s].as = hand[s].as
      PROVE  LargeAssigned => LargeAssigned'
  BY <1>l DEF LargeAssigned, At
<1>2. ASSUME NEW r \in Request, Sells(r) PROVE MerchantInv'
  <2>1. /\ UNCHANGED <<products, offers>>
        /\ pc' = [pc EXCEPT ![r] = pc'[r]]
        /\ hand' = [hand EXCEPT ![r] = hand'[r]] /\ hand'[r] \in Hand /\ hand'[r].as \in Merchant
        /\ hand'[r].file = hand[r].file
        /\ hand'[r].as = hand[r].as \/ At(r, "new")
        /\ pc'[r] \in {"inserting", "loaded", "merging", "raised", "done"}
    BY <1>2, <1>t, SellsWhat, HandFields DEF Loaded, Compared, Refused, Stored, imports, catalog
  <2>2. /\ hand'[r].op = hand[r].op \/ At(r, "new")
        /\ hand'[r].op \in {"profile", "tier"} /\ (hand[r].op = "tier" => hand'[r].op = "tier")
    BY <1>0, <1>2, <1>t, SellsWhat, MerchantFields
       DEF Loaded, Compared, Refused, Stored, Shape, Selling, At
  <2>3. \A m \in Merchant : Assigned(hand, m) => Assigned(hand', m)
    BY <1>1, <2>1, <2>2
  <2>4. /\ \A s \in Request \ {r} : pc'[s] = pc[s] /\ hand'[s] = hand[s]
        /\ \A s \in Request : RowsIn(products, s)' = RowsIn(products, s)
    BY <1>0, <2>1 DEF RowsIn, RowsOf
  <2>l. LargeAssigned => LargeAssigned'
    <3>1. ~At(r, "done")
      BY <1>2, <1>t, SellsWhat DEF At, Loaded, Compared, Refused, Stored
    <3> QED
      BY <1>l, <2>4, <3>1 DEF At
  <2>5. Assigned(hand', hand'[r].as)
    <3>1. CASE hand'[r].as = hand[r].as
      BY <1>0, <1>o, <2>3, <3>1
    <3>2. CASE At(r, "new")
      <4>1. \/ hand'[r].as.tier = "standard" /\ hand'[r].as.by = Nobody
            \/ hand'[r].op = "tier" /\ hand'[r].as.by = r
        BY <1>2, <1>t, <3>2, SellsWhat DEF At, Loaded, Compared, Refused, Stored
      <4> QED
        BY <4>1, ImportAssumption DEF Assigned
    <3> QED
      BY <2>1, <3>1, <3>2
  <2>6. \A s \in Request : Assigned(hand', hand'[s].as) /\ (pc'[s] \in Selling => hand'[s].as.by = Assigner(s)')
    <3>1. pc'[r] \in Selling => hand'[r].as.by = Assigner(r)'
      BY <1>2, <1>o, <1>t, SellsWhat DEF At, Loaded, Compared, Refused, Stored, Selling, Assigner
    <3>2. \A s \in Request \ {r} : pc'[s] \in Selling => hand'[s].as.by = Assigner(s)'
      BY <1>o, <2>4 DEF Assigner
    <3> QED
      BY <1>0, <1>o, <2>3, <2>4, <2>5, <3>1, <3>2
  <2>7. \A s \in Request :
            /\ hand'[s].op = "import" /\ Len(hand'[s].file) > RowLimit["standard"]
            /\ pc'[s] \in {"product", "offer"} \/ RowsIn(products, s)' # {}
            => LargeAssigned'
    BY <1>o, <2>2, <2>l, <2>4
  <2>8. CASE Loaded(r) \/ Compared(r) \/ Refused(r)
    <3>1. UNCHANGED <<merchant, profile, assigned, stale, mixed>> /\ fresh' \subseteq fresh \cup {r}
      BY <2>8 DEF Loaded, Compared, Refused, seenBy
    <3>2. /\ r \in fresh' /\ At(r, "merging")' => hand'[r].seen = merchant
          /\ r \in fresh' /\ pc'[r] \in Selling /\ ~stale =>
                hand'[r].as.profile = IF hand'[r].op = "profile" THEN r ELSE profile
      BY <1>o, <2>8 DEF Loaded, Compared, Refused, Selling, At, seenBy
    <3>3. \A s \in fresh' : At(s, "merging")' => hand'[s].seen = merchant'
      BY <1>0, <1>o, <2>4, <3>1, <3>2 DEF At
    <3>4. ~stale' => /\ merchant'.profile = profile'
                     /\ \A s \in fresh' : pc'[s] \in Selling =>
                           hand'[s].as.profile = IF hand'[s].op = "profile" THEN s ELSE profile'
      BY <1>0, <1>o, <2>4, <3>1, <3>2
    <3>5. /\ ~mixed' => Assigned(hand', merchant') /\ merchant'.by = assigned'
          /\ merchant'.tier = "large" => LargeAssigned'
      BY <1>0, <1>o, <2>3, <2>l, <3>1
    <3> QED
      BY <1>t, <2>6, <2>7, <3>3, <3>4, <3>5 DEF MerchantInv
  <2>9. CASE Stored(r)
    <3>1. fresh' = {} /\ stale' = (stale \/ r \notin fresh)
          /\ profile' = (IF hand[r].op = "profile" THEN r ELSE profile) /\ assigned' = Assigner(r)
          /\ pc[r] \in Selling /\ pc'[r] = "done" /\ hand'[r].op = hand[r].op /\ hand'[r].as = hand[r].as
      BY <2>9 DEF Stored, SavedBy, Assigner, Selling, At
    <3>2. \/ /\ merchant' = hand[r].as /\ (~mixed' => ~mixed)
          \/ /\ At(r, "merging") /\ merchant' = Written(merchant, hand[r].seen, hand[r].as)
             /\ mixed' = (mixed \/ hand[r].seen # merchant)
      BY <2>9 DEF Stored
    <3>3. ~mixed' \/ r \in fresh => merchant' = hand[r].as
      BY <1>0, <1>o, <3>2, Mixes
    <3>4. merchant'.tier \in {merchant.tier, hand[r].as.tier}
      BY <1>0, <3>2, Mixes
    <3>5. ~mixed' => Assigned(hand', merchant') /\ merchant'.by = assigned'
      BY <1>0, <1>o, <2>3, <3>1, <3>3
    <3>6. merchant'.tier = "large" => LargeAssigned'
      <4>1. CASE merchant.tier = "large"
        BY <1>o, <2>l, <4>1
      <4>2. CASE hand[r].as.tier = "large"
        <5>1. hand[r].as.by # Nobody /\ hand[r].as.by = Assigner(r)
          BY <1>o, <3>1, <4>2 DEF Assigned
        <5> QED
          BY <3>1, <4>2, <5>1 DEF LargeAssigned, Assigner, At
      <4> QED
        BY <3>4, <4>1, <4>2
    <3>7. ~stale' => merchant'.profile = profile'
      BY <1>o, <3>1, <3>3
    <3> QED
      BY <1>t, <2>6, <2>7, <3>1, <3>5, <3>6, <3>7 DEF MerchantInv
  <2> QED
    BY <1>2, <1>t, <2>8, <2>9, SellsWhat
\* The steps that leave the merchant alone.
<1>3. ASSUME UNCHANGED <<merchant, profile, assigned, stale, mixed>>, fresh' \subseteq fresh,
             \A s \in Request : /\ hand'[s].as = hand[s].as
                                /\ At(s, "done") => pc'[s] = "done" /\ hand'[s].op = hand[s].op
                                /\ hand[s].op = "tier" => hand'[s].op = "tier"
                                /\ pc'[s] \in Selling => pc'[s] = pc[s] /\ hand'[s] = hand[s],
             \A s \in Request :
                /\ hand'[s].op = "import" /\ Len(hand'[s].file) > RowLimit["standard"]
                /\ pc'[s] \in {"product", "offer"} \/ RowsIn(products, s)' # {}
                => LargeAssigned
      PROVE  MerchantInv'
  <2>1. \A m \in Merchant : m.by # Nobody => m.by \in Request
    BY MerchantFields
  <2>2. \A m \in Merchant : Assigned(hand, m) => Assigned(hand', m)
    BY <1>3, <2>1 DEF Assigned
  <2>l. LargeAssigned => LargeAssigned'
    BY <1>3, <1>l
  <2>3. \A s \in Request : Assigned(hand', hand'[s].as) /\ (pc'[s] \in Selling => hand'[s].as.by = Assigner(s)')
    BY <1>0, <1>3, <1>o, <2>2 DEF Assigner
  <2>4. /\ ~mixed' => Assigned(hand', merchant') /\ merchant'.by = assigned'
        /\ merchant'.tier = "large" => LargeAssigned'
    BY <1>0, <1>3, <1>o, <2>2, <2>l
  <2>5. \A s \in fresh' : At(s, "merging")' => hand'[s].seen = merchant'
    BY <1>0, <1>3, <1>o DEF At, Selling
  <2>6. ~stale' => /\ merchant'.profile = profile'
                   /\ \A s \in fresh' : pc'[s] \in Selling =>
                         hand'[s].as.profile = IF hand'[s].op = "profile" THEN s ELSE profile'
    BY <1>0, <1>3, <1>o
  <2> QED
    BY <1>t, <1>3, <2>l, <2>3, <2>4, <2>5, <2>6 DEF MerchantInv
<1>4. ASSUME NEW r \in Request, Fills(r) PROVE MerchantInv'
  <2>1. /\ UNCHANGED <<merchant, seenBy>>
        /\ pc' = [pc EXCEPT ![r] = pc'[r]]
        /\ hand' = [hand EXCEPT ![r] = hand'[r]] /\ hand'[r].as = hand[r].as
    BY <1>4, <1>t, FillsWhat
  <2>2. pc'[r] \notin Selling /\ hand[r].op # "tier" /\ ~At(r, "done")
    <3>1. /\ pc[r] = "new" => hand[r].op = "none"
          /\ pc[r] \in {"admitting", "job"} \cup Telling => hand[r].op = "import"
          /\ pc[r] \in {"product", "offer"} => hand[r].op \in {"create", "import"}
      BY <1>0, MerchantFields DEF Shape, At
    <3>2. CASE Created(r) \/ Imported(r) \/ Admitted(r) \/ Saved(r) \/ Offered(r)
      BY <3>1, <3>2 DEF Created, Imported, Admitted, Saved, Offered, At, Selling
    <3>3. CASE Tells(r) \/ Answers(r)
      BY <1>0, <3>1, <3>3
         DEF Tells, SavesJob, SavesErrors, ErrorsRefused, MarksFailed, Answers, Goto, At, Selling, Telling
    <3> QED
      BY <1>4, <1>t, <3>2, <3>3, FillsWhat
  <2>3. /\ Others(r)
        /\ \A s \in Request \ {r} : pc'[s] = pc[s] /\ hand'[s] = hand[s]
    BY <1>4, <1>t, OthersStay DEF Others
  <2>4. ASSUME hand'[r].op = "import", Len(hand'[r].file) > RowLimit["standard"],
               pc'[r] \in {"product", "offer"} \/ RowsIn(products, r)' # {}
        PROVE  LargeAssigned
    <3>1. CASE Created(r) \/ Imported(r)
      <4>1. At(r, "new") /\ products' = products
        BY <3>1 DEF Created, Imported, catalog
      <4>2. RowsIn(products, r)' = {}
        BY <1>t, <4>1, NoneYet DEF RowsIn
      <4> QED
        BY <2>4, <3>1, <4>2 DEF Created, Imported
    <3>2. CASE Admitted(r)
      <4>1. RowsIn(products, r)' = RowsIn(products, r) /\ hand'[r].op = hand[r].op /\ hand'[r].file = hand[r].file
        BY <3>2 DEF Admitted, Keeps, RowsIn, RowsOf, catalog
      <4>2. CASE RowsIn(products, r) # {}
        BY <1>o, <2>4, <4>1, <4>2
      <4>3. CASE pc'[r] \in {"product", "offer"}
        <5>1. Len(hand[r].file) <= RowLimit[merchant.tier] /\ Len(hand[r].file) > RowLimit["standard"]
          BY <2>4, <3>2, <4>1, <4>3 DEF Admitted
        <5>2. merchant.tier \in Tier /\ Len(hand[r].file) \in Nat /\ \A tier \in Tier : RowLimit[tier] \in Nat
          BY <1>0, HandFields, MerchantFields, Rows, ImportAssumption
        <5>3. merchant.tier # "standard"
          BY <5>1, <5>2 DEF Tier
        <5> QED
          BY <1>o, <5>2, <5>3 DEF Tier
      <4> QED
        BY <2>4, <4>1, <4>2, <4>3
    <3>3. CASE Saved(r) \/ Offered(r)
      <4>1. pc[r] \in {"product", "offer"} /\ hand'[r].op = hand[r].op /\ hand'[r].file = hand[r].file
        BY <3>3 DEF Saved, Offered, Keeps, At
      <4> QED
        BY <1>o, <2>4, <4>1
    <3>4. CASE (Tells(r) \/ Answers(r)) /\ hand'[r] = hand[r]
      <4>1. RowsIn(products, r)' = RowsIn(products, r) /\ pc'[r] \notin {"product", "offer"}
        BY <1>0, <3>4 DEF Tells, SavesJob, SavesErrors, ErrorsRefused, MarksFailed, Answers, Goto, RowsIn, RowsOf, catalog
      <4> QED
        BY <1>o, <2>4, <3>4, <4>1
    <3> QED
      BY <1>4, <1>t, <3>1, <3>2, <3>3, <3>4, FillsWhat
  <2>5. \A s \in Request :
            /\ hand'[s].op = "import" /\ Len(hand'[s].file) > RowLimit["standard"]
            /\ pc'[s] \in {"product", "offer"} \/ RowsIn(products, s)' # {}
            => LargeAssigned
    BY <1>o, <2>3, <2>4 DEF Others
  <2>6. \A s \in Request : /\ hand'[s].as = hand[s].as
                           /\ At(s, "done") => pc'[s] = "done" /\ hand'[s].op = hand[s].op
                           /\ hand[s].op = "tier" => hand'[s].op = "tier"
                           /\ pc'[s] \in Selling => pc'[s] = pc[s] /\ hand'[s] = hand[s]
    BY <2>1, <2>2, <2>3 DEF At
  <2> QED
    BY <1>3, <2>1, <2>5, <2>6 DEF seenBy
<1>5. CASE (\E r \in Request : Dies(r)) \/ Restarts \/ UNCHANGED vars
  <2>1. /\ UNCHANGED <<merchant, profile, assigned, stale, mixed, hand, products>> /\ fresh' \subseteq fresh
        /\ \A s \in Request : pc'[s] = pc[s] \/ (pc'[s] = "died" /\ InFlight(s))
    BY <1>0, <1>5 DEF Dies, Restarts, Goto, vars, catalog, seenBy
  <2>2. \A s \in Request : RowsIn(products, s)' = RowsIn(products, s)
    BY <2>1 DEF RowsIn, RowsOf
  <2> QED
    BY <1>3, <1>o, <2>1, <2>2 DEF Selling, InFlight, Ended, At
<1> QED
  BY <1>2, <1>4, <1>5 DEF Next, Sells, Fills

\* The row carries the last assignment and the last profile, and it is large, and
\* files above the standard limit are imported, only once the large tier has been
\* assigned; see MerchantFits.
THEOREM MerchantsFit == Spec => []MerchantFits
<1>1. MerchantInv => MerchantFits
  BY DEF MerchantInv, MerchantFits, Assigned
<1> QED
  BY <1>1, MerchantInit, MerchantStep, PTL DEF Spec

-----------------------------------------------------------------------------
(* Keys *)

\* One import at a time goes on with the key, and finds no result kept under it;
\* whoever else made products under the key has kept his result or failed.
KeyInv ==
    /\ TypeInv
    /\ ~overlap /\ ~lost =>
          /\ \A r, s \in Request : Importing(r) /\ Importing(s) => r = s
          /\ \A r \in Request : Importing(r) => cached = Nobody
          /\ \A r \in Request :
                hand[r].keyed /\ RowsIn(products, r) # {} /\ pc[r] \notin {"raised", "died"} =>
                    Importing(r) \/ cached = r

LEMMA KeyInit == Init => KeyInv
<1> SUFFICES ASSUME Init PROVE KeyInv
  OBVIOUS
<1>1. \A r \in Request : hand[r] = NoHand
  BY DEF Init
<1> QED
  BY <1>1, TypeInvInit, MerchantFields DEF KeyInv, Importing

LEMMA KeyStep == KeyInv /\ [Next]_vars => KeyInv'
<1> SUFFICES ASSUME KeyInv, [Next]_vars PROVE KeyInv'
  OBVIOUS
<1>t. TypeInv /\ TypeInv'
  BY TypeInvStep DEF KeyInv
<1>o. ~overlap /\ ~lost =>
          /\ \A r, s \in Request : Importing(r) /\ Importing(s) => r = s
          /\ \A r \in Request : Importing(r) => cached = Nobody
          /\ \A r \in Request :
                hand[r].keyed /\ RowsIn(products, r) # {} /\ pc[r] \notin {"raised", "died"} =>
                    Importing(r) \/ cached = r
  BY DEF KeyInv
<1>0. /\ pc \in [Request -> Place] /\ hand \in [Request -> Hand] /\ cached \in Request \cup {Nobody}
      /\ Nobody \notin Request /\ \A r \in Request : Shape(r) /\ hand[r].keyed \in BOOLEAN
  BY <1>t, Types, HandFields, ImportAssumption DEF TypeInv, TypeOK
\* Nobody begins, and nobody is done, with the key.
<1>1. ASSUME ~overlap' /\ ~lost' => ~overlap /\ ~lost, cached' = cached,
             \A s \in Request : Importing(s)' => Importing(s),
             \A s \in Request :
                hand'[s].keyed /\ RowsIn(products, s)' # {} /\ pc'[s] \notin {"raised", "died"} =>
                    \/ Importing(s)'
                    \/ hand[s].keyed /\ RowsIn(products, s) # {} /\ pc[s] \notin {"raised", "died"} /\ ~Importing(s)
      PROVE  KeyInv'
  BY <1>1, <1>o, <1>t DEF KeyInv
<1>2. ASSUME NEW r \in Request, Sells(r) PROVE KeyInv'
  <2>1. UNCHANGED <<overlap, lost, cached>> /\ ~hand'[r].keyed /\ ~hand[r].keyed
    BY <1>0, <1>2, <1>t, SellsWhat, MerchantFields
       DEF imports, Loaded, Compared, Refused, Stored, Shape, Selling, At
  <2>2. Others(r)
    BY <1>2, <1>t, OthersStay
  <2> QED
    BY <1>1, <2>1, <2>2 DEF Others, Importing
<1>3. ASSUME NEW r \in Request, Created(r) \/ Admitted(r) \/ Saved(r) \/ Offered(r) \/ Tells(r), Fills(r)
      PROVE  KeyInv'
  <2>1. Others(r)
    BY <1>3, <1>t, OthersStay
  <2>2. /\ UNCHANGED <<overlap, lost, cached>>
        /\ ~hand'[r].keyed \/ (hand'[r].keyed = hand[r].keyed /\ hand'[r].op = hand[r].op /\ pc[r] \notin Ended)
        /\ hand[r].keyed /\ pc'[r] = "done" => hand[r].op # "import"
    <3>1. CASE Created(r) \/ Admitted(r) \/ Saved(r) \/ Offered(r)
      BY <3>1 DEF Created, Admitted, Saved, Offered, Keeps, At, Ended
    <3>2. CASE Tells(r)
      BY <1>0, <3>2 DEF Tells, SavesJob, SavesErrors, ErrorsRefused, MarksFailed, Goto, At, seller, Ended
    <3> QED
      BY <1>3, <3>1, <3>2
  <2>3. hand[r].keyed => hand[r].op = "import"
    BY <1>0 DEF Shape
  <2> QED
    BY <1>1, <2>1, <2>2, <2>3 DEF Others, Importing, Ended
<1>4. ASSUME NEW r \in Request, Imported(r), Fills(r) PROVE KeyInv'
  <2>1. Others(r)
    BY <1>4, <1>t, OthersStay
  <2>2. /\ At(r, "new") /\ hand'[r].op = "import" /\ UNCHANGED <<products, cached, lost>>
        /\ overlap' = (overlap \/ (hand'[r].keyed /\ \E s \in Request : Importing(s)))
        /\ \/ pc'[r] = "done"
           \/ pc'[r] = "admitting" /\ (hand'[r].keyed => cached = Nobody)
    BY <1>4 DEF Imported, catalog
  <2>3. RowsIn(products, r)' = {}
    BY <1>t, <2>2, NoneYet DEF RowsIn
  <2>4. ~Importing(r) /\ \A s \in Request \ {r} : Importing(s)' <=> Importing(s)
    BY <1>0, <2>1, <2>2, MerchantFields DEF Importing, Others, Shape
  <2>5. CASE Importing(r)'
    <3>1. hand'[r].keyed /\ cached = Nobody
      BY <2>2, <2>5 DEF Importing, Ended
    <3>2. ~overlap' => \A s \in Request : ~Importing(s)
      BY <2>2, <3>1
    <3> QED
      BY <1>o, <1>t, <2>1, <2>2, <2>3, <2>4, <3>1, <3>2 DEF KeyInv, Others
  <2>6. CASE ~Importing(r)'
    BY <1>1, <2>1, <2>2, <2>3, <2>4, <2>6 DEF Others
  <2> QED
    BY <2>5, <2>6
<1>5. ASSUME NEW r \in Request, Answers(r) PROVE KeyInv'
  <2>1. Others(r)
    BY <1>5, <1>t, OthersStay DEF Fills
  <2>2. /\ At(r, "answering") /\ pc'[r] = "done" /\ UNCHANGED <<products, hand, overlap, lost>>
        /\ cached' = IF hand[r].keyed THEN r ELSE cached
    BY <1>0, <1>5 DEF Answers, Goto, catalog, seller
  <2>3. hand[r].op = "import" /\ ~Importing(r)' /\ \A s \in Request \ {r} : Importing(s)' <=> Importing(s)
    BY <1>0, <2>1, <2>2 DEF Importing, Others, Shape, Telling, Ended, At
  <2>4. CASE hand[r].keyed
    <3>1. Importing(r)
      BY <2>2, <2>3, <2>4 DEF Importing, At, Ended
    <3>2. ASSUME ~overlap', ~lost' PROVE \A s \in Request \ {r} : ~Importing(s) /\ cached = Nobody
      BY <1>o, <2>2, <3>1, <3>2
    <3> QED
      BY <1>0, <1>o, <1>t, <2>1, <2>2, <2>3, <2>4, <3>2 DEF KeyInv, Others
  <2>5. CASE ~hand[r].keyed
    BY <1>1, <2>1, <2>2, <2>3, <2>5 DEF Others
  <2> QED
    BY <2>4, <2>5
<1>6. ASSUME NEW r \in Request, Dies(r) PROVE KeyInv'
  <2>1. Others(r)
    BY <1>6, <1>t, OthersStay
  <2>2. pc'[r] = "died" /\ UNCHANGED <<overlap, lost, cached>>
    BY <1>0, <1>6 DEF Dies, Goto
  <2> QED
    BY <1>1, <2>1, <2>2 DEF Others, Importing, Ended
<1>7. CASE Restarts
  BY <1>7, <1>t DEF Restarts, KeyInv
<1>8. CASE UNCHANGED vars
  BY <1>8, <1>o, <1>t DEF vars, catalog, KeyInv, Importing, RowsIn, RowsOf
<1>9. ASSUME NEW r \in Request, Fills(r) PROVE KeyInv'
  BY <1>3, <1>4, <1>5, <1>9, <1>t, FillsWhat
<1> QED
  BY <1>2, <1>6, <1>7, <1>8, <1>9 DEF Next, Sells, Fills

\* Retrying an import with its key does not make products twice; see OncePerKey.
THEOREM KeysImportOnce == Spec => []OncePerKey
<1>1. KeyInv => OncePerKey
  BY ImportAssumption DEF KeyInv, OncePerKey
<1> QED
  BY <1>1, KeyInit, KeyStep, PTL DEF Spec

=============================================================================
