--------------------------- MODULE CatalogImport ---------------------------
(***************************************************************************)
(* The merchant of one owner, and the products that come into the catalog, *)
(* one by one or from CSV files.                                           *)
(*                                                                         *)
(* A profile save and the assignment of a tier load the merchant, and save *)
(* all of it: save_merchant loads the row again and writes the columns     *)
(* that differ from it.  An import commits each product, each offer, the   *)
(* import job and the row errors separately, and keeps its result under    *)
(* the idempotency key in the memory of the process.                       *)
(*                                                                         *)
(* A request stands for the profile, the assignment (tier_assigned_by, _at *)
(* and _reason), the products and the import job it makes.  There is one   *)
(* idempotency key.  A file is the sequence of what becomes of its rows; a *)
(* file without the columns it needs has one bad row.                      *)
(***************************************************************************)
EXTENDS Integers, Sequences, FiniteSetsExt

CONSTANTS
    Request,    \* concurrent requests
    Nobody,
    Files,      \* files that are imported
    RowLimit,   \* csv_max_rows of each tier
    MaxFaults   \* bound on requests that die, errors refused, and restarts

Tier == {"standard", "large"}
\* A "long" title and an offer too "dear" for its column pass the parser; the
\* first is refused before the product is saved, the other after.  A row with
\* two errors is "worse"; what is "broken" makes the parser itself raise.
RowKind == {"good", "bad", "worse", "long", "dear", "broken"}

ASSUME ImportAssumption ==
    /\ Nobody \notin Request
    /\ Files \subseteq Seq(RowKind)
    /\ RowLimit \in [Tier -> Nat]
    /\ MaxFaults \in Nat

VARIABLES
    merchant,   \* the persisted merchant
    products,   \* persisted products: the request and the row that made it
    offers,     \* those that have an offer
    jobs,       \* the persisted import job of each request
    reported,   \* requests whose row errors are persisted
    cached,     \* the import whose result is kept under the key
    pc,         \* next step of each request
    hand,       \* what a request was asked and has in hand
    answer,     \* the import whose job was the answer to each request
    profile,    \* history: who saved the profile last
    assigned,   \* history: who assigned a tier last, if no profile was saved since
    fresh,      \* history: requests since whose load nobody else has saved
    stale,      \* history: some save overwrote one its request had not seen
    mixed,      \* history: a save wrote columns of a row that was not the one it compared
    overlap,    \* history: two imports with the key went on together
    lost,       \* history: the process restarted
    faults      \* history: requests that died, errors refused, restarts

seenBy == <<profile, assigned, fresh, stale, mixed>>
catalog == <<products, offers>>
told == <<jobs, reported, answer>>
vars == <<merchant, catalog, told, cached, pc, hand, seenBy, overlap, lost, faults>>

Merchant == [known : BOOLEAN, profile : Request \cup {Nobody}, tier : Tier,
             by : Request \cup {Nobody}]
NoMerchant == [known |-> FALSE, profile |-> Nobody, tier |-> "standard", by |-> Nobody]
Job == [status : {"none", "completed", "completed_with_errors", "failed"}, accepted : Nat,
        rejected : Nat]
NoJob == [status |-> "none", accepted |-> 0, rejected |-> 0]
NoHand == [op |-> "none", file |-> <<>>, keyed |-> FALSE, left |-> {},
           as |-> NoMerchant, seen |-> NoMerchant]

RowsOf(r) == DOMAIN hand[r].file
Product == UNION {{r} \X RowsOf(r) : r \in Request}
Ended == {"done", "raised", "died"}

TypeOK ==
    /\ merchant \in Merchant /\ (merchant.known \/ merchant = NoMerchant)
    /\ products \in SUBSET Product /\ offers \in SUBSET products
    /\ jobs \in [Request -> Job]
    /\ reported \in SUBSET {r \in Request : jobs[r].status # "none"}
    /\ cached \in {r \in Request : jobs[r].status # "none"} \cup {Nobody}
    /\ answer \in [Request -> {r \in Request : jobs[r].status # "none"} \cup {Nobody}]
    /\ pc \in [Request -> {"new", "inserting", "loaded", "merging", "admitting", "product",
                           "offer", "job", "errors", "failing", "answering"} \cup Ended]
    /\ \A r \in Request :
          /\ hand[r].op \in {"none", "profile", "tier", "create", "import"}
          /\ hand[r].file \in Files \cup {<<k>> : k \in RowKind} \cup {<<>>}
          /\ hand[r].keyed \in BOOLEAN /\ hand[r].left \in SUBSET RowsOf(r)
          /\ hand[r].as \in Merchant /\ hand[r].seen \in Merchant
    /\ {profile, assigned} \subseteq Request \cup {Nobody} /\ fresh \in SUBSET Request
    /\ {stale, mixed, overlap, lost} \subseteq BOOLEAN
    /\ faults \in 0..MaxFaults

\* An owner without a profile, and one with a profile.
Init ==
    /\ \E known \in BOOLEAN : merchant = [NoMerchant EXCEPT !.known = known]
    /\ products = {} /\ offers = {}
    /\ jobs = [r \in Request |-> NoJob]
    /\ reported = {}
    /\ cached = Nobody
    /\ pc = [r \in Request |-> "new"]
    /\ hand = [r \in Request |-> NoHand]
    /\ answer = [r \in Request |-> Nobody]
    /\ profile = Nobody /\ assigned = Nobody
    /\ fresh = {} /\ stale = FALSE /\ mixed = FALSE
    /\ overlap = FALSE /\ lost = FALSE
    /\ faults = 0

At(r, step) == pc[r] = step
Goto(r, step) == pc' = [pc EXCEPT ![r] = step]

-----------------------------------------------------------------------------
(* The merchant *)

imports == <<catalog, told, cached, overlap, lost, faults>>

\* Mutant: the tier and its assignment are kept.
SavesProfileKeepingTier(r) ==
    /\ At(r, "new")
    /\ hand' = [hand EXCEPT ![r].op = "profile",
                            ![r].as = [merchant EXCEPT !.known = TRUE, !.profile = r]]
    /\ fresh' = fresh \cup {r}
    /\ Goto(r, IF merchant.known THEN "loaded" ELSE "inserting")
    /\ UNCHANGED <<merchant, imports, profile, assigned, stale, mixed>>

\* The new profile keeps the id of the merchant, and has no tier assigned.
SavesProfile(r) ==
    /\ At(r, "new")
    /\ hand' = [hand EXCEPT ![r].op = "profile",
                            ![r].as = [NoMerchant EXCEPT !.known = TRUE, !.profile = r]]
    /\ fresh' = fresh \cup {r}
    /\ Goto(r, IF merchant.known THEN "loaded" ELSE "inserting")
    /\ UNCHANGED <<merchant, imports, profile, assigned, stale, mixed>>

AssignsTier(r, tier) ==
    /\ At(r, "new") /\ merchant.known
    /\ hand' = [hand EXCEPT ![r].op = "tier",
                            ![r].as = [merchant EXCEPT !.tier = tier, !.by = r]]
    /\ fresh' = fresh \cup {r}
    /\ Goto(r, "loaded")
    /\ UNCHANGED <<merchant, imports, profile, assigned, stale, mixed>>

SavedBy(r) ==
    /\ profile' = IF hand[r].op = "profile" THEN r ELSE profile
    /\ assigned' = IF hand[r].op = "tier" THEN r ELSE Nobody
    /\ stale' = (stale \/ r \notin fresh)
    /\ fresh' = {}

\* An owner has one merchant: the second insert is refused.
Inserts(r) ==
    /\ At(r, "inserting")
    /\ IF merchant.known
       THEN Goto(r, "raised") /\ UNCHANGED <<merchant, seenBy>>
       ELSE Goto(r, "done") /\ merchant' = hand[r].as /\ SavedBy(r) /\ mixed' = mixed
    /\ UNCHANGED <<imports, hand>>

Merges(r) ==
    /\ At(r, "loaded")
    /\ hand' = [hand EXCEPT ![r].seen = merchant]
    /\ Goto(r, "merging")
    /\ UNCHANGED <<merchant, imports, seenBy>>

\* Of the columns of a row, those are written that differ from what was loaded.
Written(row, old, new) ==
    [c \in DOMAIN row |-> IF new[c] = old[c] THEN row[c] ELSE new[c]]

Commits(r) ==
    LET h == hand[r] IN
    /\ At(r, "merging")
    /\ merchant' = Written(merchant, h.seen, h.as)
    /\ mixed' = (mixed \/ h.seen # merchant)
    /\ SavedBy(r)
    /\ hand' = [hand EXCEPT ![r].seen = NoMerchant]
    /\ Goto(r, "done")
    /\ UNCHANGED imports

-----------------------------------------------------------------------------
(* Products *)

\* Rows the parser accepts, and the errors it finds in the others.
Accepted(file) == {n \in DOMAIN file : file[n] \notin {"bad", "worse"}}
Errors(file) ==
    Cardinality({n \in DOMAIN file : file[n] \in {"bad", "worse"}})
        + Cardinality({n \in DOMAIN file : file[n] = "worse"})

seller == <<merchant, seenBy, lost>>

\* A single product: its title is checked before, its price is not.
Creates(r, kind) ==
    /\ At(r, "new") /\ merchant.known
    /\ hand' = [hand EXCEPT ![r].op = "create", ![r].file = <<kind>>, ![r].left = {1}]
    /\ Goto(r, "product")
    /\ UNCHANGED <<seller, catalog, told, cached, overlap, faults>>

Importing(r) == hand[r].op = "import" /\ hand[r].keyed /\ pc[r] \notin Ended

\* Mutant: the cache is not asked.
ImportsUncached(r, file, keyed) ==
    /\ At(r, "new")
    /\ hand' = [hand EXCEPT ![r].op = "import", ![r].file = file, ![r].keyed = keyed]
    /\ Goto(r, "admitting")
    /\ overlap' = (overlap \/ (keyed /\ \E s \in Request : Importing(s)))
    /\ UNCHANGED <<seller, catalog, told, cached, faults>>

\* A result that is kept under the key is the answer, whatever the file.
Imports(r, file, keyed) ==
    LET hit == keyed /\ cached # Nobody IN
    /\ At(r, "new")
    /\ hand' = [hand EXCEPT ![r].op = "import", ![r].file = file, ![r].keyed = keyed]
    /\ Goto(r, IF hit THEN "done" ELSE "admitting")
    /\ answer' = IF hit THEN [answer EXCEPT ![r] = cached] ELSE answer
    /\ overlap' = (overlap \/ (keyed /\ \E s \in Request : Importing(s)))
    /\ UNCHANGED <<seller, catalog, jobs, reported, cached, faults>>

\* The owner's profile, the tier's limit and the parser are asked first.
Admits(r) ==
    LET file == hand[r].file
        admitted == /\ merchant.known
                    /\ Len(file) <= RowLimit[merchant.tier]
                    /\ \A n \in DOMAIN file : file[n] # "broken"
        rows == IF admitted THEN Accepted(file) ELSE {}
    IN
    /\ At(r, "admitting")
    /\ hand' = [hand EXCEPT ![r].left = rows]
    /\ Goto(r, IF ~admitted THEN "raised" ELSE IF rows = {} THEN "job" ELSE "product")
    /\ UNCHANGED <<seller, catalog, told, cached, overlap, faults>>

\* Mutant: the product is not saved.
SkipsProduct(r) ==
    /\ At(r, "product")
    /\ Goto(r, "offer")
    /\ UNCHANGED <<seller, catalog, told, cached, hand, overlap, faults>>

SavesProduct(r) ==
    LET n == Min(hand[r].left)
        refused == hand[r].file[n] = "long"
    IN
    /\ At(r, "product")
    /\ products' = IF refused THEN products ELSE products \cup {<<r, n>>}
    /\ Goto(r, IF refused THEN "raised" ELSE "offer")
    /\ UNCHANGED <<seller, offers, told, cached, hand, overlap, faults>>

\* The rows that are left follow.
SavesOffer(r) ==
    LET n == Min(hand[r].left)
        left == hand[r].left \ {n}
    IN
    /\ At(r, "offer")
    /\ IF hand[r].file[n] = "dear"
       THEN Goto(r, "raised") /\ UNCHANGED <<offers, hand>>
       ELSE /\ offers' = offers \cup {<<r, n>>}
            /\ hand' = [hand EXCEPT ![r].left = left]
            /\ Goto(r, IF left # {} THEN "product"
                       ELSE IF hand[r].op = "import" THEN "job" ELSE "done")
    /\ UNCHANGED <<seller, products, told, cached, overlap, faults>>

-----------------------------------------------------------------------------
(* The import job *)

Result(file) ==
    LET accepted == Cardinality(Accepted(file))
        rejected == Errors(file)
    IN
    [status |-> IF rejected = 0 THEN "completed"
                ELSE IF accepted > 0 THEN "completed_with_errors" ELSE "failed",
     accepted |-> accepted, rejected |-> rejected]

SavesJob(r) ==
    /\ At(r, "job")
    /\ jobs' = [jobs EXCEPT ![r] = Result(hand[r].file)]
    /\ Goto(r, IF jobs'[r].rejected > 0 THEN "errors" ELSE "answering")
    /\ UNCHANGED <<seller, catalog, reported, answer, cached, hand, overlap, faults>>

SavesErrors(r) ==
    /\ At(r, "errors")
    /\ reported' = reported \cup {r}
    /\ Goto(r, "answering")
    /\ UNCHANGED <<seller, catalog, jobs, answer, cached, hand, overlap, faults>>

\* The commit of the row errors raises, which is caught.
ErrorsRefused(r) ==
    /\ faults < MaxFaults
    /\ At(r, "errors")
    /\ faults' = faults + 1
    /\ Goto(r, "failing")
    /\ UNCHANGED <<seller, catalog, told, cached, hand, overlap>>

\* Mutant: the job stays as it is.
SwallowsRefusal(r) ==
    /\ At(r, "failing")
    /\ Goto(r, "answering")
    /\ UNCHANGED <<seller, catalog, told, cached, hand, overlap, faults>>

MarksFailed(r) ==
    /\ At(r, "failing")
    /\ jobs' = [jobs EXCEPT ![r].status = "failed"]
    /\ Goto(r, "answering")
    /\ UNCHANGED <<seller, catalog, reported, answer, cached, hand, overlap, faults>>

\* What the import returns is kept under its key.
Answers(r) ==
    /\ At(r, "answering")
    /\ cached' = IF hand[r].keyed THEN r ELSE cached
    /\ answer' = [answer EXCEPT ![r] = r]
    /\ Goto(r, "done")
    /\ UNCHANGED <<seller, catalog, jobs, reported, hand, overlap, faults>>

-----------------------------------------------------------------------------
InFlight(r) == ~At(r, "new") /\ pc[r] \notin Ended

\* The request dies, or a commit raises that nobody catches.
Dies(r) ==
    /\ faults < MaxFaults
    /\ InFlight(r)
    /\ faults' = faults + 1
    /\ fresh' = fresh \ {r}
    /\ Goto(r, "died")
    /\ UNCHANGED <<merchant, catalog, told, cached, hand, profile, assigned, stale, mixed, overlap, lost>>

\* The process dies with its requests and its memory.
Restarts ==
    /\ faults < MaxFaults
    /\ cached # Nobody \/ \E r \in Request : InFlight(r)
    /\ faults' = faults + 1
    /\ lost' = TRUE
    /\ cached' = Nobody
    /\ fresh' = {}
    /\ pc' = [r \in Request |-> IF InFlight(r) THEN "died" ELSE pc[r]]
    /\ UNCHANGED <<merchant, catalog, told, hand, profile, assigned, stale, mixed, overlap>>

Next ==
    \/ \E r \in Request :
          \/ SavesProfile(r) \/ (\E tier \in Tier : AssignsTier(r, tier))
          \/ Inserts(r) \/ Merges(r) \/ Commits(r)
          \/ \E kind \in {"good", "dear"} : Creates(r, kind)
          \/ \E file \in Files, keyed \in BOOLEAN : Imports(r, file, keyed)
          \/ Admits(r) \/ SavesProduct(r) \/ SavesOffer(r)
          \/ SavesJob(r) \/ SavesErrors(r) \/ ErrorsRefused(r) \/ MarksFailed(r) \/ Answers(r)
          \/ Dies(r)
    \/ Restarts

Spec == Init /\ [][Next]_vars

-----------------------------------------------------------------------------
RowsIn(set, r) == {n \in RowsOf(r) : <<r, n>> \in set}

\* An administrator's assignment of the large tier has been saved.
LargeAssigned ==
    \E s \in Request : At(s, "done") /\ hand[s].op = "tier" /\ hand[s].as.tier = "large"

\* The row carries the tier and the assignment that the last save leaves, also
\* when it had not seen the row it overwrites: those of an assignment, and after
\* a profile save none, unless two saves wrote at once.  The profile is the one
\* saved last, unless somebody saved over what he had not seen.  And however
\* saves mix, die or race with imports, the merchant is large, and a file above
\* the standard limit in the catalog, only after an assignment of the large tier
\* was saved.
MerchantFits ==
    /\ ~mixed => /\ merchant.by = assigned
                 /\ merchant.tier = IF assigned = Nobody THEN "standard"
                                    ELSE hand[assigned].as.tier
    /\ ~stale => merchant.profile = profile
    /\ merchant.tier = "large" => LargeAssigned
    /\ \A r \in Request :
          hand[r].op = "import" /\ Len(hand[r].file) > RowLimit["standard"] =>
              RowsIn(products, r) = {} \/ LargeAssigned

\* tests/test_business_catalog_failure_injection.py:107: an import job tells what
\* became of the file.  All it counts as accepted is in the catalog with its
\* offers; it counts errors that cannot be read only if it says that it failed,
\* or its request is at it or died; and an import that was answered has a job.
ImportIsTold ==
    \A r \in Request :
        /\ jobs[r].status # "none" =>
              /\ RowsIn(offers, r) = Accepted(hand[r].file)
              /\ jobs[r].accepted = Cardinality(RowsIn(offers, r))
        /\ jobs[r].rejected > 0 /\ r \notin reported =>
              jobs[r].status = "failed" \/ pc[r] \in {"errors", "failing", "died"}
        /\ hand[r].op = "import" /\ At(r, "done") =>
              /\ answer[r] # Nobody
              /\ hand[r].keyed \/ answer[r] = r
        /\ At(r, "done") => RowsIn(products, r) = RowsIn(offers, r)

\* docs/superpowers/plans/2026-06-28-b2b-product-catalog-implementation-plan.md:669,
\* "retrying CSV import with the same idempotency key does not duplicate accepted
\* products": unless an import stops after it saved some of them, two go on
\* together, or the process restarts.
OncePerKey ==
    \A r, s \in Request :
        hand[r].keyed /\ hand[s].keyed /\ RowsIn(products, r) # {} /\ RowsIn(products, s) # {} =>
            \/ r = s
            \/ {pc[r], pc[s]} \cap {"raised", "died"} # {}
            \/ overlap \/ lost

-----------------------------------------------------------------------------
(* What the plan asks of merchants and the code does not do *)

\* docs/superpowers/plans/2026-06-28-b2b-product-catalog-implementation-plan.md:663,
\* "no automatic promotion/demotion without admin actor id and audit-ready
\* reason": a save that changes the tier names who assigned it.
TierNeedsAdministrator ==
    [][merchant'.tier # merchant.tier => merchant'.by # Nobody]_merchant
=============================================================================
