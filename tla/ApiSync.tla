------------------------------- MODULE ApiSync ------------------------------
(***************************************************************************)
(* The API pipeline: src/src/pipeline.py run_api_job, the paging of        *)
(* src/src/ingest/api_source.py and the watermark in api_checkpoint, run   *)
(* by several workers (the timer, a manual CLI run) against one vendor.    *)
(*                                                                         *)
(* The vendor is external, modelled from tests/mock_api/server.py: a list  *)
(* of students in a fixed order, of which a request gets one page of those *)
(* with updated_at > updated_since, counted by offset at the time of the   *)
(* request.                                                                *)
(***************************************************************************)
EXTENDS IngestRun, FiniteSetsExt

CONSTANTS
    Workers,    \* concurrent invocations of run_api_job
    Ids,        \* students, as naturals: the order of the vendor's list
    PageSize,   \* API_PAGE_SIZE
    MaxClock,   \* bound: how often the vendor changes its data
    MaxFaults,  \* bound: crashes, lost connections and transient failures
    Skew,       \* how far ahead of now() validate.py accepts updated_at
    Ahead,      \* how far ahead of its change the vendor may date a record
    Drift       \* may the vendor's data change while a sync pages through it?

ASSUME IdsAssumption == Ids \subseteq Nat /\ IsFiniteSet(Ids)
ASSUME ApiBoundsAssumption ==
    /\ PageSize \in Nat \ {0} /\ MaxClock \in Nat /\ MaxFaults \in Nat
    /\ Skew \in Nat /\ Ahead \subseteq Nat /\ Drift \in BOOLEAN

\* at = 0: the vendor has no such student yet.  ok: the other fields are valid.
Record == [id : Ids, at : Nat, ok : BOOLEAN]

VARIABLES
    vendor,      \* [Ids -> Record]: the vendor's current list
    clock,       \* the time, advanced by every change of the vendor
    stored,      \* [Ids -> updated_at in the students table, 0 if absent]
    rejected,    \* the records in quarantine files
    watermark,   \* api_checkpoint.watermark, 0 while there is no row
    faults,      \* faults spent so far
    pc,          \* where each worker is in run_api_job
    since,       \* the watermark it read
    run,         \* its row of ingest_run; a fresh correlation id means no sync
                 \* ever reads the row of another one
    batch,       \* the page it is on
    more,        \* did that page's response name a next page?
    good,        \* the records of the page that passed validation
    seen         \* summary.max_updated_at, 0 if nothing was persisted

shared   == <<stored, rejected, watermark>>
local    == <<pc, since, run, batch, more, good, seen>>
external == <<vendor, clock>>
vars     == <<shared, local, external, faults>>

Phases == {"idle", "claim", "fetch", "fetched", "persist", "advance", "complete",
           "recover"}

TypeOK ==
    /\ vendor \in [Ids -> Record] /\ \A i \in Ids : vendor[i].id = i
    /\ clock \in 0 .. MaxClock
    /\ stored \in [Ids -> Nat]
    /\ rejected \in SUBSET Record
    /\ watermark \in Nat
    /\ faults \in 0 .. MaxFaults
    /\ pc \in [Workers -> Phases]
    /\ since \in [Workers -> Nat]
    /\ run \in [Workers -> Run]
    /\ batch \in [Workers -> SUBSET Record]
    /\ more \in [Workers -> BOOLEAN]
    /\ good \in [Workers -> SUBSET Record]
    /\ seen \in [Workers -> Nat]

Init ==
    /\ vendor = [i \in Ids |-> [id |-> i, at |-> 0, ok |-> TRUE]]
    /\ clock = 0
    /\ stored = [i \in Ids |-> 0]
    /\ rejected = {}
    /\ watermark = 0
    /\ faults = 0
    /\ pc = [w \in Workers |-> "idle"]
    /\ since = [w \in Workers |-> 0]
    /\ run = [w \in Workers |-> AbsentRun]
    /\ batch = [w \in Workers |-> {}]
    /\ more = [w \in Workers |-> FALSE]
    /\ good = [w \in Workers |-> {}]
    /\ seen = [w \in Workers |-> 0]

Goto(w, phase) == pc' = [pc EXCEPT ![w] = phase]

-----------------------------------------------------------------------------
(* The vendor. *)

\* The records a request for this worker's updated_since selects.
Listed(w) == {r \in {vendor[i] : i \in Ids} : r.at > since[w]}

\* Position of a record among those selected, from 0.
Offset(r, S) == Cardinality({s \in S : s.id < r.id})

Page(w, n) == {r \in Listed(w) : Offset(r, Listed(w)) \div PageSize = n - 1}

\* A worker has requested a page and has a further one to request.
Paging(w) == pc[w] \in {"fetch", "fetched", "persist"} /\ more[w]

\* Some students are added or changed at one instant, and all of them are dated
\* with that instant, or ahead of it.
VendorUpdates ==
    /\ clock < MaxClock
    /\ Drift \/ \A w \in Workers : ~ Paging(w)
    /\ clock' = clock + 1
    /\ \E S \in SUBSET Ids \ {{}}, d \in Ahead, ok \in BOOLEAN :
         vendor' = [i \in Ids |->
                      IF i \in S THEN [id |-> i, at |-> clock + 1 + d, ok |-> ok]
                      ELSE vendor[i]]
    /\ UNCHANGED <<shared, local, faults>>

-----------------------------------------------------------------------------
(* One sync. *)

\* get_watermark, before the claim and outside its transaction.
ReadWatermark(w) ==
    /\ pc[w] = "idle"
    /\ since' = [since EXCEPT ![w] = watermark]
    /\ Goto(w, "claim")
    /\ UNCHANGED <<shared, external, faults, run, batch, more, good, seen>>

\* claim_run inserts a row: no other sync has this correlation id.
ClaimRun(w) ==
    /\ pc[w] = "claim"
    /\ run' = [run EXCEPT ![w] = NewRun]
    /\ seen' = [seen EXCEPT ![w] = 0]
    /\ Goto(w, "fetch")
    /\ UNCHANGED <<shared, external, faults, since, batch, more, good>>

\* (Mutant of FetchPage: next_page is not followed.)
FetchFirstPage(w) ==
    LET page == Page(w, run[w].last + 1)
    IN  /\ pc[w] = "fetch"
        /\ batch' = [batch EXCEPT ![w] = page]
        /\ more' = [more EXCEPT ![w] = FALSE]
        /\ Goto(w, IF page = {} THEN "advance" ELSE "fetched")
        /\ UNCHANGED <<shared, external, faults, since, run, good, seen>>

\* fetch_chunks requests the next page; next_page in the same response says
\* whether there is another one, and a page without records is not yielded.
FetchPage(w) ==
    LET n == run[w].last + 1
        page == Page(w, n)
    IN  /\ pc[w] = "fetch"
        /\ batch' = [batch EXCEPT ![w] = page]
        /\ more' = [more EXCEPT ![w] = Cardinality(Listed(w)) > n * PageSize]
        /\ Goto(w, IF page = {} THEN "advance" ELSE "fetched")
        /\ UNCHANGED <<shared, external, faults, since, run, good, seen>>

\* validate_chunk judges the page and the rejects are written to quarantine.
QuarantinePage(w) ==
    LET valid == {r \in batch[w] : r.ok /\ r.at <= clock + Skew}
    IN  /\ pc[w] = "fetched"
        /\ good' = [good EXCEPT ![w] = valid]
        /\ rejected' = rejected \cup (batch[w] \ valid)
        /\ Goto(w, "persist")
        /\ UNCHANGED <<stored, watermark, external, faults, since, run, batch,
                       more, seen>>

\* The merge (StudentStore) keeps the newer updated_at.
Merge(records) ==
    stored' = [i \in Ids |->
                 Max({stored[i]} \cup {r.at : r \in {s \in records : s.id = i}})]

\* _persist_chunk commits the page and its progress; summary.observe follows.
PersistPage(w) ==
    /\ pc[w] = "persist"
    /\ Merge(good[w])
    /\ run' = [run EXCEPT ![w] = Progressed(@, @.last + 1, Cardinality(batch[w]),
                                            Cardinality(good[w]))]
    /\ seen' = [seen EXCEPT ![w] = Max({@} \cup {r.at : r \in good[w]})]
    /\ batch' = [batch EXCEPT ![w] = {}]
    /\ good' = [good EXCEPT ![w] = {}]
    /\ Goto(w, IF more[w] THEN "fetch" ELSE "advance")
    /\ UNCHANGED <<rejected, watermark, external, faults, since, more>>

\* (Mutant of AdvanceWatermark: assigned instead of GREATEST.)
AssignWatermark(w) ==
    /\ pc[w] = "advance"
    /\ watermark' = IF seen[w] = 0 THEN watermark ELSE seen[w]
    /\ Goto(w, "complete")
    /\ UNCHANGED <<stored, rejected, external, faults, since, run, batch, more,
                   good, seen>>

\* _advance_watermark, skipped when no valid record was seen.
AdvanceWatermark(w) ==
    /\ pc[w] = "advance"
    /\ watermark' = IF seen[w] = 0 THEN watermark ELSE Max({watermark, seen[w]})
    /\ Goto(w, "complete")
    /\ UNCHANGED <<stored, rejected, external, faults, since, run, batch, more,
                   good, seen>>

\* The sync ends: the locals are dead.
EndSync(w) ==
    /\ Goto(w, "idle")
    /\ batch' = [batch EXCEPT ![w] = {}]
    /\ good' = [good EXCEPT ![w] = {}]
    /\ more' = [more EXCEPT ![w] = FALSE]

CompleteRun(w) ==
    /\ pc[w] = "complete"
    /\ run' = [run EXCEPT ![w] = Completed(@)]
    /\ EndSync(w)
    /\ UNCHANGED <<shared, external, faults, since, seen>>

\* (Mutant of FailRun: the watermark advances to what was persisted so far.)
FailRunAdvancing(w) ==
    /\ pc[w] = "recover"
    /\ watermark' = Max({watermark, seen[w]})
    /\ run' = [run EXCEPT ![w] = Failed(@)]
    /\ EndSync(w)
    /\ UNCHANGED <<stored, rejected, external, faults, since, seen>>

\* The except clause: fail_run, and the exception is raised again.
FailRun(w) ==
    /\ pc[w] = "recover"
    /\ run' = [run EXCEPT ![w] = Failed(@)]
    /\ EndSync(w)
    /\ UNCHANGED <<shared, external, faults, since, seen>>

-----------------------------------------------------------------------------
(* Faults, within the budget MaxFaults. *)

\* An exception inside the try block: the API gives up after its retries, a
\* page is malformed, storage or a transaction fails.
Interrupt(w) ==
    /\ pc[w] \in {"fetch", "fetched", "persist", "advance", "complete"}
    /\ faults < MaxFaults
    /\ faults' = faults + 1
    /\ Goto(w, "recover")
    /\ UNCHANGED <<shared, external, since, run, batch, more, good, seen>>

\* The process is killed or loses its connection: the row stays running, and no
\* later sync looks at it.
Die(w) ==
    /\ pc[w] # "idle"
    /\ faults < MaxFaults
    /\ faults' = faults + 1
    /\ EndSync(w)
    /\ UNCHANGED <<shared, external, since, run, seen>>

-----------------------------------------------------------------------------
Work(w) == ReadWatermark(w) \/ ClaimRun(w) \/ FetchPage(w) \/ QuarantinePage(w)
           \/ PersistPage(w) \/ AdvanceWatermark(w) \/ CompleteRun(w) \/ FailRun(w)

Next == VendorUpdates \/ \E w \in Workers : Work(w) \/ Interrupt(w) \/ Die(w)

Spec == Init /\ [][Next]_vars

\* The timer keeps firing and an invocation keeps running until it ends.
FairSpec == Spec /\ \A w \in Workers : WF_vars(Work(w))

-----------------------------------------------------------------------------
(* Properties. *)

\* The vendor's current record of this student has reached the table or, as a
\* reject, a quarantine file.
Ingested(i) == stored[i] >= vendor[i].at \/ vendor[i] \in rejected

\* What the next sync will not ask for again has been ingested, whatever
\* crashed or overlapped before (src/docs/ARCHITECTURE.md:165, "Nothing is skipped
\* because the watermark advances only after every page succeeds").
NothingSkipped == \A i \in Ids : vendor[i].at <= watermark => Ingested(i)

\* A completed sync is never repeated: what it persisted stays behind the
\* watermark, also when a slower sync that read less completes after it
\* (src/src/persist.py:354, "so a late run cannot rewind it").
CompletedSyncsNotRepeated ==
    \A w \in Workers : run[w].status = "completed" => seen[w] <= watermark

\* Why they hold when records are dated with the change itself and stay as they
\* are while a sync pages through them: how far each sync has got.  What it has
\* not ingested is on the page at hand, on later pages, or newer than all it
\* has seen.
Old(w, i)   == vendor[i].at <= since[w]
Later(w, i, n) == Offset(vendor[i], Listed(w)) >= n * PageSize
Newer(w, i) == vendor[i].at > seen[w] /\ \A r \in batch[w] : vendor[i].at > r.at
Knows(w) ==
    LET in(phases) == pc[w] \in phases
        rest(i) == ~ Old(w, i) /\ ~ Ingested(i)
    IN  /\ since[w] <= watermark /\ seen[w] <= clock
        /\ IsFiniteSet(batch[w]) /\ \A r \in batch[w] : r.at <= clock
        /\ good[w] \subseteq batch[w]
        /\ in({"idle", "claim"}) => ~ more[w] /\ batch[w] = {} /\ good[w] = {}
        /\ in({"fetch"}) =>
             /\ run[w].last = 0 \/ more[w]
             /\ batch[w] = {} /\ good[w] = {}
             /\ \A i \in Ids : rest(i) => Later(w, i, run[w].last)
        /\ in({"fetched", "persist"}) =>
             \A i \in Ids : rest(i) =>
                 \/ vendor[i] \in batch[w]
                 \/ IF more[w] THEN Later(w, i, run[w].last + 1) ELSE Newer(w, i)
        /\ in({"persist"}) => batch[w] \ good[w] \subseteq rejected
        /\ in({"advance"}) => \A i \in Ids : rest(i) => vendor[i].at > seen[w]
        /\ in({"complete"}) => seen[w] <= watermark
        /\ run[w].status = "completed" => in({"idle", "claim"})

Synced ==
    /\ TypeOK
    /\ \A i \in Ids : vendor[i].at <= clock
    /\ watermark <= clock
    /\ \A w \in Workers : Knows(w)
    /\ NothingSkipped /\ CompletedSyncsNotRepeated

\* Once the vendor is quiet, everything it has arrives in the end, although any
\* page may fail and syncs die with their row left running.
CatchesUp == <>[](\A i \in Ids : Ingested(i))
=============================================================================
