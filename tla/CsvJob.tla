------------------------------ MODULE CsvJob -------------------------------
(***************************************************************************)
(* The CSV pipeline: src/src/pipeline.py run_csv_job and everything it     *)
(* calls, run by several workers at once (timer invocations, a manual CLI  *)
(* run) over one landing container, one PostgreSQL database and one        *)
(* quarantine container on the Azure Blob backend.                         *)
(*                                                                         *)
(* Durable state: the ingest_run ledger, the rows committed to students,   *)
(* the quarantine files and the landing and processed containers.          *)
(* Volatile state, lost when a worker dies: everything indexed by Workers. *)
(*                                                                         *)
(* A file is the sequence of the classes of its data rows:                 *)
(*   "good"        passes validate.py and transform.py                     *)
(*   "bad"         is rejected whenever it is looked at                    *)
(*   "early"       is dated in the future: rejected until the clock has    *)
(*                 passed                                                  *)
(*   "rival"       passes until then, but is older than an early row of    *)
(*                 the same student in its chunk, and a duplicate later    *)
(*   "unreadable"  makes the reader or the validation raise: bytes that    *)
(*                 are no UTF-8, csv.Error, a date of year 1               *)
(*   "unstorable"  passes, but makes the merge raise DataError: a NUL      *)
(***************************************************************************)
EXTENDS IngestRun, Sequences, FiniteSets

CONSTANTS
    Workers,     \* concurrent invocations of run_csv_job
    Names,       \* CSV object names, as naturals: list_objects sorts by name
    MaxVersion,  \* MaxVersion[name]: bound, how often it is written to landing
    Sizes,       \* the chunk_size settings invocations may run with
    Content,     \* Content[unit]: the rows of that object version, as they
                 \* are judged in chunks of that size
    Overlap,     \* may a lease run out while its worker is still alive?
    MaxFaults,   \* bound: crashes, lost connections and transient failures
    NoUnit       \* stands for "no unit of work"

Versions   == UNION {1 .. MaxVersion[n] : n \in Names}
RowClasses == {"good", "bad", "early", "rival", "unreadable", "unstorable"}

ASSUME NamesAssumption == Names \subseteq Nat
ASSUME SizesAssumption == Sizes \subseteq Nat \ {0}
ASSUME BoundsAssumption ==
    MaxVersion \in [Names -> Nat] /\ MaxFaults \in Nat /\ Overlap \in BOOLEAN

\* The identity of a run: the object, its ETag, and the chunk size, since
\* csv_source_version appends the chunk size to the blob version.
Units == [name : Names, version : Versions, size : Sizes]
ASSUME NoUnitAssumption  == NoUnit \notin Units
ASSUME ContentAssumption == Content \in [Units -> Seq(RowClasses)]

Rows(u)          == DOMAIN Content[u]
Class(u, r)      == Content[u][r]
ChunkOf(r, size) == ((r - 1) \div size) + 1
Chunk(u, k)      == {r \in Rows(u) : ChunkOf(r, u.size) = k}
UpTo(u, k)       == {r \in Rows(u) : ChunkOf(r, u.size) <= k}

\* An object has the same rows in chunks of any size, and a rival has its rival.
ASSUME RowsAssumption ==
    /\ \A u, v \in Units : u.name = v.name /\ u.version = v.version => Rows(u) = Rows(v)
    /\ \A u \in Units : \A r \in Rows(u) : Class(u, r) = "rival" =>
           \E e \in Chunk(u, ChunkOf(r, u.size)) : Class(u, e) = "early"

VARIABLES
    ledger,      \* [Units -> Run]: the ingest_run table
    loaded,      \* [Units -> set of rows]: rows in a committed merge of the run
    quarantine,  \* [Units -> set of rows]: rows in the run's quarantine files
    landing,     \* [Names -> version in the landing container, 0 if absent]
    processed,   \* [Names -> version in the processed container, 0 if absent]
    written,     \* [Names -> versions put into landing so far]
    late,        \* has the clock passed the date of the early rows?
    faults,      \* faults spent so far
    pc,          \* where each worker is in run_csv_job
    todo,        \* the rest of each worker's list of objects, as units
    unit,        \* the unit each worker is on
    next,        \* the index of the next chunk it yields
    good         \* the rows of that chunk it is about to merge

durable == <<ledger, loaded, quarantine, landing, processed>>
local   == <<pc, todo, unit, next, good>>
world   == <<written, late, faults>>
vars    == <<durable, local, world>>

Phases == {"idle", "next", "examine", "reclaim", "open", "read", "validated",
           "persist", "recover", "archive", "copy", "delete"}

\* Between a successful claim and the statement that ends the run.
Holding == {"open", "read", "validated", "persist", "recover"}

\* Inside _archive: the run is completed already.
Archiving == {"archive", "copy", "delete"}

Holds(w, u) == pc[w] \in Holding /\ unit[w] = u

TypeOK ==
    /\ ledger \in [Units -> Run]
    /\ loaded \in [Units -> SUBSET Nat]
    /\ quarantine \in [Units -> SUBSET Nat]
    /\ landing \in [Names -> Versions \cup {0}]
    /\ processed \in [Names -> Versions \cup {0}]
    /\ written \in [Names -> Versions \cup {0}]
    /\ late \in BOOLEAN
    /\ faults \in 0 .. MaxFaults
    /\ pc \in [Workers -> Phases]
    /\ todo \in [Workers -> SUBSET Units]
    /\ unit \in [Workers -> Units \cup {NoUnit}]
    /\ next \in [Workers -> Nat \ {0}]
    /\ good \in [Workers -> SUBSET Nat]
    /\ \A w \in Workers : IsFiniteSet(good[w])
    /\ \A w \in Workers : pc[w] \notin {"idle", "next"} => unit[w] \in Units

Init ==
    /\ ledger = [u \in Units |-> AbsentRun]
    /\ loaded = [u \in Units |-> {}]
    /\ quarantine = [u \in Units |-> {}]
    /\ landing = [n \in Names |-> 0]
    /\ processed = [n \in Names |-> 0]
    /\ written = [n \in Names |-> 0]
    /\ late = FALSE
    /\ faults = 0
    /\ pc = [w \in Workers |-> "idle"]
    /\ todo = [w \in Workers |-> {}]
    /\ unit = [w \in Workers |-> NoUnit]
    /\ next = [w \in Workers |-> 1]
    /\ good = [w \in Workers |-> {}]

-----------------------------------------------------------------------------
(* Moves of a worker's program counter. *)

\* Go on within the iteration for the current object.
Goto(w, phase) ==
    /\ pc' = [pc EXCEPT ![w] = phase]
    /\ UNCHANGED <<todo, unit, next, good>>

\* The iteration is over: the locals of the loop body are dead.
EndIteration(w) ==
    /\ pc' = [pc EXCEPT ![w] = "next"]
    /\ unit' = [unit EXCEPT ![w] = NoUnit]
    /\ next' = [next EXCEPT ![w] = 1]
    /\ good' = [good EXCEPT ![w] = {}]
    /\ UNCHANGED todo

\* (Mutants of HoldFrom: off by one in either direction.)
HoldFromLast(w, last) ==
    /\ pc' = [pc EXCEPT ![w] = "open"]
    /\ next' = [next EXCEPT ![w] = last]
    /\ UNCHANGED good
HoldPastNext(w, last) ==
    /\ pc' = [pc EXCEPT ![w] = "open"]
    /\ next' = [next EXCEPT ![w] = last + 2]
    /\ UNCHANGED good

\* claim_run returned a RunClaim whose last_chunk is last; process_chunks skips
\* the chunks up to it, so the first one it works on is last + 1.
HoldFrom(w, last) ==
    /\ pc' = [pc EXCEPT ![w] = "open"]
    /\ next' = [next EXCEPT ![w] = last + 1]
    /\ UNCHANGED good

SetRun(u, run) == ledger' = [ledger EXCEPT ![u] = run]

\* The object of the worker's unit is still the version its scan listed.
Unchanged(w) == landing[unit[w].name] = unit[w].version

-----------------------------------------------------------------------------
(* The environment: the vendor, the upload endpoint and time. *)

\* A vendor copies a new version into landing, or upload_csv stages a file.
Put(n) ==
    /\ written[n] < MaxVersion[n]
    /\ written' = [written EXCEPT ![n] = @ + 1]
    /\ landing' = [landing EXCEPT ![n] = written[n] + 1]
    /\ UNCHANGED <<ledger, loaded, quarantine, processed, local, late, faults>>

\* The dates of the early rows come within the accepted skew of now().
ClockPasses ==
    /\ ~ late
    /\ late' = TRUE
    /\ UNCHANGED <<durable, local, written, faults>>

\* A running row becomes stale.  (now() is the start of the transaction, so a
\* claim in flight would not see it; letting it see the row as stale allows it
\* no more than the next scan's claim may do.)
Ages(u) ==
    /\ ledger[u].status = "running"
    /\ ~ ledger[u].aged
    /\ SetRun(u, [ledger[u] EXCEPT !.aged = TRUE])
    /\ UNCHANGED <<loaded, quarantine, landing, processed, local, written, late>>

\* The lease of a dead worker runs out.
LeaseRunsOut(u) ==
    /\ \A w \in Workers : ~ Holds(w, u)
    /\ Ages(u)
    /\ UNCHANGED faults

\* The lease of a living worker runs out: started_at is written by claims only,
\* so this takes one run longer than RUN_STALE_AFTER_SECONDS.
LeaseRunsOutEarly(u) ==
    /\ Overlap
    /\ faults < MaxFaults
    /\ \E w \in Workers : Holds(w, u)
    /\ Ages(u)
    /\ faults' = faults + 1

-----------------------------------------------------------------------------
(* The scan and the claim. *)

\* list_objects of the landing container; the list is not refreshed later.
Scan(w) ==
    /\ pc[w] = "idle"
    /\ \E s \in Sizes :
         todo' = [todo EXCEPT ![w] =
                    {u \in Units : u.size = s /\ landing[u.name] = u.version}]
    /\ pc' = [pc EXCEPT ![w] = "next"]
    /\ UNCHANGED <<durable, world, unit, next, good>>

\* The for loop is exhausted: the job returns its summaries or raises JobError.
EndJob(w) ==
    /\ pc[w] = "next"
    /\ todo[w] = {}
    /\ Goto(w, "idle")
    /\ UNCHANGED <<durable, world>>

\* The loop takes the first object left and claim_run tries its INSERT.
Take(w, u) ==
    /\ pc[w] = "next"
    /\ u \in todo[w]
    /\ \A v \in todo[w] : u.name <= v.name
    /\ todo' = [todo EXCEPT ![w] = @ \ {u}]
    /\ unit' = [unit EXCEPT ![w] = u]

\* The INSERT returns an id: a fresh claim from chunk 0.
InsertRun(w) ==
    \E u \in todo[w] :
        /\ Take(w, u)
        /\ ledger[u].status = "absent"
        /\ SetRun(u, NewRun)
        /\ HoldFrom(w, 0)
        /\ UNCHANGED <<loaded, quarantine, landing, processed, world>>

\* ON CONFLICT DO NOTHING: the transaction goes on to look at the row.
ConflictingRun(w) ==
    \E u \in todo[w] :
        /\ Take(w, u)
        /\ ledger[u].status # "absent"
        /\ pc' = [pc EXCEPT ![w] = "examine"]
        /\ UNCHANGED <<durable, world, next, good>>

\* The SELECT found a completed run or a running one with a valid lease.
SkipRun(w) ==
    /\ pc[w] = "examine"
    /\ ~ Claimable(ledger[unit[w]])
    /\ EndIteration(w)
    /\ UNCHANGED <<durable, world>>

\* The SELECT found a run to take over.
SelectRun(w) ==
    /\ pc[w] = "examine"
    /\ Claimable(ledger[unit[w]])
    /\ Goto(w, "reclaim")
    /\ UNCHANGED <<durable, world>>

\* (Mutant of ReclaimRun: the UPDATE trusts what the SELECT saw.)
ReclaimUnchecked(w) ==
    /\ pc[w] = "reclaim"
    /\ SetRun(unit[w], Reclaimed(ledger[unit[w]]))
    /\ HoldFrom(w, ledger[unit[w]].last)
    /\ UNCHANGED <<loaded, quarantine, landing, processed, world, todo, unit>>

\* The UPDATE takes it over and returns the last_chunk it sees now.
ReclaimRun(w) ==
    /\ pc[w] = "reclaim"
    /\ Claimable(ledger[unit[w]])
    /\ SetRun(unit[w], Reclaimed(ledger[unit[w]]))
    /\ HoldFrom(w, ledger[unit[w]].last)
    /\ UNCHANGED <<loaded, quarantine, landing, processed, world, todo, unit>>

\* The UPDATE matches no row: another claim came in between.
LoseClaim(w) ==
    /\ pc[w] = "reclaim"
    /\ ~ Claimable(ledger[unit[w]])
    /\ EndIteration(w)
    /\ UNCHANGED <<durable, world>>

-----------------------------------------------------------------------------
(* Processing the chunks of the claimed object. *)

\* The conditional download of read_csv_chunks starts.
OpenObject(w) ==
    /\ pc[w] = "open"
    /\ Unchanged(w)
    /\ Goto(w, "read")
    /\ UNCHANGED <<durable, world>>

\* The object was replaced or is gone: the open fails, and so may a later
\* ranged read of the same download, each of which carries the ETag condition.
ReadFails(w) ==
    /\ pc[w] \in {"open", "read"}
    /\ ~ Unchanged(w)
    /\ Goto(w, "recover")
    /\ UNCHANGED <<durable, world>>

\* Is there a row of the class among these?
Has(u, rows, class) == \E r \in rows : Class(u, r) = class

\* validate_chunk and _to_students split the next chunk with the clock they see.
ValidateChunk(w) ==
    LET u == unit[w]
        chunk == Chunk(u, next[w])
        passing == {"good", "unstorable", IF late THEN "early" ELSE "rival"}
    IN  /\ pc[w] = "read"
        /\ chunk # {}
        /\ ~ Has(u, chunk, "unreadable")
        /\ good' = [good EXCEPT ![w] = {r \in chunk : Class(u, r) \in passing}]
        /\ pc' = [pc EXCEPT ![w] = "validated"]
        /\ UNCHANGED <<durable, world, todo, unit, next>>

\* (Mutant of WriteQuarantine: one file per run instead of one per chunk.)
WriteQuarantineOfRun(w) ==
    LET rejected == Chunk(unit[w], next[w]) \ good[w]
    IN  /\ pc[w] = "validated"
        /\ quarantine' = IF rejected = {} THEN quarantine
                         ELSE [quarantine EXCEPT ![unit[w]] = rejected]
        /\ Goto(w, "persist")
        /\ UNCHANGED <<ledger, loaded, landing, processed, world>>

\* QuarantineWriter.write: the chunk's file is overwritten, unless nothing was
\* rejected, in which case a file an earlier attempt left stays as it is.
WriteQuarantine(w) ==
    LET u == unit[w]
        chunk == Chunk(u, next[w])
        rejected == chunk \ good[w]
    IN  /\ pc[w] = "validated"
        /\ quarantine' =
             IF rejected = {} THEN quarantine
             ELSE [quarantine EXCEPT ![u] = (@ \ chunk) \cup rejected]
        /\ Goto(w, "persist")
        /\ UNCHANGED <<ledger, loaded, landing, processed, world>>

\* _persist_chunk: the merge and the progress commit in one transaction.  An
\* attempt that is rolled back and retried changes nothing.
PersistChunk(w) ==
    LET u == unit[w]
        chunk == Chunk(u, next[w])
    IN  /\ pc[w] = "persist"
        /\ ~ Has(u, good[w], "unstorable")
        /\ loaded' = [loaded EXCEPT ![u] = @ \cup good[w]]
        /\ SetRun(u, Progressed(ledger[u], next[w],
                                Cardinality(chunk), Cardinality(good[w])))
        /\ next' = [next EXCEPT ![w] = @ + 1]
        /\ good' = [good EXCEPT ![w] = {}]
        /\ pc' = [pc EXCEPT ![w] = "read"]
        /\ UNCHANGED <<quarantine, landing, processed, world, todo, unit>>

\* An error that comes back on every scan: the reader, the validation or the merge
\* raises something that nothing quarantines and Retryer.call does not repeat.
ChunkRaises(w) ==
    LET u == unit[w]
    IN  /\ \/ pc[w] = "read" /\ Has(u, Chunk(u, next[w]), "unreadable")
           \/ pc[w] = "persist" /\ Has(u, good[w], "unstorable")
        /\ Goto(w, "recover")
        /\ UNCHANGED <<durable, world>>

\* (Mutant of CompleteRun: the reader drops a last chunk that is not full.)
CompleteBeforeShortChunk(w) ==
    /\ pc[w] = "read"
    /\ Cardinality(Chunk(unit[w], next[w])) < unit[w].size
    /\ SetRun(unit[w], Completed(ledger[unit[w]]))
    /\ Goto(w, "archive")
    /\ UNCHANGED <<loaded, quarantine, landing, processed, world>>

\* The reader is exhausted and complete_run ends the run, whatever its status.
CompleteRun(w) ==
    LET u == unit[w]
    IN  /\ pc[w] = "read"
        /\ \A r \in Rows(u) : ChunkOf(r, u.size) < next[w]
        /\ SetRun(u, Completed(ledger[u]))
        /\ Goto(w, "archive")
        /\ UNCHANGED <<loaded, quarantine, landing, processed, world>>

\* The except clause: fail_run ends the run, and the loop goes on.
FailRun(w) ==
    /\ pc[w] = "recover"
    /\ SetRun(unit[w], Failed(ledger[unit[w]]))
    /\ EndIteration(w)
    /\ UNCHANGED <<loaded, quarantine, landing, processed, world>>

-----------------------------------------------------------------------------
(* _archive: BlobObjectStore.move, whose failures are logged and forgotten. *)

\* The conditional download starts; a small object arrives with this request.
DownloadForArchive(w) ==
    /\ pc[w] = "archive"
    /\ Unchanged(w)
    /\ Goto(w, "copy")
    /\ UNCHANGED <<durable, world>>

\* upload_blob(overwrite=True) stores the bytes downloaded, unconditionally.
CopyToProcessed(w) ==
    /\ pc[w] = "copy"
    /\ processed' = [processed EXCEPT ![unit[w].name] = unit[w].version]
    /\ Goto(w, "delete")
    /\ UNCHANGED <<ledger, loaded, quarantine, landing, world>>

\* (Mutant of DeleteFromLanding: no ETag condition, as before LEARNINGS L-004.)
DeleteAnyVersion(w) ==
    /\ pc[w] = "delete"
    /\ landing' = [landing EXCEPT ![unit[w].name] = 0]
    /\ EndIteration(w)
    /\ UNCHANGED <<ledger, loaded, quarantine, processed, world>>

\* delete_blob under the same condition.
DeleteFromLanding(w) ==
    /\ pc[w] = "delete"
    /\ Unchanged(w)
    /\ landing' = [landing EXCEPT ![unit[w].name] = 0]
    /\ EndIteration(w)
    /\ UNCHANGED <<ledger, loaded, quarantine, processed, world>>

\* The object changed after it was listed: the download (its first request or a
\* later range of a large object) or the delete is refused.
ArchiveRefused(w) ==
    /\ pc[w] \in Archiving
    /\ ~ Unchanged(w)
    /\ EndIteration(w)
    /\ UNCHANGED <<durable, world>>

-----------------------------------------------------------------------------
(* Faults, within the budget MaxFaults. *)

Spend ==
    /\ faults < MaxFaults
    /\ faults' = faults + 1
    /\ UNCHANGED <<written, late>>

\* A passing error in the try block while the database connection is alive, such
\* as a storage error or a transaction whose retries are exhausted.
Interrupt(w) ==
    /\ pc[w] \in {"open", "read", "validated", "persist"}
    /\ Spend
    /\ Goto(w, "recover")
    /\ UNCHANGED durable

\* A storage error inside _archive.
ArchiveFails(w) ==
    /\ pc[w] \in Archiving
    /\ Spend
    /\ EndIteration(w)
    /\ UNCHANGED durable

\* The process is killed, or its connection is lost, so that fail_run raises as
\* well and the exception leaves run_csv_job: the row is left as it is.
Die(w) ==
    /\ pc[w] # "idle"
    /\ Spend
    /\ pc' = [pc EXCEPT ![w] = "idle"]
    /\ todo' = [todo EXCEPT ![w] = {}]
    /\ unit' = [unit EXCEPT ![w] = NoUnit]
    /\ next' = [next EXCEPT ![w] = 1]
    /\ good' = [good EXCEPT ![w] = {}]
    /\ UNCHANGED durable

-----------------------------------------------------------------------------
Claim(w) == InsertRun(w) \/ ConflictingRun(w) \/ SkipRun(w) \/ SelectRun(w)
            \/ ReclaimRun(w) \/ LoseClaim(w)

Process(w) == OpenObject(w) \/ ReadFails(w) \/ ValidateChunk(w) \/ WriteQuarantine(w)
              \/ PersistChunk(w) \/ ChunkRaises(w) \/ CompleteRun(w) \/ FailRun(w)

Archive(w) == DownloadForArchive(w) \/ CopyToProcessed(w) \/ DeleteFromLanding(w)
              \/ ArchiveRefused(w)

Work(w) == Scan(w) \/ EndJob(w) \/ Claim(w) \/ Process(w) \/ Archive(w)

Fault(w) == Interrupt(w) \/ ArchiveFails(w) \/ Die(w)

Next ==
    \/ \E n \in Names : Put(n)
    \/ ClockPasses
    \/ \E u \in Units : LeaseRunsOut(u) \/ LeaseRunsOutEarly(u)
    \/ \E w \in Workers : Work(w) \/ Fault(w)

Spec == Init /\ [][Next]_vars

\* The timer keeps firing, an invocation keeps running until it ends or dies, and
\* time passes, so that a lease left behind runs out.
FairSpec ==
    /\ Spec
    /\ \A w \in Workers : WF_vars(Work(w))
    /\ \A u \in Units : WF_vars(LeaseRunsOut(u))

-----------------------------------------------------------------------------
(* Properties. *)

\* Every row among rows that can be settled once and for all has been: a good one
\* was merged and a bad one is in a quarantine file.
Handled(u, rows) ==
    \A r \in rows :
        /\ Class(u, r) = "good" => r \in loaded[u]
        /\ Class(u, r) = "bad" => r \in quarantine[u]

\* Some run has handled version v of the object.
HandledVersion(n, v) ==
    \E u \in Units : u.name = n /\ u.version = v /\ Handled(u, Rows(u))

\* The resume point is never ahead of the work, whatever crashes, is taken over
\* or resumes from it: the next claim skips only chunks that have been applied
\* (src/src/pipeline.py:120, "so a resume point is always accurate").
ResumePointSound == \A u \in Units : Handled(u, UpTo(u, ledger[u].last))

\* A run that ended as completed has handled the whole object, also when it was
\* put together from several claims, some of them by workers that overlapped.
CompletedMeansHandled ==
    \A u \in Units : ledger[u].status = "completed" => Handled(u, Rows(u))

\* No row that validate_chunk rejects whenever it looks is ever merged, and none
\* that it passes whenever it looks is ever in a quarantine file, whoever redoes
\* what.  Early rows and their rivals, whose verdict the clock turns, may be both.
VerdictsRight ==
    \A u \in Units :
        /\ \A r \in loaded[u] : r \in Rows(u) /\ Class(u, r) # "bad"
        /\ \A r \in quarantine[u] : r \in Rows(u) /\ Class(u, r) # "good"

\* What is gone from landing needs no further run: an object disappears only
\* when a run has handled its newest version, and a copy of a handled version is
\* in processed (src/src/pipeline.py:289 and storage.py's conditional move).
LandingKeptUntilHandled ==
    \A n \in Names :
        landing[n] = 0 /\ written[n] > 0 =>
            HandledVersion(n, written[n]) /\ HandledVersion(n, processed[n])

\* Why the four properties above hold: what each worker may rely on at its
\* position, and what is known of each object.  With them it is inductive.
WorkersSound ==
    \A w \in Workers :
        LET u == unit[w]
            chunk == Chunk(u, next[w])
        IN  /\ pc[w] \in Holding => Handled(u, UpTo(u, next[w] - 1))
            /\ pc[w] \in {"validated", "persist"} =>
                 /\ good[w] \subseteq chunk
                 /\ \A r \in chunk : /\ Class(u, r) = "good" => r \in good[w]
                                     /\ Class(u, r) = "bad" => r \notin good[w]
            /\ pc[w] = "persist" =>
                 \A r \in chunk : Class(u, r) = "bad" => r \in quarantine[u]
            /\ pc[w] \in Archiving => Handled(u, Rows(u))

ObjectsSound ==
    \A n \in Names :
        /\ landing[n] \in {0, written[n]}
        /\ processed[n] # 0 => HandledVersion(n, processed[n])
        /\ \A w \in Workers : pc[w] = "delete" /\ unit[w].name = n => processed[n] # 0
        /\ landing[n] = 0 /\ written[n] > 0 =>
             processed[n] # 0 /\ HandledVersion(n, written[n])

Sound == /\ TypeOK /\ ResumePointSound /\ CompletedMeansHandled /\ VerdictsRight
         /\ WorkersSound /\ ObjectsSound

\* The claim is a lease on the unit: two workers never process the same unit at
\* once, although claim_run's statements interleave with other claims and ends
\* (src/docs/decisions/ITD-007-csv-trigger-strategy.md:30).
OneHolder ==
    \A v, w \in Workers, u \in Units : Holds(v, u) /\ Holds(w, u) => v = w

\* Why: a unit that is held is running and its lease is valid, which neither a
\* fresh claim nor a takeover accepts; and the holder is at the resume point.
Leased ==
    /\ OneHolder
    /\ \A u \in Units : ledger[u].status = "absent" => ledger[u] = AbsentRun
    /\ \A w \in Workers, u \in Units :
         Holds(w, u) => /\ ledger[u].status = "running" /\ ~ ledger[u].aged
                        /\ next[w] = ledger[u].last + 1

\* The holder's position, the resume point and the counters agree: each chunk up
\* to last_chunk has been counted exactly once, across retries and resumes.
CountersExact ==
    \A u \in Units :
        /\ ledger[u].read = Cardinality(UpTo(u, ledger[u].last))
        /\ ledger[u].valid = Cardinality(loaded[u])
        /\ ledger[u].status = "completed" => ledger[u].read = Cardinality(Rows(u))
        /\ \A w \in Workers : Holds(w, u) => next[w] = ledger[u].last + 1

\* No record is silently dropped: every row of a committed chunk is in the
\* students table or in a quarantine file, early rows included, although the
\* quarantine file is written before the commit and may be rewritten by a redo
\* that judges an early row differently.
EveryRowAccounted ==
    \A u \in Units : UpTo(u, ledger[u].last) \subseteq loaded[u] \cup quarantine[u]

\* Why the rows and the counters add up: nothing is merged beyond the resume
\* point, every chunk up to it has rows, and the holder has judged rows of its own
\* chunk only, whose rejects it has written before it merges the others.
Settled ==
    /\ Leased
    /\ CountersExact
    /\ EveryRowAccounted
    /\ \A u \in Units :
         /\ loaded[u] \subseteq UpTo(u, ledger[u].last)
         /\ \A k \in 1 .. ledger[u].last : Chunk(u, k) # {}
         /\ ledger[u].status = "completed" => UpTo(u, ledger[u].last) = Rows(u)
    /\ \A w \in Workers :
         LET chunk == Chunk(unit[w], next[w])
         IN  /\ pc[w] \in {"validated", "persist"} => chunk # {} /\ good[w] \subseteq chunk
             /\ pc[w] = "persist" => chunk \subseteq good[w] \cup quarantine[unit[w]]

\* A completed run is final and a resume point never moves back
\* (src/db/001_schema.sql:51, src/src/persist.py:310).
FinishedWorkKept ==
    \A u \in Units :
        /\ ledger[u].status = "completed" => ledger'[u] = ledger[u]
        /\ ledger[u].last <= ledger'[u].last
FinishedWorkStaysFinished == [][FinishedWorkKept]_vars

\* The quarantine file of a committed chunk holds exactly its rejected rows
\* (src/src/quarantine.py:17, "so a re-run overwrites instead of duplicating").
QuarantineMatchesCommit ==
    \A u \in Units : loaded[u] \cap quarantine[u] \cap UpTo(u, ledger[u].last) = {}

\* The runs of one version of an object, with chunks of any size.
UnitsOf(n, v) == {u \in Units : u.name = n /\ u.version = v}

\* Nothing in the file raises whenever it is processed.
Processable(u) == ~ Has(u, Rows(u), "unreadable") /\ ~ Has(u, Rows(u), "unstorable")

\* A version left in landing is processed in the end if it can be, also behind an
\* object that cannot: the scan comes back, an interrupted run is failed and
\* resumed, and a dead worker's lease runs out.
LandedVersionCompletes ==
    \A n \in Names, v \in Versions :
        (\A u \in UnitsOf(n, v) : Processable(u)) /\ <>[](landing[n] = v) =>
            <>(\E u \in UnitsOf(n, v) : ledger[u].status = "completed")

\* An invalid record does not stop a batch: the good rows of a version left in
\* landing are merged in the end (src/docs/ARCHITECTURE.md:193).
NoRecordStopsBatch ==
    \A n \in Names, v \in Versions :
        <>[](landing[n] = v) =>
            <>(\E u \in UnitsOf(n, v) :
                 \A r \in Rows(u) : Class(u, r) = "good" => r \in loaded[u])

\* Without overlap the ledger keeps its promise: every claim, crash, resume and
\* retry is a step of UnitOfWork or leaves its state alone.
Promise == INSTANCE UnitOfWork WITH
    Chunks  <- [u \in Units |-> Cardinality({ChunkOf(r, u.size) : r \in Rows(u)})],
    holders <- [u \in Units |-> {w \in Workers : Holds(w, u)}],
    applied <- [u \in Units |-> ledger[u].last],
    done    <- [u \in Units |-> ledger[u].status = "completed"]

KeepsPromise == Promise!Spec
=============================================================================
