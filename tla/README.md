# Verification of the student ingestion pipeline

TLA+ models of the data ingestion service, the TLC runs that check them on small
instances, and TLAPS proofs for all instances. Paths below start with `src/`, the
root of the checkout: `src/src/pipeline.py` is the repository's `src/pipeline.py`,
`src/docs/ARCHITECTURE.md` its `docs/ARCHITECTURE.md`.

## 1. The system

The service copies student records from two sources into one PostgreSQL table.
The **CSV job** scans a blob container for files; the **API job** pulls pages of
changed records from a vendor. Both run on timers, each by hand through the CLI
too, and both hand chunks to the same core: validate, quarantine the rejects,
merge the rest.

| Component | State | Operations | Correct when |
|---|---|---|---|
| CSV pipeline (`pipeline.py`, `ingest/csv_source.py`) | locals of one invocation: list of objects, claim, chunk index | scan, claim, read/validate/quarantine/persist each chunk, complete, fail, archive | every object version is processed to its end, no chunk is skipped or lost |
| Run ledger (`persist.py`, `ingest_run`) | one row per unit of work: status, last_chunk, counters, started_at | claim (insert / look / take over), record progress, complete, fail | one holder at a time, the resume point is accurate, finished work is final |
| Students table (`persist.py`, `students`) | one row per student | staged conditional merge in a retried transaction | the freshest submitted record is kept, repeats change nothing, merges do not deadlock |
| API pipeline (`pipeline.py`, `api_checkpoint`) | watermark, locals of one sync | read watermark, claim, page by page, advance, complete, fail | nothing behind the watermark is missing, a late run does not rewind it |
| API client (`ingest/api_source.py`, `ingest/api_auth.py`, `http.py`, `retry.py`) | pages seen, cached token | fetch page, follow link, retry, refresh token | bounded work per page, no circle of links followed for ever, an expired token is survived |
| Quarantine writer (`quarantine.py`) | one file per chunk of a run | write | no rejected row is dropped |
| Object store (`storage.py`) | landing, processed and quarantine containers | list, conditional read, write, move | nothing leaves landing unprocessed |
| Validation and transformation (`validate.py`, `transform.py`) | none, but reads the clock | split a chunk | reject exactly the bad rows; one row per student |
| Migrations (`persist.py`, `cli.py`) | `schema_migrations` | apply pending files | each file once, in order |
| Deployment (`.github/workflows/deploy.yml`, `db/bootstrap/grant_function_role.sql`) | privileges, the published code | the jobs of one run, re-runs | code never runs without its tables and the right to use them |
| Upload endpoint, triggers, CLI, configuration, logging, Terraform | none that the jobs change | stage a file, start a job | see section 8 |

They interact through shared state only: the containers, the database, and the
vendor. The hard behaviours are therefore interleavings of invocations on that
state: two claims of one unit; a worker that outlives its lease; a file replaced
between scan, read and archive; a crash between the quarantine write, the commit,
the completion and the archive; a database connection that is lost together with
the statement that would have recorded the failure; a vendor whose data moves
between two pages; a token that expires between two retries; two deploys that
migrate one database; a local file that is still being written when it is listed,
read and moved.

## 2. The modules

| Module | Models | Notes |
|---|---|---|
| `IngestRun` | a row of `ingest_run` and each statement on it | operators only, used by both jobs |
| `CsvJob` | `run_csv_job` with the ledger, the quarantine and the containers | the core |
| `UnitOfWork` | the promise "exactly once" of `pipeline.py:218` | abstract; `CsvJob` implements it |
| `Validate` | `validate_chunk` and `_dedupe` on one chunk, and what the result has to be | operators only |
| `StudentStore` | chunks validated and merged into `students` concurrently, lock by lock | extends `Validate` |
| `StudentTable` | the promise of a table to which chunks are applied whole | abstract; `StudentStore` implements it |
| `ApiSync` | `run_api_job`, the watermark, and the vendor's paging | uses `IngestRun` |
| `ApiClient` | `fetch_chunks`, both token providers, `send` and `Retryer.call` | |
| `Deploy` | the jobs of `deploy.yml`, the grants and `apply_pending_migrations` | |
| `LocalStore` | `LocalObjectStore` under the CSV job and its producers | |
| `NumberLemmas` | facts about sets of numbers that the proofs share | |
| `CsvJobProofs`, `ValidateProofs`, `StudentStoreProofs`, `ApiSyncProofs`, `ApiClientProofs`, `DeployProofs`, `LocalStoreProofs` | theorems | section 6 |
| `MCCsvJob`, `MCStudentStore`, `MCApiSync`, `MCDeploy` | small instances for TLC | |

`CsvJob` and `ApiSync` see `StudentStore` through what it guarantees: a merge is
one atomic step that keeps the newer record. `ApiSync` sees `ApiClient` likewise:
a page arrives, or the sync fails. `CsvJob` has the requests of the Azure backend
built in; `LocalStore` models the other backend with just as much of the job as
touches it.

### CsvJob

`ledger`, `loaded` (rows in a committed merge), `quarantine`, `landing` and
`processed` are durable. `pc`, `todo`, `unit`, `next` and `good` are a worker's
locals and are lost in a crash. A unit of work is an object name, a version (its
ETag) and a chunk size, because `csv_source_version` appends the chunk size. A
file is the sequence of the classes of its rows: *good*; *bad*; *early*, which is
rejected until the clock has passed its date (`validate.py:70`); *rival*, which passes
until then and is a duplicate of an early row afterwards (`validate.py:93-121`);
*unreadable*, on which the reader or the validation raises; *unstorable*, on which the
merge raises an error that is not retried.

Actions follow the code's own points of interaction. `claim_run` is one
transaction, but at READ COMMITTED its INSERT, SELECT and UPDATE see the commits
of others, so it is `InsertRun`, or `ConflictingRun`, then `SkipRun` or
`SelectRun`, then `ReclaimRun` or `LoseClaim`. A chunk is `ValidateChunk`,
`WriteQuarantine`, `PersistChunk`; the merge and the progress are one action
because they are one transaction. `_archive` is three requests to the blob
service, hence `DownloadForArchive`, `CopyToProcessed` and `DeleteFromLanding`,
each refused when its ETag condition fails. `Interrupt` is an exception inside the
`try` that need not come back, after which `FailRun` follows; `ChunkRaises` is one that
comes back on every scan, because it is the content that raises; it costs no fault and
happens whenever the chunk is reached. `Die` is a killed process or a lost
connection, which also defeats `fail_run`. A commit whose answer is lost is
`PersistChunk` followed by `Die`, since the retry meets a dead connection.

Time appears as a bit per row, `aged`: the row was claimed at least
`RUN_STALE_AFTER_SECONDS` ago. `LeaseRunsOut` sets it when nobody works on the
unit, `LeaseRunsOutEarly` when somebody does; the latter needs `Overlap`.

### Validate and StudentStore

A chunk is a sequence of rows that carry a student, an `updated_at` and a bit,
`ok`: no rule of `_field_failure` is broken. `Dedupe` is the loop of `_dedupe` row by
row; `SplitsRight` says declaratively what has to come of it.

`Init` picks the files; each writer validates and submits its chunks in order. Its
transaction locks one student row after another in the order of the merge's ORDER BY.
A row that conflicts is compared when its lock is granted, its outcome (*inserted*,
*updated*, *refused*) is what RETURNING reports, and it stays locked when the
comparison refuses it. `Commit` makes the written rows visible and adds the result to
the summary. `Rollback` is an attempt that `Retryer.call` repeats, `GiveUp` the last
one. `CommitUnheard` is a COMMIT whose answer is lost with the connection: the chunk
is stored, but the later attempts find the connection closed. After either of the two
the exception leaves `process_chunks`, and the summary of the run goes with it
(`Abandon`). A run that resumes the unit of work is another writer, with the chunks
that are left and a summary of its own. `first` remembers who stored each student
first. PostgreSQL would break a deadlock by aborting one transaction; `NoCircle` says
that it never has to: no set of transactions has each of them waiting for a row that
another of them holds. So `Rollback` is not fair in `AllMergesEnd`.

### ApiSync

The vendor is external and taken from `src/tests/mock_api/server.py`: a list in a
fixed order, filtered by `updated_at > updated_since`, paged by offset at the time
of the request. `VendorUpdates` changes any set of students at one instant.
`Drift` says whether it may do so between two pages of one sync, and `Ahead` how far
ahead it may date a record. A sync claims a fresh row each time (its correlation
id), so the row of an earlier sync is never read again and only the current row of
each worker is kept.

### ApiClient

One client, with the provider that `build_auth` chose, against a vendor that may
give any answer at any time. The nested loops are kept: pages, the two attempts of
`_get_page`, the tries of `Retryer.call` for the page and for the token. `Targets` are the
request keys that are told apart; `Elsewhere` stands for all others, of which there are
always more: the code has no limit on the number of pages. `TokenExpires` may happen at
any moment. A static token is never renewed; the refresh repeats the request with the
same one.

### Deploy

Every push starts a run of the workflow with the directory of its commit. The jobs
follow one another; a failed one keeps the later ones from starting until it, or
the whole run, is run again (`Rerun`). Runs overlap, since the workflow has no
`concurrency` group; only `terraform apply` excludes itself, by the lock on its
state, which refuses a second holder, and which a killed runner leaves taken until
somebody forces it open (`ForceUnlock`). Each SQL statement of
`grant_function_role.sql` and of `apply_pending_migrations` is an action. The workflow
runs the script with `psql -f` and no `ON_ERROR_STOP` (`deploy.yml:143`), so a statement
of it that fails does not stop the job: `GrantUnheard` and `DefaultsUnheard`. `unheard`
remembers the runs whose `ALTER DEFAULT PRIVILEGES` failed so, `creator` the run that
applied each file. What a
migration does is abstracted to "its tables are there": it may collide with the
same file's effect from another run, or go through (`IF NOT EXISTS`). The primary
key of `schema_migrations` makes the second of two inserts wait, and fail once the
first commits.

### LocalStore

A path leads to a file, and an open file stays itself when its path is renamed or
taken. A content is named by the `stamp` of its last change, and the version (size
and mtime) is that stamp: every change is assumed to get a version of its own.
Producers write in place (`StartWrite`, `EndWrite`, as `write_bytes` does) or put a
finished file at the path (`Replace`). The job is cut down to what touches the
folder: `List` with the claim, `OpenStream`, `CheckStream`, `ReadPiece` for each
buffer, `EndRead`, then `CheckMove` and `Rename`, the two halves of `move`.

## 3. The runs

| Run | Question | Bounds | States |
|---|---|---|---|
| `csv_lease` | without overlap: one holder, exact counters, no row dropped, finished work final, and a refinement of `UnitOfWork`; a version left in landing completes if it can be processed; the inductive invariant `Settled` | 2 workers, chunk size 2, 2 faults; an object that fails at its second chunk, and one in 2 versions of which the first cannot be read | 693 thousand |
| `csv_zombie` | with overlap: resume points, completion, verdicts, landing; the inductive invariant `Sound` | 2 workers, 1 object in 2 versions (no rows; 4 rows), chunk sizes 2 and 3, 2 faults | 4.4 million |
| `csv_redo` | violation: finished work is redone under overlap | 2 versions, 2 faults | |
| `csv_quarantine` | violation: a row merged and quarantined | 1 early row, 1 fault | |
| `csv_poison` | violation: a record the database refuses stops the rest of its file | 3 rows, chunk size 1, no fault | |
| `store` | chunks split right, freshest rows kept, what a summary is worth, a refinement of `StudentTable`, no circle of locks, every merge ends | all files of 3 rows from 5 kinds in chunks of 1, 2, 3 against an API page; 3 writers with 2, 2 and 1 chunks; 2 attempts | 70 thousand |
| `api_sync` | nothing skipped, completed syncs not repeated, catching up | 2 workers, 2 students, pages of 1, 2 vendor changes, 2 faults | 422 thousand |
| `api_skip` | violation: a change between two pages is lost | `Drift`, 3 changes, no fault | |
| `api_ahead` | violation: a record dated ahead hides later changes | `Ahead = {0, 1}`, 3 changes, no fault | |
| `api_client` | requests in bounds, a refused token is survived, a fetch ends unless it is led to ever new pages | both providers, 2 URLs and page numbers to 2 told apart, 2 attempts | 59 thousand |
| `deploy` | migrations once and in order, code only with its schema and the privileges its runs could give, every run ends | 3 runs with directories {1}, {1, 3}, {1, 2, 3}; 2 faults, any number of re-runs | 634 thousand |
| `local_store` | only what was read is moved, except for late writes; what stays is read in the end | 2 invocations, 1 name, 4 changes, 1 stop | 1.6 million |

Why the bounds are enough: two workers make every race between claims, between a
holder and its successor, and between two archivers; two faults allow an attempt that
dies and a successor that fails, or a lease that runs out early and a crash, and
content that raises gives failures without limit. A short last chunk, an empty object,
a chunk with several rejects, a chunk whose verdicts turn over in both directions, a
replaced version and a changed chunk size occur; other sets of sizes and more workers,
objects and faults are what the proofs are for. Pages of one record give
a sync a page before and a page after each interesting instant. Two URLs and two
page numbers give circles of links and mixtures of links and numbers, and `Elsewhere`
a way out of every circle. Files of three
rows about two students have every order and tie of two rows of one student with a
third before, between or after them, inside a chunk and across chunks. Three
deploys include two that race on one file and one with a file that sorts before an
applied one; two faults let a GRANT and an `ALTER DEFAULT PRIVILEGES` fail in one run or in
two. Four changes let a file be rewritten in place while it is read, and a
path change hands between check and rename. Bounded by name: `MaxVersion`
(per name), `MaxFaults`, `MaxClock`, `MaxChanges`, `MaxStops`; `MaxPage` bounds only which
pages are told apart; `Inputs` is the set of
inputs a run starts from. `MaxAttempts` is the program's own setting. The state
invariants that the proofs use (`Sound`, `Settled`, `Synced`, `Accounted`, `Ready`,
`Tracked`) are checked by the runs too.

`CHECK_DEADLOCK FALSE` is set where the modelled program does end: writers run out
of chunks (`store`), a fetch is over (`api_client`), every run has published
(`deploy`), producers have used up their changes (`local_store`).

## 4. What the violations show

* `csv_redo`: nothing fences a worker whose lease ran out. `record_chunk_progress`,
  `complete_run` and `fail_run` update the row unconditionally, so a slow worker
  moves `last_chunk` back or reopens a completed run. The lease defaults to one
  hour, is not renewed, and a CLI run has no time limit. `csv_zombie` shows how far
  the damage goes: rows and resume points stay sound, the ledger's finality and its
  counters do not.
* `csv_quarantine`: `QuarantineWriter.write` returns early for a chunk without
  rejects, so a redo does not replace the file of an attempt that had some.
* `csv_poison`: a record that the validation lets through but the database refuses (a NUL
  character is a `DataError`, not among `DB_RETRY_ERRORS`) is neither quarantined nor
  retried. The run fails, every scan claims it again and fails at the same chunk, and the
  good rows of that chunk and the later ones are never merged. Bytes that are no UTF-8,
  a `csv.Error` and a date of year 1 that `astimezone` cannot convert
  (`src/src/transform.py:133`) have the same effect. Other objects, and a corrected
  version of this one, do get through (`LandedVersionCompletes` in `csv_lease`).
* `api_skip`: the watermark is the maximum over pages of different times. A change
  to an already fetched record between two page requests falls behind it.
* `api_ahead`: a record dated up to a day ahead is accepted and becomes the
  watermark; changes dated normally are then filtered out by the vendor.

Each contradicts a sentence of the code or the docs, quoted in `PROJECT.json`.

Passing properties have limits worth knowing. `LostOnlyToLateWrites` allows the
local backend to move a content unread if it was written after the check: between
check and rename, or by a producer that still has the file open. `AppliedInOrder`
allows a file to come after one that sorts behind it, when its branch merged later.
`InsertsCounted` is about one run: a run that fails reports nothing, also of the chunks it
has committed, and the run that resumes the unit of work skips those or finds their
rows stored, so that the reports of a unit of work may add up to less than it inserted
(`src/tests/test_e2e.py:319-351` asserts 3 of 5). `CodeMayUseTables` leaves out tables that a
run created whose own `ALTER DEFAULT PRIVILEGES` had failed: published code then lacks
the privileges until a later run grants them, although
`src/db/bootstrap/grant_function_role.sql:28-29` says that a new file never needs a grant of
its own. What the property shows is that this is the only way. `FetchEnds` says that a fetch
ends unless the vendor leads it to ever new pages; then it goes on until its invocation is
killed. And the key that stops repeated pages is the request, not the page: a page reached
by its number and by a link with `?page=` is yielded twice, although
`src/docs/ARCHITECTURE.md:61-62` says that repeated pages are stopped. Its rows come to no
harm (`RepeatChangesNothing`).

## 5. Fairness

`CsvJob!FairSpec` has weak fairness of each worker's `Work`: the timer fires again,
an invocation goes on until it ends or dies. Faults are not fair and limited. Weak
fairness of `LeaseRunsOut` is the passing of time. `LandedVersionCompletes` assumes
that the version stays in landing and that none of its rows raises (`Processable`); an
object ahead of it in the list may fail on every scan. `csv_poison` shows under the same
fairness that the second assumption is needed.
`ApiSync!FairSpec` is the same for syncs. `StudentStore` assumes that PostgreSQL
grants a free lock, `ApiClient` that a request is answered or times out, as the
`timeout` of `send` sees to; `FetchEnds` has its assumption on the vendor in its statement,
`<>[](target # Elsewhere)`. `Deploy!FairSpec` assumes that the steps of a job go on,
that somebody re-runs a failed run, and that somebody opens a lock that a killed runner
has left; `LocalStore!FairSpec` that the job recurs and an
invocation goes on; producers are not fair.

What the liveness properties assume of failures: the faults of `CsvJob`, `ApiSync` and
`Deploy` are limited in number, so after the last of them a repeated attempt meets no
new one. Failures that do come back are not faults there but ordinary actions:
`ChunkRaises`, a read of a replaced version, a migration that collides, a lock that is
taken. `StudentStore` and `ApiClient` limit nothing but the attempts the program itself
limits.

## 6. What is proved

`CsvJobProofs` holds for every set of workers and names, every content, version
bound and set of chunk sizes, under the named assumptions of `CsvJob`: names are
naturals, chunk sizes are positive, contents are sequences of row classes,
with the same rows in chunks of any size, and `NoUnit` is not a unit.

* `TypeCorrect`: the type invariant.
* `Soundness`: the inductive invariant `Sound`. "The resume point is never ahead"
  is not inductive, since the ledger advances by what a worker believes about its
  own chunk. `WorkersSound` adds what each worker may rely on at its position: the
  chunks before `next` are handled; `good` is right for its chunk; the rejects are
  written before the merge; an archiver's object is handled. `ObjectsSound` adds
  what is known of each object: a copy in processed before a delete, and handled.
  The argument rests on two monotone facts (`RowsKept`): merged rows stay merged,
  and a bad row stays quarantined, because a file is only replaced by one for the
  same chunk that rejects it again. Leases are not used: the theorem allows overlap.
* `ResumePointIsSound`, `CompletedIsHandled`, `LandingIsKept`: its consequences.
* `VerdictsAreRight`: a conjunct of `Sound`. No bad row is merged and no good row
  quarantined, overlap or not; what `csv_quarantine` finds in both places is an early
  row, whose verdict changes as the clock passes it. A rival row may get there by the
  opposite change.
* `LeaseIsExclusive`, assuming `~ Overlap`: from the invariant `Leased`, a held unit
  is running with a valid lease, which no claim accepts, and its holder stands at
  the resume point.
* `FinishedWorkIsFinal`, assuming `~ Overlap`: from `Leased`, since progress,
  completion and failure come from a holder only. `csv_redo` shows that the
  assumption is needed.
* `SettledAlways`, `CountersAreExact`, `RowsAreAccounted`, assuming `~ Overlap`. The
  counters are exact because a chunk is counted when `last` moves over it, which
  only a holder at chunk `last + 1` does (`Leased`), and because chunks are disjoint
  (`ChunkCount`). `Settled` adds what makes this inductive and complete: nothing is
  merged beyond `last`, every chunk up to it has rows, so a run that ends at the
  first empty chunk has read them all (`CompleteReadsAll`), and a holder has judged
  rows of its own chunk only, each with a place in `good` or in the quarantine
  before it merges. With overlap a zombie counts a chunk twice or moves `last` back.
* `LedgerKeepsPromise`, assuming `~ Overlap`: the CSV job implements `UnitOfWork`. A
  claim is `Take`, the merge's progress record is `Apply` (chunks 1 to `next` have rows,
  so a chunk was left), completion is `Finish` (1 to `last` are all the chunks with
  rows), a failure or a death is `Release`; every other step of a worker, of a
  producer or of time is a stutter.

`DeployProofs` holds for every set of runs, every directory of every commit and any
number of faults. `Ready` adds to `AppliedOnce` and `AppliedInOrder` what a run knows
at its step: default privileges are set once it migrates, unless its own statement
failed; the files it has passed are recorded and sort before those to do; a run that may
publish has all its files recorded. A recorded file is granted, or was created by a run
whose `ALTER DEFAULT PRIVILEGES` failed; that is inductive only together with what a
migrating run knows of the defaults. `SchemaBeforeCode` and `CodeMayUseTables` follow,
since nothing is ever taken back.

`LocalStoreProofs` holds for every set of invocations and names and any number of
changes and stops. `Tracked` says that stamps tell contents apart, hence that the
only file that can still have the listed version is the one the invocation has
open, in which case it has had that version all the time, so that it is all the
invocation has read.

`ValidateProofs` proves `SplitsRight` for chunks of any length: after n rows, `best` is
`Latest` of the first n rows and `losers` are its other candidates.

`StudentStoreProofs` holds for all writers, chunks and attempts. `Consistent` is type
correctness, `WritesStayValid`, and that merged rows come from the staged chunk.
`FreshestIsKept` and `RowsMoveForward` follow with what `Publish` does to the table.
`InsertsAreCounted` rests on `StoredByFirst`, which says that a student is in the
table exactly if somebody was first to store it: the rows that a transaction holds as
inserted are of students that nobody has stored, so its commit makes the writer the
first for exactly as many as it adds to its count (`PublishStores`).
`MergesImplementTable` is the refinement: a commit is `StudentTable!Submit` of the
writer's chunk, because validation leaves one row per student, all of them are merged,
and each was compared with the row that is still there; every other step is a stutter.
Its inputs are sets of sequences of rows (`InputsAssumption`). `NoMergeDeadlock` comes
from `LocksOrdered`: a transaction holds only rows before the one it wants, in the
ORDER BY of the merge. In a set whose members all wait for each other, whoever wants
the last row would need another that holds it, hence wants a later one.

`ApiClientProofs` holds for any URLs, pages and retry limit, and wherever the vendor
leads: `Accounted` counts requests and refusals of the page at hand against `attempt` and
`tries`. `RequestsAreBounded` and `RefusalIsSurvived` are its consequences.

`ApiSyncProofs` holds for any workers, students, page sizes, changes and faults on
the condition `Calm`: no `Drift`, and `Ahead = {0}`. `api_skip` and `api_ahead` show that
both parts are needed. `Synced` says of each sync that what it has not ingested is
on the page at hand, on later pages, or newer than all it has seen. The core is
`PageCovers`: offsets leave no gaps, so a page that is empty, or that names no next
page, leaves nothing behind it.

Induction over data is out of the provers' reach with the library's induction
theorems. Where it is needed (`Validate`'s loop, finite sets) the proofs take the
least counterexample instead, whose existence (`NumberLemmas!LeastNumber`) follows
from a library theorem without an operator parameter.

Every safety and action property of a passing run is a theorem, and so are both
refinements. Only model-checked are the liveness properties `LandedVersionCompletes`,
`AllMergesEnd`, `CatchesUp`, `FetchEnds`, `EveryRunPublishes` and `LandedFileIsHandled`:
liveness under fairness needs ENABLED, which is out of the prover's reach.

## 7. Plan

1. A vendor that lets two changes of one instant appear one after the other, to show
   what the strict filter on `updated_since` costs.
2. A run that shows published code without privileges on a table, and one that shows a page
   fetched twice under two keys; section 4 has both in words.
3. The safety core of what is now only liveness: that a run of `Deploy` which has not
   published has a step to take or can be re-run, and the same for a sync.

## 8. Not modelled

* Parsing of fields, CSV dialects, multipart bodies and file names: pure functions
  on strings, whose outcome is the class of a row. Values that raise instead of having
  an outcome are classes of their own in `CsvJob` (*unreadable*, *unstorable*). The other
  models have no such values: `CatchesUp` holds for a vendor none of whose records raises
  on every sync, and `LandedFileIsHandled` of `LocalStore` means that a file is read, not that
  what it contains can be processed.
* Lengths of delays and timeouts, log events, counts in the summaries other than
  inserted rows. A vendor's `Retry-After` may exceed the function timeout; the models
  see that as a process that dies.
* Configuration, logging and Terraform's resources: no behaviour to check. The lease,
  the function timeout and the retry limits they set are constants of the models.
* Which of two overlapping deploys publishes last: nothing orders them.
* Two changes of a local file with the same size and mtime, and two changes of the
  vendor that share an instant and appear apart: the models assume they differ.
* `processed` may end with an older handled version over a newer one, because the
  upload of `move` is unconditional; nothing promises otherwise.
