------------------------------- MODULE Deploy -------------------------------
(***************************************************************************)
(* The deploy workflow and apply_pending_migrations.  Every push to main   *)
(* starts a run of deploy.yml: infrastructure, then database, then the     *)
(* function code.  Nothing keeps two runs from overlapping, so their       *)
(* database jobs may migrate the same database at once.                    *)
(*                                                                         *)
(* A migration's SQL and its row in schema_migrations are one transaction. *)
(* Which locks the SQL takes is left open; the row's primary key makes the *)
(* second of two transactions wait, and fail if the first one commits.     *)
(***************************************************************************)
EXTENDS Integers, FiniteSets

CONSTANTS
    Runs,      \* runs of the workflow, each for one commit
    Files,     \* db/*.sql files, as naturals: sorted() by name
    Dir,       \* Dir[p]: the files the commit of run p has
    MaxFaults, \* bound: steps that fail for a reason of their own
    None       \* no code is published yet

ASSUME FilesAssumption  == Files \subseteq Nat
ASSUME DirAssumption    == Dir \in [Runs -> SUBSET Files]
ASSUME FaultsAssumption == MaxFaults \in Nat
ASSUME NoneAssumption   == None \notin Runs

VARIABLES
    pc,        \* [Runs -> the step the run is at]
    failed,    \* [Runs -> has its current job failed]
    todo,      \* [Runs -> files its loop has not passed yet]
    tracked,   \* does the table schema_migrations exist
    recorded,  \* the file names in schema_migrations
    applied,   \* [Files -> how often the file's SQL has been committed]
    defaults,  \* are default privileges set for the function's role
    granted,   \* files whose tables the function's role may use
    unheard,   \* history: runs whose ALTER DEFAULT PRIVILEGES failed unnoticed
    creator,   \* history: [Files -> the run that has committed the file]
    locked,    \* is the lock of the terraform state taken
    published, \* the run whose code the Function App has
    faults     \* faults that may still happen

database == <<tracked, recorded, applied, defaults, granted, unheard, creator>>
world    == <<locked, published, faults>>
vars     == <<pc, failed, todo, database, world>>

InfraJob    == {"queued", "infra"}
DatabaseJob == {"grant", "defaults", "lookup", "create", "check", "sql", "record", "commit"}
PublishJob  == {"publish", "done"}
Steps       == InfraJob \cup DatabaseJob \cup PublishJob

JobStart(step) ==
    IF step \in InfraJob THEN "queued"
    ELSE IF step \in DatabaseJob THEN "grant" ELSE "publish"

At(p, step)   == pc[p] = step /\ ~ failed[p]
Goto(p, step) == pc' = [pc EXCEPT ![p] = step] /\ UNCHANGED failed

\* The next file of the loop.
IsNext(p, f) == f \in todo[p] /\ \A g \in todo[p] : f <= g

TypeOK ==
    /\ pc \in [Runs -> Steps]
    /\ failed \in [Runs -> BOOLEAN]
    /\ todo \in [Runs -> SUBSET Files]
    /\ tracked \in BOOLEAN
    /\ recorded \subseteq Files
    /\ applied \in [Files -> Nat]
    /\ defaults \in BOOLEAN
    /\ granted \subseteq Files
    /\ unheard \subseteq Runs
    /\ creator \in [Files -> Runs \cup {None}]
    /\ locked \in BOOLEAN
    /\ published \in Runs \cup {None}
    /\ faults \in 0 .. MaxFaults

Init ==
    /\ pc = [p \in Runs |-> "queued"]
    /\ failed = [p \in Runs |-> FALSE]
    /\ todo = [p \in Runs |-> {}]
    /\ tracked = FALSE
    /\ recorded = {}
    /\ applied = [f \in Files |-> 0]
    /\ defaults = FALSE
    /\ granted = {}
    /\ unheard = {}
    /\ creator = [f \in Files |-> None]
    /\ locked = FALSE
    /\ published = None
    /\ faults = MaxFaults

\* (Mutants of Fail: the publish job does not need the database job; an error
\* of one file is caught and the loop goes on with the next.)
FailAndPublish(p) ==
    pc' = [pc EXCEPT ![p] = "publish"] /\ UNCHANGED <<failed, todo>>
FailAndGoOn(p) ==
    /\ UNCHANGED failed
    /\ IF pc[p] \in {"sql", "record", "commit"}
       THEN /\ pc' = [pc EXCEPT ![p] = "check"]
            /\ todo' = [todo EXCEPT ![p] = {f \in @ : ~ IsNext(p, f)}]
       ELSE pc' = [pc EXCEPT ![p] = JobStart(@)] /\ UNCHANGED todo

\* A step fails: its job stops, an open transaction is rolled back, and no job
\* that needs this one starts.
Fail(p) ==
    /\ pc' = [pc EXCEPT ![p] = JobStart(@)]
    /\ failed' = [failed EXCEPT ![p] = TRUE]
    /\ UNCHANGED todo

-----------------------------------------------------------------------------
(* The infrastructure job: terraform apply, under the lock of its state. *)

StartApply(p) ==
    /\ At(p, "queued")
    /\ locked' = TRUE
    /\ IF locked THEN Fail(p) ELSE Goto(p, "infra") /\ UNCHANGED todo
    /\ UNCHANGED <<database, published, faults>>

EndApply(p) ==
    /\ At(p, "infra")
    /\ locked' = FALSE
    /\ Goto(p, "grant")
    /\ UNCHANGED <<todo, database, published, faults>>

\* An operator forces the lock open that a killed runner has left.
ForceUnlock ==
    /\ locked
    /\ \A p \in Runs : ~ At(p, "infra")
    /\ locked' = FALSE
    /\ UNCHANGED <<pc, failed, todo, database, published, faults>>

-----------------------------------------------------------------------------
(* The database job: grant_function_role.sql, then init-db.  psql runs the script *)
(* without ON_ERROR_STOP: a statement that fails does not stop it, or the job.    *)

\* GRANT ... ON ALL TABLES: those that exist.
GrantTables(p) ==
    /\ At(p, "grant")
    /\ granted' = granted \cup recorded
    /\ Goto(p, "defaults")
    /\ UNCHANGED <<todo, tracked, recorded, applied, defaults, unheard, creator, world>>

\* The GRANT fails, for lack of the role or because another run updates the same
\* catalog row, and the script goes on.
GrantUnheard(p) ==
    /\ At(p, "grant")
    /\ faults > 0
    /\ faults' = faults - 1
    /\ Goto(p, "defaults")
    /\ UNCHANGED <<todo, database, locked, published>>

\* (Mutant of GrantDefaults: only the tables that exist are granted.)
GrantNoDefaults(p) ==
    /\ At(p, "defaults")
    /\ Goto(p, "lookup")
    /\ UNCHANGED <<todo, database, world>>

\* ALTER DEFAULT PRIVILEGES: for tables that migrations create from now on.
GrantDefaults(p) ==
    /\ At(p, "defaults")
    /\ defaults' = TRUE
    /\ Goto(p, "lookup")
    /\ UNCHANGED <<todo, tracked, recorded, applied, granted, unheard, creator, world>>

\* ALTER DEFAULT PRIVILEGES fails in the same way.
DefaultsUnheard(p) ==
    /\ At(p, "defaults")
    /\ faults > 0
    /\ faults' = faults - 1
    /\ unheard' = unheard \cup {p}
    /\ Goto(p, "lookup")
    /\ UNCHANGED <<todo, tracked, recorded, applied, defaults, granted, creator, locked,
                   published>>

\* (Mutant of LookForTable: CREATE TABLE without IF NOT EXISTS.)
AlwaysCreate(p) ==
    /\ At(p, "lookup")
    /\ todo' = [todo EXCEPT ![p] = Dir[p]]
    /\ Goto(p, "create")
    /\ UNCHANGED <<database, world>>

\* CREATE TABLE IF NOT EXISTS looks for the table ...
LookForTable(p) ==
    /\ At(p, "lookup")
    /\ todo' = [todo EXCEPT ![p] = Dir[p]]
    /\ Goto(p, IF tracked THEN "check" ELSE "create")
    /\ UNCHANGED <<database, world>>

\* ... and creates it, which fails if somebody else has done so in between.
CreateTable(p) ==
    /\ At(p, "create")
    /\ tracked' = TRUE
    /\ IF tracked THEN Fail(p) ELSE Goto(p, "check") /\ UNCHANGED todo
    /\ UNCHANGED <<recorded, applied, defaults, granted, unheard, creator, world>>

\* SELECT 1 FROM schema_migrations WHERE filename = ...
CheckFile(p) ==
    /\ At(p, "check")
    /\ \E f \in Files :
         /\ IsNext(p, f)
         /\ IF f \in recorded
            THEN todo' = [todo EXCEPT ![p] = @ \ {f}] /\ Goto(p, "check")
            ELSE Goto(p, "sql") /\ UNCHANGED todo
    /\ UNCHANGED <<database, world>>

\* The file's SQL. If its effect is there already, committed by another run
\* since the check, the SQL may find that in its way, or do without (IF NOT
\* EXISTS).
RunSql(p) ==
    /\ At(p, "sql")
    /\ \/ Goto(p, "record") /\ UNCHANGED todo
       \/ (\E f \in recorded : IsNext(p, f)) /\ Fail(p)
    /\ UNCHANGED <<database, world>>

\* (Mutant of RecordFile: no primary key on filename.)
RecordWithoutKey(p) ==
    /\ At(p, "record")
    /\ Goto(p, "commit") /\ UNCHANGED todo
    /\ UNCHANGED <<database, world>>

\* INSERT INTO schema_migrations waits for a transaction that has inserted the
\* same name, and fails if the name is there.
RecordFile(p) ==
    /\ At(p, "record")
    /\ \E f \in Files :
         /\ IsNext(p, f)
         /\ \A q \in Runs : At(q, "commit") => ~ IsNext(q, f)
         /\ IF f \in recorded THEN Fail(p) ELSE Goto(p, "commit") /\ UNCHANGED todo
    /\ UNCHANGED <<database, world>>

CommitFile(p) ==
    /\ At(p, "commit")
    /\ \E f \in Files :
         /\ IsNext(p, f)
         /\ applied' = [applied EXCEPT ![f] = @ + 1]
         /\ recorded' = recorded \cup {f}
         /\ granted' = IF defaults THEN granted \cup {f} ELSE granted
         /\ creator' = [creator EXCEPT ![f] = p]
         /\ todo' = [todo EXCEPT ![p] = @ \ {f}]
    /\ Goto(p, "check")
    /\ UNCHANGED <<tracked, defaults, unheard, world>>

EndMigrations(p) ==
    /\ At(p, "check")
    /\ todo[p] = {}
    /\ Goto(p, "publish")
    /\ UNCHANGED <<todo, database, world>>

-----------------------------------------------------------------------------
(* The publish job, and what goes wrong. *)

Publish(p) ==
    /\ At(p, "publish")
    /\ published' = p
    /\ Goto(p, "done")
    /\ UNCHANGED <<todo, database, locked, faults>>

\* A step fails for a reason of its own: a runner, a connection, broken SQL.  A
\* terraform apply that fails gives up its lock, unless its runner is killed.
Interrupt(p) ==
    /\ faults > 0
    /\ pc[p] # "done"
    /\ ~ failed[p]
    /\ faults' = faults - 1
    /\ locked' \in IF pc[p] = "infra" THEN BOOLEAN ELSE {locked}
    /\ Fail(p)
    /\ UNCHANGED <<database, published>>

\* Somebody re-runs the failed job, or all jobs of the run.
Rerun(p) ==
    /\ failed[p]
    /\ failed' = [failed EXCEPT ![p] = FALSE]
    /\ \E step \in {pc[p], "queued"} : pc' = [pc EXCEPT ![p] = step]
    /\ UNCHANGED <<todo, database, world>>

Migrate(p) ==
    \/ LookForTable(p) \/ CreateTable(p) \/ CheckFile(p) \/ RunSql(p)
    \/ RecordFile(p) \/ CommitFile(p) \/ EndMigrations(p)

Work(p) ==
    \/ StartApply(p) \/ EndApply(p) \/ GrantTables(p) \/ GrantDefaults(p)
    \/ Migrate(p) \/ Publish(p)

Fault(p) == Interrupt(p) \/ GrantUnheard(p) \/ DefaultsUnheard(p)

Next == ForceUnlock \/ \E p \in Runs : Work(p) \/ Fault(p) \/ Rerun(p)

Spec == Init /\ [][Next]_vars

\* The steps of a job go on, a run that failed is re-run, and a lock nobody holds is
\* opened.
FairSpec ==
    /\ Spec
    /\ WF_vars(ForceUnlock)
    /\ \A p \in Runs : WF_vars(Work(p)) /\ WF_vars(Rerun(p))

-----------------------------------------------------------------------------
(* Properties. *)

\* A file's SQL takes effect exactly once, and is recorded if it has, however
\* the runs overlap and fail (src/src/persist.py:157).
AppliedOnce == \A f \in Files : applied[f] = IF f \in recorded THEN 1 ELSE 0

\* A file is applied only after the files before it in some commit's directory.
AppliedInOrder ==
    \A g \in recorded : \E p \in Runs :
        g \in Dir[p] /\ \A f \in Dir[p] : f < g => f \in recorded

\* The Function App never has code whose schema is not there
\* (src/.github/workflows/deploy.yml:3).
SchemaBeforeCode == published # None => Dir[published] \subseteq recorded

\* Its role may use every table its code knows, without a manual grant for a new
\* file (src/db/bootstrap/grant_function_role.sql:29), except those a run created
\* whose own ALTER DEFAULT PRIVILEGES had failed unnoticed: a GRANT that fails takes
\* nothing away, and no run spoils the tables of another.
CodeMayUseTables ==
    published # None => \A f \in Dir[published] \ granted : creator[f] \in unheard

\* Runs that overlap and collide do not keep each other from ending, as long as
\* failed ones are re-run.
EveryRunPublishes == \A p \in Runs : <>(pc[p] = "done")

\* Why they hold: what a run at a given step knows of the database.
Passed(p) == Dir[p] \ todo[p]
Knows(p) ==
    LET in(steps) == pc[p] \in steps
    IN  /\ in({"lookup", "create", "check", "sql", "record", "commit"}) =>
               defaults \/ p \in unheard
        /\ in({"create", "check", "sql", "record", "commit"}) => todo[p] \subseteq Dir[p]
        /\ in({"create", "check", "sql", "record", "commit"}) =>
               \A f \in Passed(p) : f \in recorded /\ \A g \in todo[p] : f < g
        /\ in({"sql", "record", "commit"}) => todo[p] # {}
        /\ in(PublishJob) => Dir[p] \subseteq recorded
        /\ failed[p] => pc[p] \in {"queued", "grant", "publish"}

Inserting(p, f) == At(p, "commit") /\ IsNext(p, f)

Ready ==
    /\ TypeOK
    /\ AppliedOnce
    /\ AppliedInOrder
    /\ \A p \in Runs : Knows(p)
    /\ \A f \in recorded \ granted : creator[f] \in unheard
    /\ \A p, q \in Runs, f \in Files :
           Inserting(p, f) => f \notin recorded /\ (Inserting(q, f) => p = q)
    /\ published # None => pc[published] = "done"
=============================================================================
