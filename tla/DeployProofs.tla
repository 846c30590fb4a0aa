---------------------------- MODULE DeployProofs ----------------------------
(***************************************************************************)
(* Theorems about Deploy for every set of runs and files, every directory  *)
(* of every commit and every number of faults.                             *)
(***************************************************************************)
EXTENDS Deploy, TLAPS

-----------------------------------------------------------------------------
(* Type correctness. *)

\* A failing step leaves the pipeline variables in their types.
LEMMA FailType ==
    ASSUME TypeOK, NEW p \in Runs, Fail(p)
    PROVE  pc' \in [Runs -> Steps] /\ failed' \in [Runs -> BOOLEAN] /\ todo' = todo
<1>1. JobStart(pc[p]) \in Steps
  BY DEF JobStart, Steps, InfraJob, DatabaseJob, PublishJob
<1> QED
  BY <1>1 DEF Fail, TypeOK

\* So does going on to another step.
LEMMA GotoType ==
    ASSUME TypeOK, NEW p \in Runs, NEW step \in Steps, Goto(p, step)
    PROVE  pc' \in [Runs -> Steps] /\ failed' \in [Runs -> BOOLEAN]
  BY DEF Goto, TypeOK

LEMMA StepNames == \A step \in {"queued", "infra", "grant", "defaults", "lookup",
                     "create", "check", "sql", "record", "commit", "publish", "done"} :
                     step \in Steps
  BY DEF Steps, InfraJob, DatabaseJob, PublishJob

LEMMA TypeStep == TypeOK /\ [Next]_vars => TypeOK'
<1> SUFFICES ASSUME TypeOK, [Next]_vars
             PROVE  TypeOK'
  OBVIOUS
<1> USE StepNames, FaultsAssumption, DirAssumption
<1>1. CASE UNCHANGED vars
  BY <1>1 DEF TypeOK, vars, database, world
<1>2. ASSUME NEW p \in Runs, Work(p) \/ Fault(p) \/ Rerun(p)
      PROVE  TypeOK'
  <2>1. CASE StartApply(p)
    BY <2>1, FailType, GotoType DEF StartApply, TypeOK, database, world
  <2>2. CASE EndApply(p)
    BY <2>2, GotoType DEF EndApply, TypeOK, database, world
  <2>3. CASE GrantTables(p)
    BY <2>3, GotoType DEF GrantTables, TypeOK, world
  <2>4. CASE GrantDefaults(p)
    BY <2>4, GotoType DEF GrantDefaults, TypeOK, world
  <2>5. CASE LookForTable(p)
    BY <2>5, GotoType DEF LookForTable, TypeOK, database, world
  <2>6. CASE CreateTable(p)
    BY <2>6, FailType, GotoType DEF CreateTable, TypeOK, world
  <2>7. CASE CheckFile(p)
    BY <2>7, GotoType DEF CheckFile, TypeOK, database, world
  <2>8. CASE RunSql(p)
    BY <2>8, FailType, GotoType DEF RunSql, TypeOK, database, world
  <2>9. CASE RecordFile(p)
    BY <2>9, FailType, GotoType DEF RecordFile, TypeOK, database, world
  <2>10. CASE CommitFile(p)
    BY <2>10, GotoType DEF CommitFile, TypeOK, world
  <2>11. CASE EndMigrations(p)
    BY <2>11, GotoType DEF EndMigrations, TypeOK, database, world
  <2>12. CASE Publish(p)
    BY <2>12, GotoType DEF Publish, TypeOK, database, world
  <2>13. CASE Interrupt(p)
    BY <2>13, FailType DEF Interrupt, TypeOK, database, world
  <2>14. CASE Rerun(p)
    BY <2>14 DEF Rerun, TypeOK, database, world
  <2>15. CASE GrantUnheard(p)
    BY <2>15, GotoType DEF GrantUnheard, TypeOK, database, world
  <2>16. CASE DefaultsUnheard(p)
    BY <2>16, GotoType DEF DefaultsUnheard, TypeOK, world
  <2> QED
    BY <1>2, <2>1, <2>2, <2>3, <2>4, <2>5, <2>6, <2>7, <2>8, <2>9, <2>10,
       <2>11, <2>12, <2>13, <2>14, <2>15, <2>16 DEF Work, Fault, Migrate
<1>3. CASE ForceUnlock
  BY <1>3 DEF ForceUnlock, TypeOK, database
<1> QED
  BY <1>1, <1>2, <1>3 DEF Next

LEMMA TypeInit == Init => TypeOK
<1> SUFFICES ASSUME Init
             PROVE  TypeOK
  OBVIOUS
<1>1. pc \in [Runs -> Steps]
  BY StepNames DEF Init
<1>2. faults \in 0 .. MaxFaults
  BY FaultsAssumption DEF Init
<1>3. applied \in [Files -> Nat]
  BY DEF Init
<1> QED
  BY <1>1, <1>2, <1>3 DEF Init, TypeOK

-----------------------------------------------------------------------------
(* The inductive invariant: which runs a step disturbs. *)

\* A step of run p: the other runs stay where they are, and the database only
\* grows.
OnlyOf(p) ==
    /\ \A q \in Runs \ {p} : pc'[q] = pc[q] /\ failed'[q] = failed[q] /\ todo'[q] = todo[q]
    /\ defaults => defaults'
    /\ recorded \subseteq recorded'
    /\ granted \subseteq granted'
    /\ unheard \subseteq unheard'

\* What the other runs know stays true.
LEMMA OthersKnow ==
    ASSUME TypeOK, NEW p \in Runs, OnlyOf(p), NEW q \in Runs \ {p}, Knows(q)
    PROVE  Knows(q)'
<1>1. pc'[q] = pc[q] /\ failed'[q] = failed[q] /\ todo'[q] = todo[q]
  BY DEF OnlyOf
<1>2. Passed(q)' = Passed(q)
  BY <1>1 DEF Passed
<1> QED
  BY <1>1, <1>2 DEF Knows, OnlyOf

\* A step that leaves the records alone keeps Ready if its run knows what it
\* has to know and has not come to the end of a transaction.
LEMMA QuietStep ==
    ASSUME Ready, TypeOK', NEW p \in Runs, OnlyOf(p), Knows(p)',
           UNCHANGED <<recorded, applied, creator>>,
           pc'[p] = "commit" => failed'[p],
           published' # None /\ published' # p => published' = published,
           published' = p => pc'[p] = "done"
    PROVE  Ready'
<1>1. AppliedOnce' /\ AppliedInOrder'
  BY DEF Ready, AppliedOnce, AppliedInOrder
<1>2. \A q \in Runs : Knows(q)'
  BY OthersKnow DEF Ready
<1>3. \A f \in recorded' \ granted' : creator'[f] \in unheard'
  BY DEF Ready, OnlyOf
<1>4. ASSUME NEW q \in Runs, NEW r \in Runs, NEW f \in Files, Inserting(q, f)'
      PROVE  f \notin recorded' /\ (Inserting(r, f)' => q = r)
  <2>1. \A s \in Runs : Inserting(s, f)' => s # p /\ Inserting(s, f)
    BY DEF Inserting, At, IsNext, OnlyOf
  <2> QED
    BY <1>4, <2>1 DEF Ready
<1>5. published' # None => pc'[published'] = "done"
  BY DEF Ready, OnlyOf, TypeOK
<1> QED
  BY <1>1, <1>2, <1>3, <1>4, <1>5 DEF Ready

\* A step that fails knows nothing it did not know.
LEMMA FailKnows ==
    ASSUME Ready, NEW p \in Runs, Fail(p), defaults' = defaults,
           recorded' = recorded, granted' = granted, unheard' = unheard
    PROVE  Knows(p)' /\ pc'[p] # "commit"
<1>1. pc'[p] = JobStart(pc[p]) /\ failed'[p] /\ todo' = todo
  BY DEF Fail, Ready, TypeOK
<1>2. Knows(p) /\ pc[p] \in Steps
  BY DEF Ready, TypeOK
<1> QED
  BY <1>1, <1>2 DEF JobStart, Knows, Steps, InfraJob, DatabaseJob, PublishJob

LEMMA FailReady ==
    ASSUME Ready, TypeOK', NEW p \in Runs, Fail(p), UNCHANGED <<database, published>>,
           pc[p] # "done"
    PROVE  Ready'
<1>1. OnlyOf(p)
  BY DEF Fail, OnlyOf, Ready, TypeOK, database
<1>2. Knows(p)' /\ pc'[p] # "commit"
  BY FailKnows DEF database
<1>3. published # p
  BY NoneAssumption DEF Ready
<1> QED
  BY <1>1, <1>2, <1>3, QuietStep DEF database

-----------------------------------------------------------------------------
(* The inductive invariant: one lemma per step. *)

LEMMA StartApplyReady ==
    ASSUME Ready, TypeOK', NEW p \in Runs, StartApply(p)
    PROVE  Ready'
<1>1. CASE Fail(p)
  BY <1>1, FailReady DEF StartApply, At
<1>2. CASE Goto(p, "infra") /\ UNCHANGED todo
  <2>1. OnlyOf(p) /\ pc'[p] = "infra" /\ ~ failed'[p]
    BY <1>2 DEF StartApply, At, Goto, OnlyOf, Ready, TypeOK, database
  <2>2. Knows(p)'
    BY <2>1 DEF Knows, PublishJob
  <2>3. published # p
    BY NoneAssumption DEF Ready, StartApply, At
  <2> QED
    BY <2>1, <2>2, <2>3, QuietStep DEF StartApply, database
<1> QED
  BY <1>1, <1>2 DEF StartApply

LEMMA EndApplyReady ==
    ASSUME Ready, TypeOK', NEW p \in Runs, EndApply(p)
    PROVE  Ready'
<1>1. OnlyOf(p) /\ pc'[p] = "grant" /\ ~ failed'[p]
  BY DEF EndApply, At, Goto, OnlyOf, Ready, TypeOK, database
<1>2. Knows(p)'
  BY <1>1 DEF Knows, PublishJob
<1>3. published # p
  BY NoneAssumption DEF Ready, EndApply, At
<1> QED
  BY <1>1, <1>2, <1>3, QuietStep DEF EndApply, database

LEMMA GrantTablesReady ==
    ASSUME Ready, TypeOK', NEW p \in Runs, GrantTables(p)
    PROVE  Ready'
<1>1. OnlyOf(p) /\ pc'[p] = "defaults" /\ ~ failed'[p]
  BY DEF GrantTables, At, Goto, OnlyOf, Ready, TypeOK
<1>2. Knows(p)'
  BY <1>1 DEF Knows, PublishJob
<1>3. published # p
  BY NoneAssumption DEF Ready, GrantTables, At
<1> QED
  BY <1>1, <1>2, <1>3, QuietStep DEF GrantTables, world

LEMMA GrantDefaultsReady ==
    ASSUME Ready, TypeOK', NEW p \in Runs, GrantDefaults(p)
    PROVE  Ready'
<1>1. OnlyOf(p) /\ pc'[p] = "lookup" /\ ~ failed'[p] /\ defaults'
  BY DEF GrantDefaults, At, Goto, OnlyOf, Ready, TypeOK
<1>2. Knows(p)'
  BY <1>1 DEF Knows, PublishJob
<1>3. published # p
  BY NoneAssumption DEF Ready, GrantDefaults, At
<1> QED
  BY <1>1, <1>2, <1>3, QuietStep DEF GrantDefaults, world

\* A GRANT that fails unnoticed changes nothing.
LEMMA GrantUnheardReady ==
    ASSUME Ready, TypeOK', NEW p \in Runs, GrantUnheard(p)
    PROVE  Ready'
<1>1. OnlyOf(p) /\ pc'[p] = "defaults" /\ ~ failed'[p]
  BY DEF GrantUnheard, At, Goto, OnlyOf, Ready, TypeOK, database
<1>2. Knows(p)'
  BY <1>1 DEF Knows, PublishJob
<1>3. published # p
  BY NoneAssumption DEF Ready, GrantUnheard, At
<1> QED
  BY <1>1, <1>2, <1>3, QuietStep DEF GrantUnheard, database

\* After ALTER DEFAULT PRIVILEGES the run may be one of those that went unheard.
LEMMA DefaultsUnheardReady ==
    ASSUME Ready, TypeOK', NEW p \in Runs, DefaultsUnheard(p)
    PROVE  Ready'
<1>1. OnlyOf(p) /\ pc'[p] = "lookup" /\ ~ failed'[p] /\ p \in unheard'
  BY DEF DefaultsUnheard, At, Goto, OnlyOf, Ready, TypeOK
<1>2. Knows(p)'
  BY <1>1 DEF Knows, PublishJob
<1>3. published # p
  BY NoneAssumption DEF Ready, DefaultsUnheard, At
<1> QED
  BY <1>1, <1>2, <1>3, QuietStep DEF DefaultsUnheard

\* The lock of the terraform state is nobody's concern here.
LEMMA ForceUnlockReady ==
    ASSUME Ready, TypeOK', ForceUnlock
    PROVE  Ready'
  BY DEF ForceUnlock, database, Ready, AppliedOnce, AppliedInOrder, Knows, Passed,
         Inserting, At, IsNext

\* The loop starts with the whole directory.
LEMMA LookForTableReady ==
    ASSUME Ready, TypeOK', NEW p \in Runs, LookForTable(p)
    PROVE  Ready'
<1>1. /\ OnlyOf(p)
      /\ pc'[p] \in {"check", "create"}
      /\ ~ failed'[p]
      /\ todo'[p] = Dir[p]
  BY DEF LookForTable, At, Goto, OnlyOf, Ready, TypeOK, database
<1>2. defaults' \/ p \in unheard'
  BY DEF LookForTable, At, Ready, Knows, database
<1>3. Passed(p)' = {}
  BY <1>1 DEF Passed
<1>4. Knows(p)'
  BY <1>1, <1>2, <1>3 DEF Knows, PublishJob
<1>5. published # p
  BY NoneAssumption DEF Ready, LookForTable, At
<1> QED
  BY <1>1, <1>4, <1>5, QuietStep DEF LookForTable, database, world

\* A run that has not changed its todo at a step of the loop knows what it knew.
LEMMA LoopKnows ==
    ASSUME Ready, NEW p \in Runs, UNCHANGED <<recorded, granted, defaults, unheard>>,
           todo'[p] = todo[p], ~ failed'[p],
           pc[p] \in {"create", "check", "sql", "record"},
           pc'[p] \in {"check", "sql", "record", "commit"},
           pc'[p] # "check" => todo[p] # {}
    PROVE  Knows(p)'
<1>1. Knows(p) /\ Passed(p)' = Passed(p)
  BY DEF Ready, Passed
<1> QED
  BY <1>1 DEF Knows, PublishJob

LEMMA CreateTableReady ==
    ASSUME Ready, TypeOK', NEW p \in Runs, CreateTable(p)
    PROVE  Ready'
<1>1. CASE Fail(p)
  <2>1. OnlyOf(p)
    BY <1>1 DEF CreateTable, Fail, OnlyOf, Ready, TypeOK
  <2>2. Knows(p)' /\ pc'[p] # "commit"
    BY <1>1, FailKnows DEF CreateTable
  <2>3. published # p
    BY NoneAssumption DEF Ready, CreateTable, At
  <2> QED
    BY <2>1, <2>2, <2>3, QuietStep DEF CreateTable, world
<1>2. CASE Goto(p, "check") /\ UNCHANGED todo
  <2>1. OnlyOf(p) /\ pc'[p] = "check" /\ ~ failed'[p] /\ todo'[p] = todo[p]
    BY <1>2 DEF CreateTable, At, Goto, OnlyOf, Ready, TypeOK
  <2>2. Knows(p)'
    BY <2>1, LoopKnows DEF CreateTable, At
  <2>3. published # p
    BY NoneAssumption DEF Ready, CreateTable, At
  <2> QED
    BY <2>1, <2>2, <2>3, QuietStep DEF CreateTable, world
<1> QED
  BY <1>1, <1>2 DEF CreateTable

\* A file that is recorded is passed: the next of the loop, so that the files
\* that are left come after it.
LEMMA CheckFileReady ==
    ASSUME Ready, TypeOK', NEW p \in Runs, CheckFile(p)
    PROVE  Ready'
<1>1. PICK f \in Files :
        /\ IsNext(p, f)
        /\ \/ f \in recorded /\ todo' = [todo EXCEPT ![p] = @ \ {f}] /\ Goto(p, "check")
           \/ Goto(p, "sql") /\ UNCHANGED todo
  BY DEF CheckFile
<1>2. /\ OnlyOf(p)
      /\ pc'[p] \in {"check", "sql"}
      /\ ~ failed'[p]
  BY <1>1 DEF CheckFile, At, Goto, OnlyOf, Ready, TypeOK, database
<1>3. Knows(p) /\ pc[p] = "check"
  BY DEF CheckFile, At, Ready
<1>4. Knows(p)'
  <2>1. CASE f \in recorded /\ todo' = [todo EXCEPT ![p] = @ \ {f}] /\ Goto(p, "check")
    <3>1. todo'[p] = todo[p] \ {f} /\ pc'[p] = "check"
      BY <2>1 DEF Goto, Ready, TypeOK
    <3>2. Passed(p)' \subseteq Passed(p) \cup {f}
      BY <3>1 DEF Passed
    <3>3. \A g \in todo'[p] : f < g
      BY <1>1, <3>1, FilesAssumption DEF IsNext, Ready, TypeOK
    <3>4. /\ defaults' = defaults /\ recorded' = recorded /\ unheard' = unheard
          /\ todo'[p] \subseteq Dir[p]
      BY <1>3, <3>1 DEF CheckFile, database, Knows
    <3>5. \A e \in Passed(p)' : e \in recorded /\ \A g \in todo'[p] : e < g
      BY <1>3, <2>1, <3>1, <3>2, <3>3 DEF Knows
    <3> QED
      BY <1>2, <1>3, <3>1, <3>4, <3>5 DEF Knows, PublishJob
  <2>2. CASE Goto(p, "sql") /\ UNCHANGED todo
    BY <1>1, <1>2, <1>3, <2>2, LoopKnows DEF CheckFile, database, IsNext, Goto, Ready, TypeOK
  <2> QED
    BY <1>1, <2>1, <2>2
<1>5. published # p
  BY <1>3, NoneAssumption DEF Ready
<1> QED
  BY <1>2, <1>4, <1>5, QuietStep DEF CheckFile, database, world

LEMMA RunSqlReady ==
    ASSUME Ready, TypeOK', NEW p \in Runs, RunSql(p)
    PROVE  Ready'
<1>1. CASE Fail(p)
  BY <1>1, FailReady DEF RunSql, At, world
<1>2. CASE Goto(p, "record") /\ UNCHANGED todo
  <2>1. OnlyOf(p) /\ pc'[p] = "record" /\ ~ failed'[p] /\ todo'[p] = todo[p]
    BY <1>2 DEF RunSql, At, Goto, OnlyOf, Ready, TypeOK, database
  <2>2. todo[p] # {}
    BY DEF RunSql, At, Ready, Knows
  <2>3. Knows(p)'
    BY <2>1, <2>2, LoopKnows DEF RunSql, At, database
  <2>4. published # p
    BY NoneAssumption DEF Ready, RunSql, At
  <2> QED
    BY <2>1, <2>3, <2>4, QuietStep DEF RunSql, database, world
<1> QED
  BY <1>1, <1>2 DEF RunSql

\* The insert of a name that nobody has recorded or is about to record.
LEMMA RecordFileReady ==
    ASSUME Ready, TypeOK', NEW p \in Runs, RecordFile(p)
    PROVE  Ready'
<1>1. PICK f \in Files :
        /\ IsNext(p, f)
        /\ \A q \in Runs : At(q, "commit") => ~ IsNext(q, f)
        /\ \/ Fail(p)
           \/ f \notin recorded /\ Goto(p, "commit") /\ UNCHANGED todo
  BY DEF RecordFile
<1>2. CASE Fail(p)
  BY <1>2, FailReady DEF RecordFile, At, world
<1>3. CASE f \notin recorded /\ Goto(p, "commit") /\ UNCHANGED todo
  <2>1. /\ OnlyOf(p)
        /\ pc'[p] = "commit" /\ ~ failed'[p] /\ todo'[p] = todo[p]
        /\ UNCHANGED <<database, published>>
    BY <1>3 DEF RecordFile, At, Goto, OnlyOf, Ready, TypeOK, database, world
  <2>2. Knows(p)'
    BY <1>1, <2>1, LoopKnows DEF RecordFile, At, database, IsNext
  <2>3. \A q \in Runs : Knows(q)'
    BY <2>1, <2>2, OthersKnow DEF Ready
  <2>4. AppliedOnce' /\ AppliedInOrder' /\ (\A e \in recorded' \ granted' : creator'[e] \in unheard')
    BY <2>1 DEF Ready, AppliedOnce, AppliedInOrder, database
  <2>5. published' # None => pc'[published'] = "done"
    <3>1. published # p
      BY NoneAssumption DEF Ready, RecordFile, At
    <3> QED
      BY <2>1, <3>1 DEF Ready, OnlyOf, TypeOK
  <2>6. ASSUME NEW q \in Runs, NEW r \in Runs, NEW g \in Files, Inserting(q, g)'
        PROVE  g \notin recorded' /\ (Inserting(r, g)' => q = r)
    <3>1. \A s \in Runs \ {p} : Inserting(s, g)' => Inserting(s, g) /\ g # f
      BY <1>1, <2>1 DEF Inserting, At, IsNext, OnlyOf
    <3>2. Inserting(p, g)' => g = f
      BY <1>1, <2>1, FilesAssumption DEF Inserting, IsNext, Ready, TypeOK
    <3> QED
      BY <1>3, <2>1, <2>6, <3>1, <3>2 DEF Ready, database
  <2> QED
    BY <2>3, <2>4, <2>5, <2>6 DEF Ready
<1> QED
  BY <1>1, <1>2, <1>3

\* A transaction commits: its file was in nobody's record, and the files before
\* it in this run's directory are in the record.
LEMMA CommitFileReady ==
    ASSUME Ready, TypeOK', NEW p \in Runs, CommitFile(p)
    PROVE  Ready'
<1>1. PICK f \in Files :
        /\ IsNext(p, f)
        /\ applied' = [applied EXCEPT ![f] = @ + 1]
        /\ recorded' = recorded \cup {f}
        /\ granted' = IF defaults THEN granted \cup {f} ELSE granted
        /\ creator' = [creator EXCEPT ![f] = p]
        /\ todo' = [todo EXCEPT ![p] = @ \ {f}]
  BY DEF CommitFile
<1>2. Knows(p) /\ pc[p] = "commit" /\ Inserting(p, f) /\ f \notin recorded
  BY <1>1 DEF Ready, CommitFile, At, Inserting
<1>3. /\ OnlyOf(p)
      /\ pc'[p] = "check" /\ ~ failed'[p] /\ todo'[p] = todo[p] \ {f}
      /\ (defaults \/ p \in unheard) /\ UNCHANGED <<defaults, unheard, published>>
  BY <1>1, <1>2 DEF CommitFile, At, Goto, OnlyOf, Ready, TypeOK, Knows, world
<1>4. todo[p] \subseteq Dir[p] /\ \A e \in Passed(p) : e \in recorded
  BY <1>2 DEF Knows
<1>5. Knows(p)'
  <2>1. Passed(p)' \subseteq Passed(p) \cup {f}
    BY <1>3 DEF Passed
  <2>2. \A g \in todo'[p] : f < g
    BY <1>1, <1>3, FilesAssumption DEF IsNext, Ready, TypeOK
  <2>3. \A e \in Passed(p)' : e \in recorded' /\ \A g \in todo'[p] : e < g
    BY <1>1, <1>2, <1>3, <2>1, <2>2 DEF Knows
  <2> QED
    BY <1>3, <1>4, <2>3 DEF Knows, PublishJob
<1>6. \A q \in Runs : Knows(q)'
  BY <1>3, <1>5, OthersKnow DEF Ready
<1>7. AppliedOnce'
  BY <1>1, <1>2 DEF Ready, TypeOK, AppliedOnce
<1>8. AppliedInOrder'
  <2>1. f \in Dir[p] /\ \A e \in Dir[p] : e < f => e \in recorded
    BY <1>1, <1>4, FilesAssumption, DirAssumption DEF IsNext, Passed, Ready, TypeOK
  <2> QED
    BY <1>1, <2>1 DEF Ready, AppliedInOrder
<1>9. \A e \in recorded' \ granted' : creator'[e] \in unheard'
  <2>1. creator'[f] = p /\ \A e \in Files \ {f} : creator'[e] = creator[e]
    BY <1>1 DEF Ready, TypeOK
  <2>2. f \in granted' \/ p \in unheard'
    BY <1>1, <1>3
  <2> QED
    BY <1>1, <1>3, <2>1, <2>2 DEF Ready, TypeOK
<1>10. ASSUME NEW q \in Runs, NEW r \in Runs, NEW g \in Files, Inserting(q, g)'
       PROVE  g \notin recorded' /\ (Inserting(r, g)' => q = r)
  <2>1. \A s \in Runs : Inserting(s, g)' => s # p /\ Inserting(s, g)
    BY <1>3 DEF Inserting, At, IsNext, OnlyOf
  <2>2. g # f
    BY <1>2, <1>10, <2>1 DEF Ready
  <2> QED
    BY <1>1, <1>10, <2>1, <2>2 DEF Ready
<1>11. published' # None => pc'[published'] = "done"
  BY <1>2, <1>3, NoneAssumption DEF Ready, OnlyOf, TypeOK
<1> QED
  BY <1>6, <1>7, <1>8, <1>9, <1>10, <1>11 DEF Ready

\* With nothing left to do, the whole directory is recorded.
LEMMA EndMigrationsReady ==
    ASSUME Ready, TypeOK', NEW p \in Runs, EndMigrations(p)
    PROVE  Ready'
<1>1. /\ OnlyOf(p)
      /\ pc'[p] = "publish" /\ ~ failed'[p]
      /\ UNCHANGED <<database, published>>
  BY DEF EndMigrations, At, Goto, OnlyOf, Ready, TypeOK, database, world
<1>2. Dir[p] \subseteq recorded
  BY DEF EndMigrations, At, Ready, Knows, Passed
<1>3. Knows(p)'
  BY <1>1, <1>2 DEF Knows, Ready, database
<1>4. published # p
  BY NoneAssumption DEF Ready, EndMigrations, At
<1> QED
  BY <1>1, <1>3, <1>4, QuietStep DEF database

LEMMA PublishReady ==
    ASSUME Ready, TypeOK', NEW p \in Runs, Publish(p)
    PROVE  Ready'
<1>1. /\ OnlyOf(p)
      /\ pc'[p] = "done" /\ ~ failed'[p]
      /\ UNCHANGED database
      /\ published' = p
  BY DEF Publish, At, Goto, OnlyOf, Ready, TypeOK, database
<1>2. Dir[p] \subseteq recorded
  BY DEF Publish, At, Ready, Knows, PublishJob
<1>3. Knows(p)'
  BY <1>1, <1>2 DEF Knows, database
<1> QED
  BY <1>1, <1>3, QuietStep DEF database

LEMMA RerunReady ==
    ASSUME Ready, TypeOK', NEW p \in Runs, Rerun(p)
    PROVE  Ready'
<1>1. Knows(p) /\ pc[p] \in {"queued", "grant", "publish"}
  BY DEF Rerun, Ready, Knows
<1>2. /\ OnlyOf(p)
      /\ pc'[p] \in {"queued", pc[p]} /\ ~ failed'[p]
      /\ UNCHANGED <<database, published>>
  BY DEF Rerun, OnlyOf, Ready, TypeOK, database, world
<1>3. Knows(p)'
  BY <1>1, <1>2 DEF Knows, PublishJob, database
<1>4. published # p
  BY <1>1, NoneAssumption DEF Ready
<1> QED
  BY <1>1, <1>2, <1>3, <1>4, QuietStep DEF database

-----------------------------------------------------------------------------
(* The theorems. *)

LEMMA ReadyInit == Init => Ready
<1> SUFFICES ASSUME Init
             PROVE  Ready
  OBVIOUS
<1>1. TypeOK
  BY TypeInit
<1>2. AppliedOnce /\ AppliedInOrder
  BY DEF Init, AppliedOnce, AppliedInOrder
<1>3. \A p \in Runs : Knows(p)
  BY DEF Init, Knows, PublishJob
<1> QED
  BY <1>1, <1>2, <1>3 DEF Init, Ready, Inserting, At

LEMMA ReadyStep == Ready /\ [Next]_vars => Ready'
<1> SUFFICES ASSUME Ready, [Next]_vars
             PROVE  Ready'
  OBVIOUS
<1>1. TypeOK'
  BY TypeStep DEF Ready
<1>2. CASE UNCHANGED vars
  BY <1>2 DEF vars, database, world, Ready, TypeOK, AppliedOnce, AppliedInOrder, Knows, Passed,
              Inserting, At, IsNext
<1>3. ASSUME NEW p \in Runs, Work(p) \/ Fault(p) \/ Rerun(p)
      PROVE  Ready'
  <2>1. CASE Interrupt(p)
    BY <1>1, <2>1, FailReady DEF Interrupt
  <2> QED
    BY <1>1, <1>3, <2>1, StartApplyReady, EndApplyReady, GrantTablesReady,
       GrantDefaultsReady, LookForTableReady, CreateTableReady, CheckFileReady,
       RunSqlReady, RecordFileReady, CommitFileReady, EndMigrationsReady,
       PublishReady, RerunReady, GrantUnheardReady, DefaultsUnheardReady
       DEF Work, Fault, Migrate
<1> QED
  BY <1>1, <1>2, <1>3, ForceUnlockReady DEF Next

\* The inductive invariant: what each run knows of the database is true.
THEOREM ReadyAlways == Spec => []Ready
  BY ReadyInit, ReadyStep, PTL DEF Spec

\* A file's SQL takes effect exactly once, and is recorded if it has.
THEOREM EveryFileAppliedOnce == Spec => []AppliedOnce
<1>1. Ready => AppliedOnce
  BY DEF Ready
<1> QED
  BY <1>1, ReadyAlways, PTL

\* A file is applied after the files before it in some commit's directory.
THEOREM FilesAppliedInOrder == Spec => []AppliedInOrder
<1>1. Ready => AppliedInOrder
  BY DEF Ready
<1> QED
  BY <1>1, ReadyAlways, PTL

\* The run whose code is published knows that the schema is there.
LEMMA PublishedKnows ==
    ASSUME Ready, published # None
    PROVE  Dir[published] \subseteq recorded
<1>1. published \in Runs /\ pc[published] \in PublishJob
  BY DEF Ready, TypeOK, PublishJob
<1> QED
  BY <1>1 DEF Ready, Knows

\* Published code finds every table of its schema.
THEOREM PublishedCodeHasSchema == Spec => []SchemaBeforeCode
<1>1. Ready => SchemaBeforeCode
  BY PublishedKnows DEF SchemaBeforeCode
<1> QED
  BY <1>1, ReadyAlways, PTL

\* It may use every one of them, except those of a run whose ALTER DEFAULT PRIVILEGES
\* failed unnoticed.
THEOREM PublishedCodeMayUseTables == Spec => []CodeMayUseTables
<1>1. Ready => CodeMayUseTables
  BY PublishedKnows DEF Ready, CodeMayUseTables
<1> QED
  BY <1>1, ReadyAlways, PTL
=============================================================================
