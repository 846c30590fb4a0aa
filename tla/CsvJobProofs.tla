---------------------------- MODULE CsvJobProofs ----------------------------
(***************************************************************************)
(* Theorems about CsvJob for every set of workers, objects, versions and   *)
(* chunk sizes, every content, and either value of Overlap.                *)
(***************************************************************************)
EXTENDS CsvJob, NumberLemmas, FiniteSetTheorems, TLAPS

-----------------------------------------------------------------------------
(* Facts about the operators of the model. *)

\* The rows of an object are finitely many positive numbers.
LEMMA RowsType ==
    ASSUME NEW u \in Units
    PROVE  Rows(u) \subseteq Nat \ {0} /\ IsFiniteSet(Rows(u))
<1> DEFINE file == Content[u]
<1>1. file \in Seq(RowClasses)
  BY ContentAssumption
<1>2. Rows(u) = 1 .. Len(file) /\ Len(file) \in Nat
  BY <1>1 DEF Rows
<1>3. IsFiniteSet(1 .. Len(file))
  BY <1>2, FS_Interval
<1> QED
  BY <1>2, <1>3

\* Versions are positive numbers, among them those up to the bound of each name.
LEMMA VersionsType ==
    /\ \A v \in Versions \cup {0} : v \in Nat
    /\ \A n \in Names : MaxVersion[n] \in Nat /\ \A k \in 1 .. MaxVersion[n] : k \in Versions
  BY BoundsAssumption DEF Versions

\* Chunks are numbered from 1.
LEMMA ChunkOfType ==
    ASSUME NEW r \in Nat \ {0}, NEW size \in Nat \ {0}
    PROVE  ChunkOf(r, size) \in Nat \ {0}
  BY DEF ChunkOf

\* A chunk is a finite set of rows.
LEMMA ChunkType ==
    ASSUME NEW u \in Units, NEW k \in Nat
    PROVE  Chunk(u, k) \subseteq Rows(u) /\ IsFiniteSet(Chunk(u, k))
  BY RowsType, FS_Subset DEF Chunk

\* The first k chunks are the first k - 1 chunks and chunk k; there is no chunk 0.
LEMMA UpToStep ==
    ASSUME NEW u \in Units, NEW k \in Nat \ {0}
    PROVE  UpTo(u, k) = UpTo(u, k - 1) \cup Chunk(u, k) /\ UpTo(u, 0) = {}
<1>1. \A r \in Rows(u) : ChunkOf(r, u.size) \in Nat \ {0}
  BY RowsType, ChunkOfType, SizesAssumption DEF Units
<1> QED
  BY <1>1 DEF UpTo, Chunk

-----------------------------------------------------------------------------
(* Type correctness. *)

\* The statements on an ingest_run row keep it a row.
LEMMA RunType ==
    ASSUME NEW run \in Run
    PROVE  /\ Reclaimed(run) \in Run /\ Completed(run) \in Run /\ Failed(run) \in Run
           /\ [run EXCEPT !.aged = TRUE] \in Run
           /\ \A k, m, n \in Nat : Progressed(run, k, m, n) \in Run
<1>1. \A k, m, n \in Nat : Progressed(run, k, m, n) \in Run
  <2> SUFFICES ASSUME NEW k \in Nat, NEW m \in Nat, NEW n \in Nat
               PROVE  Progressed(run, k, m, n) \in Run
    OBVIOUS
  <2>1. run.read + m \in Nat /\ run.valid + n \in Nat
    BY DEF Run
  <2>2. ASSUME NEW x \in Nat, NEW y \in Nat
        PROVE  [run EXCEPT !.last = k, !.read = x, !.valid = y] \in Run
    BY DEF Run
  <2> QED
    BY <2>1, <2>2 DEF Progressed
<1>2. Reclaimed(run) \in Run /\ [run EXCEPT !.aged = TRUE] \in Run
  BY DEF Run, Status, Reclaimed
<1>3. Completed(run) \in Run /\ Failed(run) \in Run
  BY DEF Run, Status, Completed, Failed
<1> QED
  BY <1>1, <1>2, <1>3

\* What each statement makes of the status and of the resume point.
LEMMA RunEffect ==
    ASSUME NEW run \in Run
    PROVE  /\ Reclaimed(run).status = "running" /\ Reclaimed(run).last = run.last
           /\ Completed(run).status = "completed" /\ Completed(run).last = run.last
           /\ Failed(run).status = "failed" /\ Failed(run).last = run.last
           /\ \A k, m, n : /\ Progressed(run, k, m, n).status = run.status
                          /\ Progressed(run, k, m, n).last = k
  BY DEF Run, Reclaimed, Completed, Failed, Progressed

\* The row that is not there and the row INSERT creates are rows.
LEMMA NewRunType == AbsentRun \in Run /\ NewRun \in Run
  BY DEF Run, Status, AbsentRun, NewRun

\* The initial state is well typed.
LEMMA InitType == Init => TypeOK
<1> SUFFICES ASSUME Init PROVE TypeOK
  OBVIOUS
<1>1. IsFiniteSet({})
  BY FS_EmptySet
<1>2. ledger \in [Units -> Run]
  BY NewRunType DEF Init
<1>3. faults \in 0 .. MaxFaults
  BY BoundsAssumption DEF Init
<1>4. loaded \in [Units -> SUBSET Nat] /\ quarantine \in [Units -> SUBSET Nat]
  BY DEF Init
<1>5. /\ landing \in [Names -> Versions \cup {0}]
      /\ processed \in [Names -> Versions \cup {0}]
      /\ written \in [Names -> Versions \cup {0}]
      /\ late \in BOOLEAN
  BY DEF Init
<1>6. /\ pc \in [Workers -> Phases] /\ todo \in [Workers -> SUBSET Units]
      /\ \A w \in Workers : pc[w] \notin {"idle", "next"} => unit[w] \in Units
  BY DEF Init, Phases
<1>7. unit \in [Workers -> Units \cup {NoUnit}]
  BY DEF Init
<1>8. next \in [Workers -> Nat \ {0}]
  BY DEF Init
<1>9. good \in [Workers -> SUBSET Nat] /\ \A w \in Workers : IsFiniteSet(good[w])
  BY <1>1 DEF Init
<1> QED
  BY <1>2, <1>3, <1>4, <1>5, <1>6, <1>7, <1>8, <1>9 DEF TypeOK

\* Every step keeps the types.
LEMMA NextType == TypeOK /\ [Next]_vars => TypeOK'
<1> SUFFICES ASSUME TypeOK, [Next]_vars PROVE TypeOK'
  OBVIOUS
<1> USE DEF TypeOK, Phases, Holding, Archiving, durable, local, world, SetRun, Goto,
        HoldFrom, Take, Spend, Unchanged
<1>0. IsFiniteSet({})
  BY FS_EmptySet
<1> DEFINE LocalType ==
      /\ pc \in [Workers -> Phases] /\ todo \in [Workers -> SUBSET Units]
      /\ unit \in [Workers -> Units \cup {NoUnit}] /\ next \in [Workers -> Nat \ {0}]
      /\ good \in [Workers -> SUBSET Nat] /\ \A w \in Workers : IsFiniteSet(good[w])
      /\ \A w \in Workers : pc[w] \notin {"idle", "next"} => unit[w] \in Units
<1>e. ASSUME NEW w \in Workers, EndIteration(w) PROVE LocalType'
  <2>1. pc' \in [Workers -> Phases] /\ todo' \in [Workers -> SUBSET Units]
    BY <1>e DEF EndIteration
  <2>2. unit' \in [Workers -> Units \cup {NoUnit}] /\ next' \in [Workers -> Nat \ {0}]
    BY <1>e DEF EndIteration
  <2>3. good' \in [Workers -> SUBSET Nat] /\ \A x \in Workers : IsFiniteSet(good'[x])
    BY <1>e, <1>0 DEF EndIteration
  <2>4. \A x \in Workers : pc'[x] \notin {"idle", "next"} => unit'[x] \in Units
    BY <1>e DEF EndIteration
  <2> QED
    BY <2>1, <2>2, <2>3, <2>4
<1>1. ASSUME NEW n \in Names, Put(n) PROVE TypeOK'
  <2>1. written[n] \in Versions \cup {0} /\ written[n] < MaxVersion[n]
    BY <1>1 DEF Put
  <2>2. written[n] + 1 \in 1 .. MaxVersion[n]
    BY <2>1, VersionsType
  <2>3. written[n] + 1 \in Versions
    BY <2>2, VersionsType
  <2> QED
    BY <1>1, <2>3 DEF Put
<1>2. CASE ClockPasses
  BY <1>2 DEF ClockPasses
<1>3. ASSUME NEW u \in Units, Ages(u), faults' \in 0 .. MaxFaults PROVE TypeOK'
  BY <1>3, RunType DEF Ages
<1>4. ASSUME NEW u \in Units, LeaseRunsOut(u) \/ LeaseRunsOutEarly(u) PROVE TypeOK'
  BY <1>3, <1>4, BoundsAssumption DEF LeaseRunsOut, LeaseRunsOutEarly
<1>5. ASSUME NEW w \in Workers, Scan(w) \/ EndJob(w) PROVE TypeOK'
  BY <1>5 DEF Scan, EndJob
<1>6. ASSUME NEW w \in Workers, Claim(w) PROVE TypeOK'
  <2>1. CASE InsertRun(w)
    BY <2>1, NewRunType DEF InsertRun
  <2>2. CASE ConflictingRun(w)
    BY <2>2 DEF ConflictingRun
  <2>3. CASE SkipRun(w) \/ SelectRun(w) \/ LoseClaim(w)
    BY <2>3, <1>e DEF SkipRun, SelectRun, LoseClaim
  <2>4. CASE ReclaimRun(w)
    <3>1. ledger[unit[w]] \in Run
      BY <2>4 DEF ReclaimRun
    <3>2. ledger[unit[w]].last \in Nat
      BY <3>1 DEF Run
    <3>3. Reclaimed(ledger[unit[w]]) \in Run
      BY <3>1, RunType
    <3> QED
      BY <2>4, <3>2, <3>3 DEF ReclaimRun
  <2> QED
    BY <1>6, <2>1, <2>2, <2>3, <2>4 DEF Claim
<1>7. ASSUME NEW w \in Workers, Process(w) PROVE TypeOK'
  <2> DEFINE u == unit[w]
             chunk == Chunk(u, next[w])
  <2>1. /\ u \in Units /\ next[w] \in Nat
        /\ chunk \subseteq Nat /\ IsFiniteSet(chunk)
    <3>1. u \in Units /\ next[w] \in Nat
      BY <1>7 DEF Process, OpenObject, ReadFails, ChunkRaises, ValidateChunk, WriteQuarantine,
                  PersistChunk, CompleteRun, FailRun
    <3> QED
      BY <3>1, ChunkType, RowsType
  <2>2. ledger[u] \in Run
    BY <2>1
  <2>3. CASE OpenObject(w) \/ ReadFails(w) \/ ChunkRaises(w)
    BY <2>3 DEF OpenObject, ReadFails, ChunkRaises
  <2>4. CASE ValidateChunk(w)
    <3>1. PICK passing : good' = [good EXCEPT ![w] = {r \in chunk : Class(u, r) \in passing}]
      BY <2>4 DEF ValidateChunk
    <3>2. IsFiniteSet({r \in chunk : Class(u, r) \in passing})
      BY <2>1, FS_Subset
    <3> QED
      BY <2>1, <2>4, <3>1, <3>2 DEF ValidateChunk
  <2>5. CASE WriteQuarantine(w)
    BY <2>1, <2>5 DEF WriteQuarantine
  <2>6. CASE PersistChunk(w)
    <3>1. Cardinality(chunk) \in Nat /\ Cardinality(good[w]) \in Nat
      BY <2>1, FS_CardinalityType
    <3>2. Progressed(ledger[u], next[w], Cardinality(chunk), Cardinality(good[w])) \in Run
      BY <2>1, <2>2, <3>1, RunType
    <3> QED
      BY <2>1, <2>6, <3>2, <1>0 DEF PersistChunk
  <2>7. CASE CompleteRun(w)
    BY <2>1, <2>2, <2>7, RunType DEF CompleteRun
  <2>8. CASE FailRun(w)
    BY <2>1, <2>2, <2>8, <1>e, RunType DEF FailRun
  <2> QED
    BY <1>7, <2>3, <2>4, <2>5, <2>6, <2>7, <2>8 DEF Process
<1>8. ASSUME NEW w \in Workers, Archive(w) PROVE TypeOK'
  BY <1>8, <1>e DEF Archive, DownloadForArchive, CopyToProcessed, DeleteFromLanding,
                    ArchiveRefused, Units
<1>9. ASSUME NEW w \in Workers, Fault(w) PROVE TypeOK'
  <2>1. CASE Interrupt(w) \/ ArchiveFails(w)
    BY <2>1, <1>e, BoundsAssumption DEF Interrupt, ArchiveFails
  <2>2. CASE Die(w)
    <3>1. good' \in [Workers -> SUBSET Nat] /\ \A x \in Workers : IsFiniteSet(good'[x])
      BY <2>2, <1>0 DEF Die
    <3> QED
      BY <2>2, <3>1, BoundsAssumption DEF Die
  <2> QED
    BY <1>9, <2>1, <2>2 DEF Fault
<1>10. CASE UNCHANGED vars
  BY <1>10 DEF vars
<1> QED
  BY <1>1, <1>2, <1>4, <1>5, <1>6, <1>7, <1>8, <1>9, <1>10 DEF Next, Work

\* Every reachable state is well typed.
THEOREM TypeCorrect == Spec => []TypeOK
  BY InitType, NextType, PTL DEF Spec

-----------------------------------------------------------------------------
(* Nothing that was handled is ever taken back. *)

\* Rows are moved by quarantine writes and merges only.
LEMMA RowsStep ==
    ASSUME [Next]_vars
    PROVE  \/ UNCHANGED <<loaded, quarantine>>
           \/ \E w \in Workers : WriteQuarantine(w) \/ PersistChunk(w)
  BY DEF Next, vars, durable, local, Put, ClockPasses, LeaseRunsOut, LeaseRunsOutEarly, Ages,
         Work, Scan, EndJob, Claim, InsertRun, ConflictingRun, SkipRun, SelectRun,
         ReclaimRun, LoseClaim, Process, OpenObject, ReadFails, ChunkRaises, ValidateChunk,
         CompleteRun,
         FailRun, Archive, DownloadForArchive, CopyToProcessed, DeleteFromLanding,
         ArchiveRefused, Fault, Interrupt, ArchiveFails, Die

\* A committed merge stays, and a bad row stays in its quarantine file: the file
\* is only replaced by one for the same chunk, which rejects the row again.
LEMMA RowsKept ==
    ASSUME Sound, [Next]_vars, NEW u \in Units, NEW r \in Rows(u)
    PROVE  /\ r \in loaded[u] => r \in loaded'[u]
           /\ Class(u, r) = "bad" /\ r \in quarantine[u] => r \in quarantine'[u]
<1> USE DEF durable, local
<1>1. CASE \E w \in Workers : WriteQuarantine(w)
  <2>1. PICK w \in Workers : WriteQuarantine(w)
    BY <1>1
  <2> DEFINE rejected == Chunk(unit[w], next[w]) \ good[w]
  <2>2. loaded' = loaded
    BY <2>1 DEF WriteQuarantine
  <2>3. \/ quarantine' = quarantine
        \/ quarantine' = [quarantine EXCEPT ![unit[w]] =
                            (@ \ Chunk(unit[w], next[w])) \cup rejected]
    BY <2>1 DEF WriteQuarantine
  <2>4. ASSUME u = unit[w], Class(u, r) = "bad", r \in Chunk(u, next[w])
        PROVE  r \in rejected
    BY <2>1, <2>4 DEF Sound, WorkersSound, WriteQuarantine
  <2>5. quarantine \in [Units -> SUBSET Nat]
    BY DEF Sound, TypeOK
  <2> QED
    BY <2>2, <2>3, <2>4, <2>5
<1>2. CASE \E w \in Workers : PersistChunk(w)
  <2>1. PICK w \in Workers : PersistChunk(w)
    BY <1>2
  <2>2. loaded \in [Units -> SUBSET Nat]
    BY DEF Sound, TypeOK
  <2> QED
    BY <2>1, <2>2 DEF PersistChunk
<1>3. CASE UNCHANGED <<loaded, quarantine>>
  BY <1>3
<1> QED
  BY <1>1, <1>2, <1>3, RowsStep

\* Handled(u, rows) in the next state, for rows that are computed in this one.
HandledNext(u, rows) ==
    \A r \in rows :
        /\ Class(u, r) = "good" => r \in loaded'[u]
        /\ Class(u, r) = "bad" => r \in quarantine'[u]

\* So a set of rows that has been handled stays handled.
LEMMA HandledKept ==
    ASSUME Sound, [Next]_vars, NEW u \in Units, NEW rows \in SUBSET Rows(u),
           Handled(u, rows)
    PROVE  HandledNext(u, rows)
  BY RowsKept DEF Handled, HandledNext

\* A step of one worker leaves the locals of every other one alone.
LEMMA OthersLocals ==
    ASSUME TypeOK, NEW w \in Workers, Work(w) \/ Fault(w), NEW x \in Workers, w # x
    PROVE  /\ pc'[x] = pc[x] /\ unit'[x] = unit[x]
           /\ next'[x] = next[x] /\ good'[x] = good[x]
<1> USE DEF TypeOK, durable, local, world, Goto, EndIteration, HoldFrom, Take
<1>1. CASE Scan(w) \/ EndJob(w)
  BY <1>1 DEF Scan, EndJob
<1>2. CASE Claim(w)
  BY <1>2 DEF Claim, InsertRun, ConflictingRun, SkipRun, SelectRun, ReclaimRun, LoseClaim
<1>3. CASE Process(w)
  BY <1>3 DEF Process, OpenObject, ReadFails, ChunkRaises, ValidateChunk, WriteQuarantine,
     PersistChunk, CompleteRun, FailRun
<1>4. CASE Archive(w)
  BY <1>4 DEF Archive, DownloadForArchive, CopyToProcessed, DeleteFromLanding,
              ArchiveRefused
<1>5. CASE Fault(w)
  BY <1>5 DEF Fault, Interrupt, ArchiveFails, Die
<1> QED
  BY <1>1, <1>2, <1>3, <1>4, <1>5 DEF Work

\* Whatever happens, a worker's locals change by its own steps only.
LEMMA OwnLocals ==
    ASSUME TypeOK, [Next]_vars, NEW x \in Workers
    PROVE  \/ /\ pc'[x] = pc[x] /\ unit'[x] = unit[x]
              /\ next'[x] = next[x] /\ good'[x] = good[x]
           \/ Work(x) \/ Fault(x)
<1>1. ASSUME NEW w \in Workers, Work(w) \/ Fault(w), w # x
      PROVE  /\ pc'[x] = pc[x] /\ unit'[x] = unit[x]
             /\ next'[x] = next[x] /\ good'[x] = good[x]
  BY <1>1, OthersLocals
<1>2. ASSUME \/ \E n \in Names : Put(n)
             \/ ClockPasses
             \/ \E u \in Units : LeaseRunsOut(u) \/ LeaseRunsOutEarly(u)
             \/ UNCHANGED vars
      PROVE  UNCHANGED local
  BY <1>2 DEF Put, ClockPasses, LeaseRunsOut, LeaseRunsOutEarly, Ages, vars
<1> QED
  BY <1>1, <1>2 DEF Next, local

-----------------------------------------------------------------------------
(* The parts of Sound, one lemma each. *)

\* The first k rows of chunks are rows.
LEMMA UpToRows == \A u \in Units, k \in Int : UpTo(u, k) \subseteq Rows(u)
  BY DEF UpTo

\* A worker past its quarantine write and its merge has handled one chunk more.
LEMMA PersistHandles ==
    ASSUME Sound, [Next]_vars, NEW w \in Workers, PersistChunk(w)
    PROVE  HandledNext(unit[w], UpTo(unit[w], next[w]))
<1> DEFINE u == unit[w]
           k == next[w]
<1>1. u \in Units /\ k \in Nat \ {0} /\ pc[w] = "persist"
  BY DEF Sound, TypeOK, PersistChunk
<1>2. loaded'[u] = loaded[u] \cup good[w] /\ quarantine' = quarantine
  BY <1>1 DEF PersistChunk, Sound, TypeOK
<1>3. \A r \in Chunk(u, k) : /\ Class(u, r) = "good" => r \in loaded'[u]
                             /\ Class(u, r) = "bad" => r \in quarantine'[u]
  BY <1>1, <1>2 DEF Sound, WorkersSound
<1>4. Handled(u, UpTo(u, k - 1))
  BY <1>1 DEF Sound, WorkersSound, Holding
<1>5. \A r \in UpTo(u, k - 1) : /\ Class(u, r) = "good" => r \in loaded'[u]
                                /\ Class(u, r) = "bad" => r \in quarantine'[u]
  BY <1>2, <1>4 DEF Handled
<1>6. UpTo(u, k) = UpTo(u, k - 1) \cup Chunk(u, k)
  BY <1>1, UpToStep
<1>7. \A r \in UpTo(u, k) : /\ Class(u, r) = "good" => r \in loaded'[u]
                            /\ Class(u, r) = "bad" => r \in quarantine'[u]
  BY <1>3, <1>5, <1>6
<1> QED
  BY <1>7 DEF HandledNext

\* How a step changes a row of the ledger.
LEMMA LedgerStep ==
    ASSUME TypeOK, [Next]_vars, NEW u \in Units
    PROVE  /\ \/ ledger'[u].last = ledger[u].last
              \/ ledger'[u].last = 0
              \/ \E w \in Workers : /\ PersistChunk(w) /\ unit[w] = u
                                    /\ ledger'[u].last = next[w]
           /\ ledger'[u].status = "completed" =>
                \/ ledger[u].status = "completed"
                \/ \E w \in Workers : CompleteRun(w) /\ unit[w] = u
<1> USE DEF TypeOK, Run, Status, SetRun, durable
<1>0. ledger[u] \in Run
  OBVIOUS
<1>1. CASE UNCHANGED ledger
  BY <1>1
<1>2. ASSUME NEW v \in Units, Ages(v)
      PROVE  /\ ledger'[u].last = ledger[u].last
             /\ ledger'[u].status = ledger[u].status
  BY <1>2 DEF Ages
<1>3. ASSUME NEW w \in Workers, InsertRun(w)
      PROVE  /\ ledger'[u].last = ledger[u].last \/ ledger'[u].last = 0
             /\ ledger'[u].status = "completed" => ledger[u].status = "completed"
  BY <1>3 DEF InsertRun, Take, NewRun, AbsentRun
<1>4. ASSUME NEW w \in Workers, ReclaimRun(w) \/ FailRun(w)
      PROVE  /\ ledger'[u].last = ledger[u].last
             /\ ledger'[u].status = "completed" => ledger[u].status = "completed"
  <2>1. unit[w] \in Units
    BY <1>4 DEF ReclaimRun, FailRun
  <2>2. ledger[unit[w]] \in Run
    BY <2>1
  <2>3. CASE ReclaimRun(w)
    BY <2>1, <2>2, <2>3 DEF ReclaimRun, Reclaimed
  <2>4. CASE FailRun(w)
    BY <2>1, <2>2, <2>4 DEF FailRun, Failed
  <2> QED
    BY <1>4, <2>3, <2>4
<1>5. ASSUME NEW w \in Workers, PersistChunk(w)
      PROVE  /\ \/ ledger'[u].last = ledger[u].last
                \/ unit[w] = u /\ ledger'[u].last = next[w]
             /\ ledger'[u].status = ledger[u].status
  BY <1>5 DEF PersistChunk, Progressed
<1>6. ASSUME NEW w \in Workers, CompleteRun(w)
      PROVE  /\ ledger'[u].last = ledger[u].last
             /\ ledger'[u].status = ledger[u].status \/ unit[w] = u
  BY <1>6 DEF CompleteRun, Completed
<1>7. \/ UNCHANGED ledger
      \/ \E v \in Units : Ages(v)
      \/ \E w \in Workers : InsertRun(w) \/ ReclaimRun(w) \/ FailRun(w) \/ PersistChunk(w)
                            \/ CompleteRun(w)
  BY DEF Next, vars, Put, ClockPasses, LeaseRunsOut, LeaseRunsOutEarly, Work, Scan,
         EndJob, Claim, ConflictingRun, SkipRun, SelectRun, LoseClaim,
         Process, OpenObject, ReadFails, ChunkRaises, ValidateChunk, WriteQuarantine,
         Archive, DownloadForArchive, CopyToProcessed, DeleteFromLanding, ArchiveRefused,
         Fault, Interrupt, ArchiveFails, Die
<1> QED
  BY <1>1, <1>2, <1>3, <1>4, <1>5, <1>6, <1>7

\* No step puts a resume point ahead of what was handled.
LEMMA ResumePointStep == Sound /\ [Next]_vars => ResumePointSound'
<1> SUFFICES ASSUME Sound, [Next]_vars, NEW u \in Units
             PROVE  HandledNext(u, UpTo(u, ledger'[u].last))
  BY DEF ResumePointSound, Handled, HandledNext, UpTo
<1>1. CASE ledger'[u].last = ledger[u].last
  <2>1. ledger[u].last \in Int
    BY DEF Sound, TypeOK, Run
  <2> QED
    BY <1>1, <2>1, HandledKept, UpToRows DEF Sound, ResumePointSound
<1>2. CASE ledger'[u].last = 0
  <2>1. UpTo(u, 0) = {}
    BY UpToStep
  <2> QED
    BY <1>2, <2>1 DEF HandledNext
<1>3. CASE \E w \in Workers : /\ PersistChunk(w) /\ unit[w] = u
                              /\ ledger'[u].last = next[w]
  BY <1>3, PersistHandles
<1> QED
  BY <1>1, <1>2, <1>3, LedgerStep DEF Sound

\* When the reader is exhausted every row is in a chunk before the next one.
LEMMA CompleteHandles ==
    ASSUME Sound, NEW w \in Workers, CompleteRun(w)
    PROVE  Handled(unit[w], Rows(unit[w]))
<1> DEFINE u == unit[w]
<1>1. u \in Units /\ next[w] \in Nat \ {0} /\ pc[w] = "read"
  BY DEF Sound, TypeOK, CompleteRun
<1>2. \A r \in Rows(u) : ChunkOf(r, u.size) \in Nat
  BY <1>1, RowsType, ChunkOfType, SizesAssumption DEF Units
<1>3. \A r \in Rows(u) : r \in UpTo(u, next[w] - 1)
  BY <1>1, <1>2 DEF CompleteRun, UpTo
<1>4. Handled(u, UpTo(u, next[w] - 1))
  BY <1>1 DEF Sound, WorkersSound, Holding
<1> QED
  BY <1>3, <1>4 DEF Handled

\* No step completes a run that has not handled the whole object.
LEMMA CompletedStep == Sound /\ [Next]_vars => CompletedMeansHandled'
<1> SUFFICES ASSUME Sound, [Next]_vars, NEW u \in Units, ledger'[u].status = "completed"
             PROVE  HandledNext(u, Rows(u))
  BY DEF CompletedMeansHandled, Handled, HandledNext, Rows, Class
<1>1. Handled(u, Rows(u))
  <2>1. CASE ledger[u].status = "completed"
    BY <2>1 DEF Sound, CompletedMeansHandled
  <2>2. CASE \E w \in Workers : CompleteRun(w) /\ unit[w] = u
    BY <2>2, CompleteHandles
  <2> QED
    BY <2>1, <2>2, LedgerStep DEF Sound
<1> QED
  BY <1>1, HandledKept

\* A merge takes rows that passed, a quarantine file rows that did not.
LEMMA VerdictsStep == Sound /\ [Next]_vars => VerdictsRight'
<1> SUFFICES ASSUME Sound, [Next]_vars, NEW v \in Units
             PROVE  /\ \A r \in loaded'[v] : r \in Rows(v) /\ Class(v, r) # "bad"
                    /\ \A r \in quarantine'[v] : r \in Rows(v) /\ Class(v, r) # "good"
  BY DEF VerdictsRight, Rows, Class
<1>0. /\ \A r \in loaded[v] : r \in Rows(v) /\ Class(v, r) # "bad"
      /\ \A r \in quarantine[v] : r \in Rows(v) /\ Class(v, r) # "good"
  BY DEF Sound, VerdictsRight
<1>1. ASSUME NEW w \in Workers, pc[w] \in {"validated", "persist"}
      PROVE  /\ good[w] \subseteq Chunk(unit[w], next[w])
             /\ \A r \in Chunk(unit[w], next[w]) :
                  /\ r \in Rows(unit[w])
                  /\ r \in good[w] => Class(unit[w], r) # "bad"
                  /\ r \notin good[w] => Class(unit[w], r) # "good"
  BY <1>1 DEF Sound, WorkersSound, Chunk
<1>2. ASSUME NEW w \in Workers, WriteQuarantine(w)
      PROVE  /\ loaded' = loaded
             /\ \A r \in quarantine'[v] : r \in Rows(v) /\ Class(v, r) # "good"
  <2>1. quarantine \in [Units -> SUBSET Nat]
    BY DEF Sound, TypeOK
  <2> QED
    BY <1>0, <1>1, <1>2, <2>1 DEF WriteQuarantine
<1>3. ASSUME NEW w \in Workers, PersistChunk(w)
      PROVE  /\ quarantine' = quarantine
             /\ \A r \in loaded'[v] : r \in Rows(v) /\ Class(v, r) # "bad"
  <2>1. loaded \in [Units -> SUBSET Nat]
    BY DEF Sound, TypeOK
  <2> QED
    BY <1>0, <1>1, <1>3, <2>1 DEF PersistChunk
<1> QED
  BY <1>0, <1>2, <1>3, RowsStep

\* What WorkersSound says of worker x, after a step, of its position after it.
WorkerNext(x) ==
    LET u == unit'[x]
        chunk == Chunk(u, next'[x])
    IN  /\ pc'[x] \in Holding => HandledNext(u, UpTo(u, next'[x] - 1))
        /\ pc'[x] \in {"validated", "persist"} =>
             /\ good'[x] \subseteq chunk
             /\ \A r \in chunk : /\ Class(u, r) = "good" => r \in good'[x]
                                 /\ Class(u, r) = "bad" => r \notin good'[x]
        /\ pc'[x] = "persist" =>
             \A r \in chunk : Class(u, r) = "bad" => r \in quarantine'[u]
        /\ pc'[x] \in Archiving => HandledNext(u, Rows(u))

\* What a worker may rely on at its position stays true, whoever moves.
LEMMA WorkersStep == Sound /\ [Next]_vars => WorkersSound'
<1> SUFFICES ASSUME Sound, [Next]_vars, NEW x \in Workers
             PROVE  WorkerNext(x)
  BY DEF WorkersSound, WorkerNext, Handled, HandledNext, UpTo, Chunk, Rows, Class
<1> DEFINE u == unit[x]
           chunk == Chunk(u, next[x])
<1> USE DEF Holding, Archiving, Goto, EndIteration, HoldFrom, Take, local
<1>0. /\ TypeOK /\ pc[x] \in Phases /\ next[x] \in Nat \ {0}
      /\ pc[x] \notin {"idle", "next"} => u \in Units
  BY DEF Sound, TypeOK
<1>1. CASE pc'[x] \in {"idle", "next", "examine", "reclaim"}
  BY <1>1 DEF WorkerNext
<1>2. ASSUME pc[x] \notin {"idle", "next"}, unit'[x] = u, next'[x] = next[x]
      PROVE  /\ pc[x] \in Holding => HandledNext(u, UpTo(u, next[x] - 1))
             /\ pc[x] = "persist" =>
                  \A r \in chunk : Class(u, r) = "bad" => r \in quarantine'[u]
             /\ pc[x] \in Archiving => HandledNext(u, Rows(u))
  <2>1. u \in Units /\ next[x] - 1 \in Int
    BY <1>0, <1>2
  <2>2. pc[x] \in Holding => HandledNext(u, UpTo(u, next[x] - 1))
    BY <2>1, HandledKept, UpToRows DEF Sound, WorkersSound
  <2>3. pc[x] \in Archiving => HandledNext(u, Rows(u))
    BY <2>1, HandledKept DEF Sound, WorkersSound
  <2>4. pc[x] = "persist" => \A r \in chunk : Class(u, r) = "bad" => r \in quarantine'[u]
    BY <2>1, RowsKept DEF Sound, WorkersSound, Chunk
  <2> QED
    BY <2>2, <2>3, <2>4
<1>3. CASE /\ pc'[x] = pc[x] /\ unit'[x] = u
           /\ next'[x] = next[x] /\ good'[x] = good[x]
  <2>1. CASE pc[x] \in {"idle", "next"}
    BY <1>1, <1>3, <2>1
  <2>2. CASE pc[x] \notin {"idle", "next"}
    BY <1>2, <1>3, <2>2 DEF WorkerNext, Sound, WorkersSound
  <2> QED
    BY <2>1, <2>2
<1>4. CASE InsertRun(x) \/ ReclaimRun(x)
  <2>1. PICK last \in Nat :
          /\ pc'[x] = "open" /\ unit'[x] \in Units /\ next'[x] = last + 1
          /\ HandledNext(unit'[x], UpTo(unit'[x], last))
    <3>1. CASE InsertRun(x)
      <4>1. pc'[x] = "open" /\ unit'[x] \in Units /\ next'[x] = 0 + 1
        BY <3>1 DEF InsertRun, Sound, TypeOK
      <4>2. UpTo(unit'[x], 0) = {}
        BY <4>1, UpToStep
      <4> QED
        BY <4>1, <4>2 DEF HandledNext
    <3>2. CASE ReclaimRun(x)
      <4>1. u \in Units
        BY <1>0, <3>2 DEF ReclaimRun
      <4>2. ledger[u].last \in Nat /\ Handled(u, UpTo(u, ledger[u].last))
        BY <4>1 DEF Sound, TypeOK, Run, ResumePointSound
      <4>3. HandledNext(u, UpTo(u, ledger[u].last))
        BY <4>1, <4>2, HandledKept, UpToRows
      <4>4. pc'[x] = "open" /\ unit'[x] = u /\ next'[x] = ledger[u].last + 1
        BY <3>2 DEF ReclaimRun, Sound, TypeOK
      <4> QED
        BY <4>1, <4>2, <4>3, <4>4
    <3> QED
      BY <1>4, <3>1, <3>2
  <2>2. next'[x] - 1 = last
    BY <2>1
  <2> QED
    BY <2>1, <2>2 DEF WorkerNext
<1>5. CASE ValidateChunk(x)
  <2>1. /\ pc[x] = "read" /\ pc'[x] = "validated" /\ unit'[x] = u /\ next'[x] = next[x]
        /\ good'[x] \subseteq chunk
        /\ \A r \in chunk : /\ Class(u, r) = "good" => r \in good'[x]
                            /\ Class(u, r) = "bad" => r \notin good'[x]
    BY <1>5 DEF ValidateChunk, Sound, TypeOK
  <2> QED
    BY <1>2, <2>1 DEF WorkerNext
<1>6. CASE WriteQuarantine(x)
  <2>1. /\ pc[x] = "validated" /\ pc'[x] = "persist" /\ unit'[x] = u
        /\ next'[x] = next[x] /\ good'[x] = good[x]
    BY <1>6 DEF WriteQuarantine, Sound, TypeOK
  <2>2. \A r \in chunk : Class(u, r) = "bad" => r \in chunk \ good[x]
    BY <2>1 DEF Sound, WorkersSound
  <2>3. ASSUME NEW r \in chunk \ good[x] PROVE r \in quarantine'[u]
    <3>1. u \in Units /\ quarantine \in [Units -> SUBSET Nat]
      BY <1>0, <2>1 DEF Sound, TypeOK
    <3> QED
      BY <1>6, <2>3, <3>1 DEF WriteQuarantine
  <2> QED
    BY <1>2, <2>1, <2>2, <2>3 DEF WorkerNext, Sound, WorkersSound
<1>7. CASE PersistChunk(x)
  <2>1. pc'[x] = "read" /\ unit'[x] = u /\ next'[x] = next[x] + 1
    BY <1>7 DEF PersistChunk, Sound, TypeOK
  <2>2. next'[x] - 1 = next[x]
    BY <1>0, <2>1
  <2>3. HandledNext(u, UpTo(u, next[x]))
    BY <1>7, PersistHandles
  <2> QED
    BY <2>1, <2>2, <2>3 DEF WorkerNext
<1>8. CASE CompleteRun(x)
  <2>1. pc'[x] = "archive" /\ unit'[x] = u /\ u \in Units
    BY <1>0, <1>8 DEF CompleteRun, Sound, TypeOK
  <2>2. HandledNext(u, Rows(u))
    BY <1>8, <2>1, CompleteHandles, HandledKept
  <2> QED
    BY <2>1, <2>2 DEF WorkerNext
<1>9. CASE OpenObject(x) \/ ReadFails(x) \/ ChunkRaises(x) \/ Interrupt(x)
  <2>1. /\ pc[x] \in Holding /\ pc'[x] \in {"read", "recover"} /\ unit'[x] = u
        /\ next'[x] = next[x]
    BY <1>9 DEF OpenObject, ReadFails, ChunkRaises, Interrupt, Sound, TypeOK
  <2> QED
    BY <1>2, <2>1 DEF WorkerNext
<1>10. CASE DownloadForArchive(x) \/ CopyToProcessed(x)
  <2>1. /\ pc[x] \in Archiving /\ pc'[x] \in Archiving /\ unit'[x] = u
        /\ next'[x] = next[x]
    BY <1>10 DEF DownloadForArchive, CopyToProcessed, Sound, TypeOK
  <2> QED
    BY <1>2, <2>1 DEF WorkerNext
<1>11. ASSUME \/ Scan(x) \/ EndJob(x) \/ ConflictingRun(x) \/ SkipRun(x) \/ SelectRun(x)
              \/ LoseClaim(x) \/ FailRun(x) \/ DeleteFromLanding(x) \/ ArchiveRefused(x)
              \/ ArchiveFails(x) \/ Die(x)
       PROVE  pc'[x] \in {"idle", "next", "examine", "reclaim"}
  BY <1>0, <1>11 DEF TypeOK, Scan, EndJob, ConflictingRun, SkipRun, SelectRun, LoseClaim,
     FailRun, DeleteFromLanding, ArchiveRefused, ArchiveFails, Die
<1> QED
  BY <1>0, <1>1, <1>3, <1>4, <1>5, <1>6, <1>7, <1>8, <1>9, <1>10, <1>11, OwnLocals
     DEF Work, Fault, Claim, Process, Archive

\* HandledVersion in the next state.
VersionNext(n, v) ==
    \E u \in Units : u.name = n /\ u.version = v /\ HandledNext(u, Rows(u))

\* A version that some run has handled stays handled.
LEMMA VersionKept ==
    ASSUME Sound, [Next]_vars, NEW n, NEW v, HandledVersion(n, v)
    PROVE  VersionNext(n, v)
  BY HandledKept DEF HandledVersion, VersionNext

\* Only these steps change an object's entries in the two containers.
LEMMA ObjectStep ==
    ASSUME TypeOK, [Next]_vars
    PROVE  \/ UNCHANGED <<landing, processed, written>>
           \/ \E m \in Names : Put(m)
           \/ \E w \in Workers : CopyToProcessed(w) \/ DeleteFromLanding(w)
  BY DEF Next, vars, durable, world, ClockPasses, LeaseRunsOut, LeaseRunsOutEarly, Ages, Work,
         Scan, EndJob, Claim, InsertRun, ConflictingRun, SkipRun, SelectRun, ReclaimRun,
         LoseClaim, Process, OpenObject, ReadFails, ChunkRaises, ValidateChunk, WriteQuarantine,
         PersistChunk, CompleteRun, FailRun, Archive, DownloadForArchive,
         ArchiveRefused, Fault, Interrupt, ArchiveFails, Die, Spend

\* A worker reaches the delete by its own copy.
LEMMA DeletePhase ==
    ASSUME TypeOK, [Next]_vars, NEW x \in Workers, pc'[x] = "delete"
    PROVE  \/ pc[x] = "delete" /\ unit'[x] = unit[x]
           \/ CopyToProcessed(x) /\ unit'[x] = unit[x]
<1> USE DEF TypeOK, Goto, EndIteration, HoldFrom, Take
<1>1. ASSUME Scan(x) \/ EndJob(x) \/ Claim(x) PROVE FALSE
  BY <1>1 DEF Scan, EndJob, Claim, InsertRun, ConflictingRun, SkipRun, SelectRun, ReclaimRun,
              LoseClaim
<1>2. ASSUME Process(x) PROVE FALSE
  BY <1>2 DEF Process, OpenObject, ReadFails, ChunkRaises, ValidateChunk, WriteQuarantine,
     PersistChunk, CompleteRun, FailRun
<1>3. ASSUME DownloadForArchive(x) \/ DeleteFromLanding(x) \/ ArchiveRefused(x) PROVE FALSE
  BY <1>3 DEF DownloadForArchive, DeleteFromLanding, ArchiveRefused
<1>4. ASSUME Fault(x) PROVE FALSE
  BY <1>4 DEF Fault, Interrupt, ArchiveFails, Die
<1>5. CopyToProcessed(x) => unit'[x] = unit[x]
  BY DEF CopyToProcessed
<1> QED
  BY <1>1, <1>2, <1>3, <1>4, <1>5, OwnLocals DEF Work, Archive

\* What ObjectsSound says of object n after a step.
ObjectNext(n) ==
    /\ landing'[n] \in {0, written'[n]}
    /\ processed'[n] # 0 => VersionNext(n, processed'[n])
    /\ \A w \in Workers : pc'[w] = "delete" /\ unit'[w].name = n => processed'[n] # 0
    /\ landing'[n] = 0 /\ written'[n] > 0 =>
         processed'[n] # 0 /\ VersionNext(n, written'[n])

\* What is known of each object in the two containers stays true.
LEMMA ObjectsStep == Sound /\ [Next]_vars => ObjectsSound'
<1> SUFFICES ASSUME Sound, [Next]_vars, NEW n \in Names
             PROVE  ObjectNext(n)
  BY DEF ObjectsSound, ObjectNext, HandledVersion, VersionNext, Handled, HandledNext, Rows,
         Class
<1>0. /\ TypeOK
      /\ landing[n] \in {0, written[n]}
      /\ processed[n] # 0 => VersionNext(n, processed[n])
      /\ \A w \in Workers : pc[w] = "delete" /\ unit[w].name = n => processed[n] # 0
      /\ landing[n] = 0 /\ written[n] > 0 =>
           processed[n] # 0 /\ VersionNext(n, written[n])
      /\ written[n] \in Nat
  <2>1. TypeOK /\ ObjectsSound
    BY DEF Sound
  <2>2. written[n] \in Versions \cup {0}
    BY <2>1 DEF TypeOK
  <2> QED
    BY <2>1, <2>2, VersionKept, VersionsType DEF ObjectsSound
\* The third conjunct, for every step that does not empty the processed entry.
<1>1. ASSUME processed[n] # 0 => processed'[n] # 0, NEW w \in Workers,
             pc'[w] = "delete", unit'[w].name = n
      PROVE  processed'[n] # 0
  <2>1. CASE pc[w] = "delete" /\ unit'[w] = unit[w]
    BY <1>0, <1>1, <2>1
  <2>2. CASE CopyToProcessed(w) /\ unit'[w] = unit[w]
    <3>1. unit[w] \in Units /\ processed' = [processed EXCEPT ![n] = unit[w].version]
      BY <1>0, <1>1, <2>2 DEF CopyToProcessed, TypeOK
    <3>2. unit[w].version # 0
      BY <3>1 DEF Units, Versions
    <3> QED
      BY <1>0, <3>1, <3>2 DEF TypeOK
  <2> QED
    BY <1>0, <1>1, <2>1, <2>2, DeletePhase
<1>2. CASE UNCHANGED <<landing, processed, written>>
  BY <1>0, <1>1, <1>2 DEF ObjectNext
<1>3. CASE \E m \in Names : Put(m)
  <2>1. PICK m \in Names : Put(m)
    BY <1>3
  <2>2. /\ processed' = processed
        /\ m = n => landing'[n] = written'[n] /\ written'[n] > 0
        /\ m # n => landing'[n] = landing[n] /\ written'[n] = written[n]
    BY <1>0, <2>1 DEF Put, TypeOK
  <2> QED
    BY <1>0, <1>1, <2>2 DEF ObjectNext
<1>4. ASSUME NEW w \in Workers, CopyToProcessed(w)
      PROVE  ObjectNext(n)
  <2>1. /\ landing' = landing /\ written' = written /\ unit[w] \in Units
        /\ processed' = [processed EXCEPT ![unit[w].name] = unit[w].version]
        /\ Handled(unit[w], Rows(unit[w]))
    BY <1>0, <1>4 DEF CopyToProcessed, TypeOK, Sound, WorkersSound, Archiving, world
  <2>2. CASE unit[w].name = n
    <3>1. processed'[n] = unit[w].version /\ unit[w].version # 0
      BY <1>0, <2>1, <2>2 DEF TypeOK, Units, Versions
    <3>2. VersionNext(n, unit[w].version)
      BY <2>1, <2>2, HandledKept DEF VersionNext
    <3> QED
      BY <1>0, <1>1, <2>1, <3>1, <3>2 DEF ObjectNext
  <2>3. CASE unit[w].name # n
    <3>1. processed'[n] = processed[n]
      BY <1>0, <2>1, <2>3 DEF TypeOK
    <3> QED
      BY <1>0, <1>1, <2>1, <3>1 DEF ObjectNext
  <2> QED
    BY <2>2, <2>3
<1>5. ASSUME NEW w \in Workers, DeleteFromLanding(w)
      PROVE  ObjectNext(n)
  <2>1. /\ processed' = processed /\ written' = written /\ unit[w] \in Units
        /\ landing' = [landing EXCEPT ![unit[w].name] = 0]
        /\ landing[unit[w].name] = unit[w].version /\ pc[w] = "delete"
        /\ Handled(unit[w], Rows(unit[w]))
    BY <1>0, <1>5 DEF DeleteFromLanding, Unchanged, TypeOK, Sound, WorkersSound, Archiving,
                      world
  <2>2. CASE unit[w].name = n
    <3>1. landing'[n] = 0 /\ processed[n] # 0
      BY <1>0, <2>1, <2>2 DEF TypeOK
    <3>2. written[n] = unit[w].version
      BY <1>0, <2>1, <2>2 DEF Units, Versions
    <3>3. VersionNext(n, unit[w].version)
      BY <2>1, <2>2, HandledKept DEF VersionNext
    <3> QED
      BY <1>0, <1>1, <2>1, <3>1, <3>2, <3>3 DEF ObjectNext
  <2>3. CASE unit[w].name # n
    <3>1. landing'[n] = landing[n]
      BY <1>0, <2>1, <2>3 DEF TypeOK
    <3> QED
      BY <1>0, <1>1, <2>1, <3>1 DEF ObjectNext
  <2> QED
    BY <2>2, <2>3
<1> QED
  BY <1>0, <1>2, <1>3, <1>4, <1>5, ObjectStep

-----------------------------------------------------------------------------
(* The theorems. *)

\* Sound holds at the start.
LEMMA InitSound == Init => Sound
<1> SUFFICES ASSUME Init PROVE Sound
  OBVIOUS
<1>1. ResumePointSound
  BY UpToStep DEF Init, ResumePointSound, Handled, AbsentRun
<1>2. CompletedMeansHandled
  BY DEF Init, CompletedMeansHandled, AbsentRun
<1>3. WorkersSound
  BY DEF Init, WorkersSound, Holding, Archiving
<1>4. ObjectsSound
  BY DEF Init, ObjectsSound
<1>5. VerdictsRight
  BY DEF Init, VerdictsRight
<1> QED
  BY <1>1, <1>2, <1>3, <1>4, <1>5, InitType DEF Sound

\* Every step keeps Sound: the inductive step of Soundness.
LEMMA NextSound == Sound /\ [Next]_vars => Sound'
  BY NextType, ResumePointStep, CompletedStep, VerdictsStep, WorkersStep, ObjectsStep
     DEF Sound

\* Sound is an inductive invariant, overlapping leases or not.
THEOREM Soundness == Spec => []Sound
  BY InitSound, NextSound, PTL DEF Spec

\* Nothing before a resume point is ever left undone, so that the resume of an
\* interrupted run may skip to it.
THEOREM ResumePointIsSound == Spec => []ResumePointSound
<1>1. Sound => ResumePointSound
  BY DEF Sound
<1> QED
  BY <1>1, Soundness, PTL

\* A completed run has merged or quarantined every row it had to.
THEOREM CompletedIsHandled == Spec => []CompletedMeansHandled
<1>1. Sound => CompletedMeansHandled
  BY DEF Sound
<1> QED
  BY <1>1, Soundness, PTL

\* Rows that never pass are never merged, rows that always pass never quarantined.
THEOREM VerdictsAreRight == Spec => []VerdictsRight
<1>1. Sound => VerdictsRight
  BY DEF Sound
<1> QED
  BY <1>1, Soundness, PTL

\* No object leaves landing before its newest version has been handled.
THEOREM LandingIsKept == Spec => []LandingKeptUntilHandled
<1>1. Sound => LandingKeptUntilHandled
  BY DEF Sound, ObjectsSound, LandingKeptUntilHandled
<1> QED
  BY <1>1, Soundness, PTL

-----------------------------------------------------------------------------
(* The lease, when none runs out under a living worker. *)

\* A step gives a worker a unit only by a claim on a row that is free.
LEMMA HoldStep ==
    ASSUME TypeOK, [Next]_vars, NEW x \in Workers, NEW u \in Units, Holds(x, u)'
    PROVE  \/ Holds(x, u)
           \/ InsertRun(x) /\ ledger[u].status = "absent"
           \/ ReclaimRun(x) /\ Claimable(ledger[u])
<1> USE DEF TypeOK, Goto, EndIteration, HoldFrom, Take, Holding, Holds
<1>1. CASE Scan(x) \/ EndJob(x) \/ Fault(x)
  BY <1>1 DEF Scan, EndJob, Fault, Interrupt, ArchiveFails, Die
<1>2. CASE Claim(x)
  BY <1>2 DEF Claim, InsertRun, ConflictingRun, SkipRun, SelectRun, ReclaimRun, LoseClaim
<1>3. CASE Process(x)
  BY <1>3 DEF Process, OpenObject, ReadFails, ChunkRaises, ValidateChunk, WriteQuarantine,
     PersistChunk, CompleteRun, FailRun
<1>4. CASE Archive(x)
  BY <1>4 DEF Archive, DownloadForArchive, CopyToProcessed, DeleteFromLanding,
              ArchiveRefused
<1> QED
  BY <1>1, <1>2, <1>3, <1>4, OwnLocals DEF Work

\* The statements that change a row, each with the place it is issued from.
LEMMA RowStep ==
    ASSUME TypeOK, [Next]_vars, NEW u \in Units, ledger'[u] # ledger[u]
    PROVE  \/ LeaseRunsOut(u) \/ LeaseRunsOutEarly(u)
           \/ \E w \in Workers :
                \/ /\ InsertRun(w) /\ unit'[w] = u
                   /\ ledger[u].status = "absent" /\ ledger'[u] = NewRun
                \/ ReclaimRun(w) /\ unit[w] = u
                \/ /\ PersistChunk(w) \/ CompleteRun(w) \/ FailRun(w)
                   /\ Holds(w, u)
<1> USE DEF TypeOK, SetRun, durable, Holds, Holding
<1>1. ASSUME NEW v \in Units, LeaseRunsOut(v) \/ LeaseRunsOutEarly(v) PROVE u = v
  BY <1>1 DEF LeaseRunsOut, LeaseRunsOutEarly, Ages
<1>2. ASSUME NEW w \in Workers, InsertRun(w)
      PROVE  unit'[w] = u /\ ledger[u].status = "absent" /\ ledger'[u] = NewRun
  BY <1>2 DEF InsertRun, Take
<1>3. ASSUME NEW w \in Workers, ReclaimRun(w) PROVE unit[w] = u
  BY <1>3 DEF ReclaimRun
<1>4. ASSUME NEW w \in Workers, PersistChunk(w) \/ CompleteRun(w) \/ FailRun(w)
      PROVE  Holds(w, u)
  BY <1>4 DEF PersistChunk, CompleteRun, FailRun
<1>5. \/ \E v \in Units : LeaseRunsOut(v) \/ LeaseRunsOutEarly(v)
      \/ \E w \in Workers : InsertRun(w) \/ ReclaimRun(w) \/ FailRun(w) \/ PersistChunk(w)
                            \/ CompleteRun(w)
  BY DEF Next, vars, Put, ClockPasses, Work, Scan,
         EndJob, Claim, ConflictingRun, SkipRun, SelectRun, LoseClaim,
         Process, OpenObject, ReadFails, ChunkRaises, ValidateChunk, WriteQuarantine,
         Archive, DownloadForArchive, CopyToProcessed, DeleteFromLanding, ArchiveRefused,
         Fault, Interrupt, ArchiveFails, Die
<1> QED
  BY <1>1, <1>2, <1>3, <1>4, <1>5

\* What Leased says of a held unit, after a step.
LEMMA HolderStep ==
    ASSUME ~ Overlap, TypeOK, Leased, [Next]_vars, NEW x \in Workers, NEW u \in Units,
           Holds(x, u)'
    PROVE  /\ ledger'[u].status = "running" /\ ~ ledger'[u].aged
           /\ next'[x] = ledger'[u].last + 1
           /\ \A y \in Workers : Holds(y, u) => y = x
<1> USE DEF Holds, Holding
<1>0. ledger[u] \in Run /\ next[x] \in Nat
  BY DEF TypeOK
<1>1. CASE Holds(x, u)
  <2>1. /\ ledger[u].status = "running" /\ ~ ledger[u].aged
        /\ next[x] = ledger[u].last + 1
        /\ \A y \in Workers : Holds(y, u) => y = x
    BY <1>1 DEF Leased, OneHolder
  <2>2. CASE PersistChunk(x)
    BY <1>0, <1>1, <2>1, <2>2 DEF PersistChunk, Progressed, SetRun, TypeOK, Run
  <2>3. CASE CompleteRun(x) \/ FailRun(x)
    BY <2>3 DEF CompleteRun, FailRun, EndIteration, Goto, TypeOK
  <2>4. CASE ~ PersistChunk(x) /\ ~ CompleteRun(x) /\ ~ FailRun(x)
    <3>1. next'[x] = next[x]
      <4>1. CASE Process(x)
        BY <2>4, <4>1 DEF Process, OpenObject, ReadFails, ChunkRaises, ValidateChunk,
           WriteQuarantine, Goto
      <4>2. CASE Scan(x) \/ EndJob(x) \/ Claim(x) \/ Archive(x)
        BY <1>1, <4>2 DEF Scan, EndJob, Claim, InsertRun, ConflictingRun, SkipRun, SelectRun,
           ReclaimRun, LoseClaim, Take, Archive, DownloadForArchive, CopyToProcessed,
           DeleteFromLanding, ArchiveRefused, Archiving
      <4>3. CASE Fault(x)
        BY <1>1, <4>3 DEF Fault, Interrupt, ArchiveFails, Archiving, Die, Goto, TypeOK
      <4> QED
        BY <4>1, <4>2, <4>3, OwnLocals DEF Work
    <3>2. ledger'[u] = ledger[u]
      BY <1>1, <2>1, <2>4, RowStep DEF LeaseRunsOut, LeaseRunsOutEarly, ReclaimRun, Claimable
    <3> QED
      BY <2>1, <3>1, <3>2
  <2> QED
    BY <2>2, <2>3, <2>4
<1>2. CASE InsertRun(x) /\ ledger[u].status = "absent"
  <2>1. /\ ledger'[u] = NewRun /\ next'[x] = 0 + 1
    BY <1>2 DEF InsertRun, Take, HoldFrom, SetRun, TypeOK
  <2>2. \A y \in Workers : ~ Holds(y, u)
    BY <1>2 DEF Leased
  <2> QED
    BY <2>1, <2>2 DEF NewRun, AbsentRun
<1>3. CASE ReclaimRun(x) /\ Claimable(ledger[u])
  <2>1. /\ ledger'[u] = Reclaimed(ledger[u]) /\ next'[x] = ledger[u].last + 1
    BY <1>3 DEF ReclaimRun, HoldFrom, SetRun, TypeOK
  <2>2. \A y \in Workers : ~ Holds(y, u)
    BY <1>3 DEF Leased, Claimable
  <2> QED
    BY <1>0, <2>1, <2>2 DEF Reclaimed, Run
<1> QED
  BY <1>1, <1>2, <1>3, HoldStep

\* Without overlap every step keeps the leases: the step of LeaseIsExclusive.
LEMMA LeasedStep ==
    ASSUME ~ Overlap
    PROVE  TypeOK /\ Leased /\ [Next]_vars => Leased'
<1> SUFFICES ASSUME TypeOK, Leased, [Next]_vars PROVE Leased'
  OBVIOUS
\* Two holders after a step: both held before, or one of them has just claimed.
<1>1. OneHolder'
  <2> SUFFICES ASSUME NEW v \in Workers, NEW w \in Workers, NEW u \in Units,
                      Holds(v, u)', Holds(w, u)'
               PROVE  v = w
    BY DEF OneHolder
  <2>1. /\ \A y \in Workers : Holds(y, u) => y = v
        /\ \A y \in Workers : Holds(y, u) => y = w
    BY HolderStep
  <2>2. CASE ~ Holds(v, u) /\ ~ Holds(w, u)
    <3>1. /\ InsertRun(v) \/ ReclaimRun(v)
          /\ InsertRun(w) \/ ReclaimRun(w)
      BY <2>2, HoldStep
    <3>2. ASSUME NEW x \in Workers, NEW y \in Workers, x # y, InsertRun(x) \/ ReclaimRun(x)
          PROVE  pc'[y] = pc[y]
      BY <3>2 DEF InsertRun, ReclaimRun, HoldFrom, TypeOK
    <3>3. pc'[v] = "open" /\ pc[v] # "open"
      BY <3>1 DEF InsertRun, ReclaimRun, HoldFrom, Take, TypeOK
    <3> QED
      BY <3>1, <3>2, <3>3
  <2> QED
    BY <2>1, <2>2
<1>2. ASSUME NEW u \in Units, ledger'[u].status = "absent" PROVE ledger'[u] = AbsentRun
  <2>1. CASE ledger'[u] = ledger[u]
    BY <1>2, <2>1 DEF Leased
  <2>2. CASE ledger'[u] # ledger[u]
    <3>0. ledger[u] \in Run
      BY DEF TypeOK
    <3>1. ledger'[u].status # "absent"
      <4>1. CASE LeaseRunsOut(u) \/ LeaseRunsOutEarly(u)
        BY <3>0, <4>1 DEF LeaseRunsOut, LeaseRunsOutEarly, Ages, SetRun, TypeOK, Run
      <4>2. CASE ledger'[u] = NewRun
        BY <4>2 DEF NewRun, AbsentRun
      <4>3. ASSUME NEW w \in Workers, ReclaimRun(w), unit[w] = u
            PROVE  ledger'[u].status = "running"
        BY <3>0, <4>3, RunEffect DEF ReclaimRun, SetRun, TypeOK
      <4>4. ASSUME NEW w \in Workers, PersistChunk(w) \/ CompleteRun(w) \/ FailRun(w),
                   Holds(w, u)
            PROVE  ledger'[u].status \in {"running", "completed", "failed"}
        <5>1. unit[w] = u /\ ledger[u].status = "running"
          BY <4>4 DEF Holds, Leased
        <5> QED
          BY <3>0, <4>4, <5>1, RunEffect DEF PersistChunk, CompleteRun, FailRun, SetRun,
             TypeOK
      <4> QED
        BY <2>2, <4>1, <4>2, <4>3, <4>4, RowStep
    <3> QED
      BY <1>2, <3>1
  <2> QED
    BY <2>1, <2>2
<1>3. ASSUME NEW w \in Workers, NEW u \in Units, Holds(w, u)'
      PROVE  /\ ledger'[u].status = "running" /\ ~ ledger'[u].aged
             /\ next'[w] = ledger'[u].last + 1
  BY <1>3, HolderStep
<1> QED
  BY <1>1, <1>2, <1>3 DEF Leased

\* Two workers never process one unit of work at the same time.
THEOREM LeaseIsExclusive ==
    ASSUME ~ Overlap
    PROVE  Spec => []OneHolder
<1>1. Init => Leased
  BY DEF Init, Leased, OneHolder, Holds, Holding
<1>2. TypeOK /\ Leased /\ [Next]_vars => Leased'
  BY LeasedStep
<1>3. Leased => OneHolder
  BY DEF Leased
<1> QED
  BY <1>1, <1>2, <1>3, TypeCorrect, PTL DEF Spec

\* A completed run is never touched again and no resume point moves back.
THEOREM FinishedWorkIsFinal ==
    ASSUME ~ Overlap
    PROVE  Spec => FinishedWorkStaysFinished
<1>1. Init => Leased
  BY DEF Init, Leased, OneHolder, Holds, Holding
<1>2. TypeOK /\ Leased /\ [Next]_vars => Leased'
  BY LeasedStep
<1>3. TypeOK /\ Leased /\ [Next]_vars => [FinishedWorkKept]_vars
  <2> SUFFICES ASSUME TypeOK, Leased, [Next]_vars, NEW u \in Units
               PROVE  /\ ledger[u].status = "completed" => ledger'[u] = ledger[u]
                      /\ ledger[u].last <= ledger'[u].last
    BY DEF FinishedWorkKept
  <2>0. ledger[u] \in Run
    BY DEF TypeOK
  <2>1. CASE ledger'[u] = ledger[u]
    BY <2>0, <2>1 DEF Run
  <2>2. CASE LeaseRunsOut(u) \/ LeaseRunsOutEarly(u)
    BY <2>0, <2>2 DEF LeaseRunsOut, LeaseRunsOutEarly, Ages, SetRun, TypeOK, Run
  <2>3. CASE ledger[u].status = "absent" /\ ledger'[u] = NewRun
    BY <2>3 DEF Leased, NewRun, AbsentRun
  <2>4. ASSUME NEW w \in Workers, ReclaimRun(w), unit[w] = u
        PROVE  ledger[u].status # "completed" /\ ledger'[u].last = ledger[u].last
    BY <2>0, <2>4 DEF ReclaimRun, Claimable, Reclaimed, SetRun, TypeOK, Run
  <2>5. ASSUME NEW w \in Workers, PersistChunk(w) \/ CompleteRun(w) \/ FailRun(w),
               Holds(w, u)
        PROVE  ledger[u].status # "completed" /\ ledger[u].last <= ledger'[u].last
    <3>1. ledger[u].status = "running" /\ next[w] = ledger[u].last + 1 /\ unit[w] = u
      BY <2>5 DEF Leased, Holds
    <3>2. CASE PersistChunk(w)
      BY <2>0, <3>1, <3>2 DEF PersistChunk, Progressed, SetRun, TypeOK, Run
    <3>3. CASE CompleteRun(w) \/ FailRun(w)
      <4>1. ledger'[u].last = ledger[u].last
        BY <2>0, <3>1, <3>3, RunEffect DEF CompleteRun, FailRun, SetRun, TypeOK
      <4> QED
        BY <2>0, <3>1, <4>1 DEF Run
    <3> QED
      BY <2>5, <3>1, <3>2, <3>3
  <2> QED
    BY <2>0, <2>1, <2>2, <2>3, <2>4, <2>5, RowStep DEF Run
<1> QED
  BY <1>1, <1>2, <1>3, TypeCorrect, PTL DEF Spec, FinishedWorkStaysFinished

-----------------------------------------------------------------------------
(* Rows and counters, when no lease runs out under a living worker. *)

\* A chunk is disjoint from the chunks before it, so their sizes add up.
LEMMA ChunkAdds ==
    ASSUME NEW u \in Units, NEW k \in Nat \ {0}
    PROVE  /\ UpTo(u, k) = UpTo(u, k - 1) \cup Chunk(u, k)
           /\ UpTo(u, k - 1) \cap Chunk(u, k) = {}
           /\ Cardinality(UpTo(u, k)) = Cardinality(UpTo(u, k - 1)) + Cardinality(Chunk(u, k))
<1>1. UpTo(u, k) = UpTo(u, k - 1) \cup Chunk(u, k)
  BY UpToStep
<1>2. UpTo(u, k - 1) \cap Chunk(u, k) = {}
  BY DEF UpTo, Chunk
<1>3. IsFiniteSet(UpTo(u, k - 1)) /\ IsFiniteSet(Chunk(u, k))
  BY RowsType, FS_Subset DEF UpTo, Chunk
<1> QED
  BY <1>1, <1>2, <1>3, DisjointUnion

\* The numbers of the chunks of an object.
ChunkNumbers(u) == {ChunkOf(r, u.size) : r \in Rows(u)}

\* Once the first n chunks are known to have rows, the object has at least n
\* chunks; when no row is left after them, it has n.
LEMMA ChunkCount ==
    ASSUME NEW u \in Units, NEW n \in Nat, \A k \in 1 .. n : Chunk(u, k) # {}
    PROVE  /\ Cardinality(ChunkNumbers(u)) \in Nat
           /\ n <= Cardinality(ChunkNumbers(u))
           /\ UpTo(u, n) = Rows(u) => n = Cardinality(ChunkNumbers(u))
<1> DEFINE f == [r \in Rows(u) |-> ChunkOf(r, u.size)]
<1>1. IsFiniteSet(ChunkNumbers(u))
  <2>1. IsFiniteSet({f[r] : r \in Rows(u)})
    BY RowsType, FiniteImage
  <2>2. {f[r] : r \in Rows(u)} = ChunkNumbers(u)
    BY DEF ChunkNumbers
  <2> QED
    BY <2>1, <2>2
<1>2. 1 .. n \subseteq ChunkNumbers(u)
  BY DEF Chunk, ChunkNumbers
<1>3. Cardinality(1 .. n) = n
  BY FS_Interval
<1>4. UpTo(u, n) = Rows(u) => ChunkNumbers(u) \subseteq 1 .. n
  <2>1. \A r \in Rows(u) : ChunkOf(r, u.size) \in Nat \ {0}
    BY RowsType, ChunkOfType, SizesAssumption DEF Units
  <2> QED
    BY <2>1 DEF UpTo, ChunkNumbers
<1> QED
  BY <1>1, <1>2, <1>3, <1>4, FS_Subset, FS_CardinalityType

\* What each statement makes of the counters.
LEMMA RunCounters ==
    ASSUME NEW run \in Run
    PROVE  /\ Reclaimed(run).read = run.read /\ Reclaimed(run).valid = run.valid
           /\ Completed(run).read = run.read /\ Completed(run).valid = run.valid
           /\ Failed(run).read = run.read /\ Failed(run).valid = run.valid
  BY DEF Run, Reclaimed, Completed, Failed

\* Progress assigns the resume point and adds to the counters.
LEMMA ProgressCounts ==
    ASSUME NEW run \in Run, NEW k \in Nat, NEW m \in Nat, NEW n \in Nat
    PROVE  /\ Progressed(run, k, m, n).last = k
           /\ Progressed(run, k, m, n).read = run.read + m
           /\ Progressed(run, k, m, n).valid = run.valid + n
           /\ Progressed(run, k, m, n).status = run.status
  BY DEF Run, Progressed

\* Only a holder merges rows, moves the resume point or writes quarantine files.
LEMMA ProgressStep ==
    ASSUME TypeOK, Leased, [Next]_vars, NEW u \in Units
    PROVE  \/ /\ ledger'[u].last = ledger[u].last
              /\ ledger'[u].read = ledger[u].read
              /\ ledger'[u].valid = ledger[u].valid
              /\ loaded'[u] = loaded[u] /\ quarantine'[u] = quarantine[u]
           \/ \E w \in Workers : Holds(w, u) /\ (WriteQuarantine(w) \/ PersistChunk(w))
<1>0. ledger[u] \in Run
  BY DEF TypeOK
<1>1. \/ loaded'[u] = loaded[u] /\ quarantine'[u] = quarantine[u]
      \/ \E w \in Workers : Holds(w, u) /\ (WriteQuarantine(w) \/ PersistChunk(w))
  <2>2. ASSUME NEW w \in Workers, WriteQuarantine(w) \/ PersistChunk(w), unit[w] = u
        PROVE  Holds(w, u)
    BY <2>2 DEF WriteQuarantine, PersistChunk, Holds, Holding
  <2>3. ASSUME NEW w \in Workers, WriteQuarantine(w) \/ PersistChunk(w), unit[w] # u
        PROVE  loaded'[u] = loaded[u] /\ quarantine'[u] = quarantine[u]
    BY <2>3 DEF WriteQuarantine, PersistChunk, TypeOK
  <2> QED
    BY <2>2, <2>3, RowsStep
<1>2. CASE ledger'[u] = ledger[u]
  BY <1>1, <1>2
<1>3. CASE LeaseRunsOut(u) \/ LeaseRunsOutEarly(u)
  BY <1>0, <1>1, <1>3 DEF LeaseRunsOut, LeaseRunsOutEarly, Ages, SetRun, TypeOK, Run
<1>4. CASE ledger[u].status = "absent" /\ ledger'[u] = NewRun
  BY <1>1, <1>4 DEF Leased, NewRun, AbsentRun
<1>5. ASSUME NEW w \in Workers, ReclaimRun(w) \/ CompleteRun(w) \/ FailRun(w), unit[w] = u
      PROVE  /\ ledger'[u].last = ledger[u].last
             /\ ledger'[u].read = ledger[u].read
             /\ ledger'[u].valid = ledger[u].valid
  <2>1. ledger'[u] \in {Reclaimed(ledger[u]), Completed(ledger[u]), Failed(ledger[u])}
    BY <1>5 DEF ReclaimRun, CompleteRun, FailRun, SetRun, TypeOK
  <2> QED
    BY <1>0, <2>1, RunEffect, RunCounters
<1> QED
  BY <1>1, <1>2, <1>3, <1>4, <1>5, RowStep DEF Holds

\* What Settled says of worker x, after a step.
JudgedNext(x) ==
    LET u == unit'[x]
        chunk == Chunk(u, next'[x])
    IN  /\ pc'[x] \in {"validated", "persist"} => chunk # {} /\ good'[x] \subseteq chunk
        /\ pc'[x] = "persist" => chunk \subseteq good'[x] \cup quarantine'[u]

\* A holder's verdict on its chunk stays with it until the merge: nobody else may
\* touch the quarantine files of a unit that is held.
LEMMA JudgedStep ==
    ASSUME TypeOK, Settled, [Next]_vars, NEW x \in Workers
    PROVE  JudgedNext(x)
<1> DEFINE u == unit[x]
           chunk == Chunk(u, next[x])
<1>0. /\ Leased /\ OneHolder
      /\ pc[x] \in {"validated", "persist"} => chunk # {} /\ good[x] \subseteq chunk
      /\ pc[x] = "persist" => chunk \subseteq good[x] \cup quarantine[u]
  BY DEF Settled, Leased
<1>1. CASE pc'[x] \notin {"validated", "persist"}
  BY <1>1 DEF JudgedNext
<1>2. CASE /\ pc'[x] = pc[x] /\ unit'[x] = u
           /\ next'[x] = next[x] /\ good'[x] = good[x]
  <2>1. CASE pc[x] = "persist"
    <3>1. u \in Units /\ Holds(x, u)
      BY <2>1 DEF TypeOK, Holds, Holding
    <3>2. ASSUME NEW w \in Workers, Holds(w, u), WriteQuarantine(w) \/ PersistChunk(w)
          PROVE  FALSE
      <4>1. w = x
        BY <1>0, <3>1, <3>2 DEF OneHolder
      <4> QED
        BY <1>2, <2>1, <3>2, <4>1 DEF WriteQuarantine, PersistChunk, TypeOK
    <3>3. quarantine'[u] = quarantine[u]
      BY <1>0, <3>1, <3>2, ProgressStep
    <3> QED
      BY <1>0, <1>2, <2>1, <3>3 DEF JudgedNext
  <2>2. CASE pc[x] # "persist"
    BY <1>0, <1>2, <2>2 DEF JudgedNext
  <2> QED
    BY <2>1, <2>2
<1>3. CASE ValidateChunk(x)
  <2>1. /\ pc'[x] = "validated" /\ unit'[x] = u /\ next'[x] = next[x]
        /\ chunk # {} /\ good'[x] \subseteq chunk
    BY <1>3 DEF ValidateChunk, TypeOK
  <2> QED
    BY <2>1 DEF JudgedNext
<1>4. CASE WriteQuarantine(x)
  <2>1. /\ pc[x] = "validated" /\ pc'[x] = "persist" /\ unit'[x] = u
        /\ next'[x] = next[x] /\ good'[x] = good[x]
    BY <1>4 DEF WriteQuarantine, Goto, TypeOK
  <2>2. u \in Units /\ quarantine \in [Units -> SUBSET Nat]
    BY <2>1 DEF TypeOK
  <2>3. chunk \ good[x] # {} => quarantine'[u] = (quarantine[u] \ chunk) \cup (chunk \ good[x])
    BY <1>4, <2>2 DEF WriteQuarantine
  <2>4. chunk \subseteq good[x] \cup quarantine'[u]
    BY <2>3
  <2> QED
    BY <1>0, <2>1, <2>4 DEF JudgedNext
<1>5. ASSUME \/ Scan(x) \/ EndJob(x) \/ Claim(x) \/ OpenObject(x) \/ ReadFails(x)
             \/ ChunkRaises(x) \/ PersistChunk(x) \/ CompleteRun(x) \/ FailRun(x)
      PROVE  pc'[x] \notin {"validated", "persist"}
  BY <1>5 DEF TypeOK, Goto, EndIteration, HoldFrom, Take, Scan, EndJob, Claim, InsertRun,
     ConflictingRun, SkipRun, SelectRun, ReclaimRun, LoseClaim, OpenObject, ReadFails,
     ChunkRaises, PersistChunk, CompleteRun, FailRun
<1>6. ASSUME Archive(x) \/ Fault(x)
      PROVE  pc'[x] \notin {"validated", "persist"}
  BY <1>6 DEF TypeOK, Goto, EndIteration, Archive, DownloadForArchive, CopyToProcessed,
     DeleteFromLanding, ArchiveRefused, Fault, Interrupt, ArchiveFails, Die
<1> QED
  BY <1>1, <1>2, <1>3, <1>4, <1>5, <1>6, OwnLocals DEF Work, Process

\* What Settled says of unit u apart from its holders: where its rows are, what has
\* been counted, and that the resume point stays within the object.
SettledUnit(u) ==
    LET last == ledger[u].last
        ended == ledger[u].status = "completed"
    IN  /\ loaded[u] \subseteq UpTo(u, last)
        /\ UpTo(u, last) \subseteq loaded[u] \cup quarantine[u]
        /\ ledger[u].read = Cardinality(UpTo(u, last))
        /\ ledger[u].valid = Cardinality(loaded[u])
        /\ \A k \in 1 .. last : Chunk(u, k) # {}
        /\ ended => UpTo(u, last) = Rows(u) /\ ledger[u].read = Cardinality(Rows(u))

\* The same after a step.
SettledUnitNext(u) ==
    LET last == ledger'[u].last
        ended == ledger'[u].status = "completed"
    IN  /\ loaded'[u] \subseteq UpTo(u, last)
        /\ UpTo(u, last) \subseteq loaded'[u] \cup quarantine'[u]
        /\ ledger'[u].read = Cardinality(UpTo(u, last))
        /\ ledger'[u].valid = Cardinality(loaded'[u])
        /\ \A k \in 1 .. last : Chunk(u, k) # {}
        /\ ended => UpTo(u, last) = Rows(u) /\ ledger'[u].read = Cardinality(Rows(u))

\* A reader that is exhausted has counted and settled every row.
LEMMA CompleteReadsAll ==
    ASSUME TypeOK, Leased, NEW w \in Workers, CompleteRun(w)
    PROVE  /\ unit[w] \in Units
           /\ UpTo(unit[w], ledger[unit[w]].last) = Rows(unit[w])
<1> DEFINE u == unit[w]
<1>1. u \in Units /\ Holds(w, u)
  BY DEF CompleteRun, TypeOK, Holds, Holding
<1>2. next[w] = ledger[u].last + 1
  BY <1>1 DEF Leased
<1>3. ledger[u].last \in Nat
  BY <1>1 DEF TypeOK, Run
<1>4. \A r \in Rows(u) : ChunkOf(r, u.size) \in Nat
  BY <1>1, RowsType, ChunkOfType, SizesAssumption DEF Units
<1>5. \A r \in Rows(u) : ChunkOf(r, u.size) <= ledger[u].last
  BY <1>2, <1>3, <1>4 DEF CompleteRun
<1> QED
  BY <1>1, <1>5 DEF UpTo

\* A committed merge adds exactly its chunk: to the rows of the students table and
\* the quarantine together, and to the counters.
LEMMA PersistSettles ==
    ASSUME TypeOK, Settled, NEW w \in Workers, PersistChunk(w), NEW u \in Units,
           Holds(w, u), SettledUnit(u)
    PROVE  SettledUnitNext(u)
<1> DEFINE k == next[w]
           chunk == Chunk(u, k)
<1>1. /\ unit[w] = u /\ pc[w] = "persist" /\ k \in Nat \ {0}
      /\ ledger[u] \in Run /\ ledger[u].last \in Nat
      /\ ledger[u].read \in Nat /\ ledger[u].valid \in Nat
  BY DEF Holds, PersistChunk, TypeOK, Run
<1>2. k = ledger[u].last + 1 /\ ledger[u].last = k - 1 /\ ledger[u].status = "running"
  BY <1>1 DEF Settled, Leased
<1>3. chunk # {} /\ good[w] \subseteq chunk /\ chunk \subseteq good[w] \cup quarantine[u]
  BY <1>1 DEF Settled
<1>4. /\ UpTo(u, k) = UpTo(u, k - 1) \cup chunk /\ UpTo(u, k - 1) \cap chunk = {}
      /\ Cardinality(UpTo(u, k)) = Cardinality(UpTo(u, k - 1)) + Cardinality(chunk)
  BY <1>1, ChunkAdds
<1>5. loaded'[u] = loaded[u] \cup good[w] /\ quarantine' = quarantine
  BY <1>1 DEF PersistChunk, TypeOK
<1>6. IsFiniteSet(chunk) /\ IsFiniteSet(good[w]) /\ IsFiniteSet(loaded[u])
  <2>1. IsFiniteSet(Rows(u)) /\ loaded[u] \subseteq Rows(u)
    BY RowsType DEF SettledUnit, UpTo
  <2> QED
    BY <1>1, <2>1, ChunkType, FS_Subset DEF TypeOK
<1>7. /\ Cardinality(chunk) \in Nat
      /\ Cardinality(good[w]) \in Nat
      /\ Cardinality(loaded'[u]) = Cardinality(loaded[u]) + Cardinality(good[w])
  <2>1. loaded[u] \cap good[w] = {}
    BY <1>2, <1>3, <1>4 DEF SettledUnit
  <2> QED
    BY <1>5, <1>6, <2>1, DisjointUnion, FS_CardinalityType
<1>8. /\ ledger'[u].last = k
      /\ ledger'[u].read = ledger[u].read + Cardinality(chunk)
      /\ ledger'[u].valid = ledger[u].valid + Cardinality(good[w])
      /\ ledger'[u].status = "running"
  <2>1. ledger'[u] = Progressed(ledger[u], k, Cardinality(chunk), Cardinality(good[w]))
    BY <1>1 DEF PersistChunk, SetRun, TypeOK
  <2> DEFINE run == Progressed(ledger[u], k, Cardinality(chunk), Cardinality(good[w]))
  <2>2. /\ run.last = k /\ run.status = ledger[u].status
        /\ run.read = ledger[u].read + Cardinality(chunk)
        /\ run.valid = ledger[u].valid + Cardinality(good[w])
    <3>1. /\ ledger[u] \in Run /\ k \in Nat
          /\ Cardinality(chunk) \in Nat /\ Cardinality(good[w]) \in Nat
      BY <1>1, <1>7
    <3> HIDE DEF k, chunk
    <3> QED
      BY <3>1, ProgressCounts
  <2> HIDE DEF run, k, chunk
  <2> QED
    BY <1>2, <2>1, <2>2 DEF run
<1>9. loaded'[u] \subseteq UpTo(u, k) /\ UpTo(u, k) \subseteq loaded'[u] \cup quarantine'[u]
  BY <1>2, <1>3, <1>4, <1>5 DEF SettledUnit
<1>10. ledger'[u].read = Cardinality(UpTo(u, k)) /\ ledger'[u].valid = Cardinality(loaded'[u])
  BY <1>2, <1>4, <1>7, <1>8 DEF SettledUnit
<1>11. \A j \in 1 .. k : Chunk(u, j) # {}
  <2>1. \A j \in 1 .. k : j = k \/ j \in 1 .. ledger[u].last
    BY <1>1, <1>2
  <2> QED
    BY <1>3, <2>1 DEF SettledUnit
<1> QED
  BY <1>8, <1>9, <1>10, <1>11 DEF SettledUnitNext

\* A step other than a merge moves no row and no counter, and writes at most the
\* quarantine file of a chunk beyond the resume point.
LEMMA OthersSettle ==
    ASSUME TypeOK, Settled, [Next]_vars, NEW u \in Units, SettledUnit(u),
           loaded'[u] = loaded[u], ledger'[u].last = ledger[u].last,
           ledger'[u].read = ledger[u].read, ledger'[u].valid = ledger[u].valid,
           UpTo(u, ledger[u].last) \cap quarantine[u] \subseteq quarantine'[u]
    PROVE  SettledUnitNext(u)
<1>1. /\ loaded'[u] \subseteq UpTo(u, ledger'[u].last)
      /\ UpTo(u, ledger'[u].last) \subseteq loaded'[u] \cup quarantine'[u]
  BY DEF SettledUnit
<1>2. /\ ledger'[u].read = Cardinality(UpTo(u, ledger'[u].last))
      /\ ledger'[u].valid = Cardinality(loaded'[u])
      /\ \A k \in 1 .. ledger'[u].last : Chunk(u, k) # {}
  BY DEF SettledUnit
<1>3. ledger'[u].status = "completed" => UpTo(u, ledger'[u].last) = Rows(u)
  <2>1. CASE ledger[u].status = "completed"
    BY <2>1 DEF SettledUnit
  <2>2. CASE \E w \in Workers : CompleteRun(w) /\ unit[w] = u
    BY <2>2, CompleteReadsAll DEF Settled
  <2> QED
    BY <2>1, <2>2, LedgerStep
<1> QED
  BY <1>1, <1>2, <1>3 DEF SettledUnitNext

\* Every step keeps the rows and the counters of every unit settled.
LEMMA UnitStep ==
    ASSUME TypeOK, Settled, [Next]_vars, NEW u \in Units, SettledUnit(u)
    PROVE  SettledUnitNext(u)
<1>0. Leased
  BY DEF Settled
<1>1. CASE /\ ledger'[u].last = ledger[u].last
           /\ ledger'[u].read = ledger[u].read
           /\ ledger'[u].valid = ledger[u].valid
           /\ loaded'[u] = loaded[u] /\ quarantine'[u] = quarantine[u]
  BY <1>1, OthersSettle
<1>2. ASSUME NEW w \in Workers, Holds(w, u), WriteQuarantine(w)
      PROVE  SettledUnitNext(u)
  <2>1. unit[w] = u /\ ledger' = ledger /\ loaded' = loaded
    BY <1>2 DEF WriteQuarantine, Holds
  <2>2. next[w] = ledger[u].last + 1 /\ ledger[u].last \in Nat
    BY <1>0, <1>2 DEF Leased, TypeOK, Run
  <2>3. UpTo(u, ledger[u].last) \cap Chunk(u, next[w]) = {}
    BY <2>2 DEF UpTo, Chunk
  <2>4. UpTo(u, ledger[u].last) \cap quarantine[u] \subseteq quarantine'[u]
    BY <1>2, <2>1, <2>3 DEF WriteQuarantine, TypeOK
  <2> QED
    BY <2>1, <2>4, OthersSettle
<1>3. ASSUME NEW w \in Workers, Holds(w, u), PersistChunk(w)
      PROVE  SettledUnitNext(u)
  BY <1>3, PersistSettles
<1> QED
  BY <1>0, <1>1, <1>2, <1>3, ProgressStep

\* Settled is what is known of the leases, of each unit and of each worker.
LEMMA SettledParts ==
    Settled <=> /\ Leased
                /\ \A u \in Units : SettledUnit(u)
                /\ \A w \in Workers :
                     LET chunk == Chunk(unit[w], next[w])
                     IN  /\ pc[w] \in {"validated", "persist"} =>
                              chunk # {} /\ good[w] \subseteq chunk
                         /\ pc[w] = "persist" =>
                              chunk \subseteq good[w] \cup quarantine[unit[w]]
  BY DEF Settled, Leased, CountersExact, EveryRowAccounted, SettledUnit

\* Without overlap every step keeps Settled: the inductive step of SettledAlways.
LEMMA SettledStep ==
    ASSUME ~ Overlap
    PROVE  TypeOK /\ Settled /\ [Next]_vars => Settled'
<1> SUFFICES ASSUME TypeOK, Settled, [Next]_vars PROVE Settled'
  OBVIOUS
<1>1. Leased'
  BY LeasedStep DEF Settled
<1>2. ASSUME NEW u \in Units PROVE SettledUnitNext(u)
  BY <1>2, SettledParts, UnitStep
<1>3. ASSUME NEW u \in Units
      PROVE  /\ loaded'[u] \subseteq UpTo(u, ledger'[u].last)
             /\ UpTo(u, ledger'[u].last) \subseteq loaded'[u] \cup quarantine'[u]
             /\ ledger'[u].read = Cardinality(UpTo(u, ledger'[u].last))
             /\ ledger'[u].valid = Cardinality(loaded'[u])
             /\ \A k \in 1 .. ledger'[u].last : Chunk(u, k) # {}
             /\ ledger'[u].status = "completed" =>
                  /\ UpTo(u, ledger'[u].last) = Rows(u)
                  /\ ledger'[u].read = Cardinality(Rows(u))
  BY <1>2 DEF SettledUnitNext
<1>4. CountersExact'
  BY <1>1, <1>3 DEF CountersExact, Leased, UpTo, Rows
<1>5. EveryRowAccounted'
  BY <1>3 DEF EveryRowAccounted, UpTo, Rows
<1>6. \A x \in Workers : JudgedNext(x)
  BY JudgedStep
<1> QED
  BY <1>1, <1>3, <1>4, <1>5, <1>6 DEF Settled, JudgedNext, UpTo, Chunk, Rows

\* Nothing has been merged, counted or judged at the start.
LEMMA InitSettled == Init => Settled
<1> SUFFICES ASSUME Init PROVE Settled
  OBVIOUS
<1>1. Leased
  BY DEF Init, Leased, OneHolder, Holds, Holding
<1>2. ASSUME NEW u \in Units PROVE SettledUnit(u)
  <2>1. loaded[u] = {} /\ ledger[u] = AbsentRun
    BY DEF Init
  <2>2. UpTo(u, 0) = {} /\ Cardinality({}) = 0
    BY UpToStep, FS_EmptySet
  <2> QED
    BY <2>1, <2>2 DEF SettledUnit, AbsentRun
<1> QED
  BY <1>1, <1>2, SettledParts DEF Init

\* Settled is an invariant of every behavior in which no lease runs out under a
\* living worker.
THEOREM SettledAlways ==
    ASSUME ~ Overlap
    PROVE  Spec => []Settled
<1>1. TypeOK /\ Settled /\ [Next]_vars => Settled'
  BY SettledStep
<1> QED
  BY <1>1, InitSettled, TypeCorrect, PTL DEF Spec

\* However often a run is interrupted, released, taken over and resumed, each of
\* its rows is counted once, and all of them are when it completes.
THEOREM CountersAreExact ==
    ASSUME ~ Overlap
    PROVE  Spec => []CountersExact
<1>1. Settled => CountersExact
  BY DEF Settled
<1> QED
  BY <1>1, SettledAlways, PTL

\* No row before a resume point is missing from both the students table and the
\* quarantine, early rows that a redo judged differently included.
THEOREM RowsAreAccounted ==
    ASSUME ~ Overlap
    PROVE  Spec => []EveryRowAccounted
<1>1. Settled => EveryRowAccounted
  BY DEF Settled
<1> QED
  BY <1>1, SettledAlways, PTL

-----------------------------------------------------------------------------
(* The refinement: each step is a step of UnitOfWork or leaves its state alone. *)

\* The holders of a unit, as Promise sees them, and whether it is finished.
HoldersOf(u) == {w \in Workers : Holds(w, u)}
Ended(u)     == ledger[u].status = "completed"

\* What Promise sees of unit u does not change.
SameUnit(u) == /\ HoldersOf(u)' = HoldersOf(u)
               /\ ledger'[u].last = ledger[u].last
               /\ Ended(u)' <=> Ended(u)

\* A step that changes what Promise sees of no unit is a stutter.
LEMMA SameIsStutter ==
    ASSUME \A u \in Units : SameUnit(u)
    PROVE  UNCHANGED Promise!vars
<1>1. UNCHANGED [u \in Units |-> {w \in Workers : Holds(w, u)}]
  BY DEF SameUnit, HoldersOf
<1>2. UNCHANGED [u \in Units |-> ledger[u].last]
  BY DEF SameUnit
<1>3. UNCHANGED [u \in Units |-> ledger[u].status = "completed"]
  BY DEF SameUnit, Ended
<1> QED
  BY <1>1, <1>2, <1>3 DEF Promise!vars

\* A claim of a free unit that is not finished is a Take.
LEMMA IsTake ==
    ASSUME NEW u \in Units, NEW w \in Workers,
           \A v \in Units \ {u} : SameUnit(v),
           ~ Ended(u), HoldersOf(u) = {}, HoldersOf(u)' = {w},
           ledger'[u].last = ledger[u].last, ~ Ended(u)'
    PROVE  Promise!Take(u, w)
<1>1. [v \in Units |-> {x \in Workers : Holds(x, v)}]'
        = [[v \in Units |-> {x \in Workers : Holds(x, v)}] EXCEPT ![u] = {w}]
  BY DEF SameUnit, HoldersOf
<1>2. UNCHANGED [v \in Units |-> ledger[v].last]
  BY DEF SameUnit
<1>3. UNCHANGED [v \in Units |-> ledger[v].status = "completed"]
  BY DEF SameUnit, Ended
<1>4. /\ ~ [v \in Units |-> ledger[v].status = "completed"][u]
      /\ [v \in Units |-> {x \in Workers : Holds(x, v)}][u] = {}
  BY DEF HoldersOf, Ended
<1> QED
  BY <1>1, <1>2, <1>3, <1>4 DEF Promise!Take

\* A merge under a lease, with a chunk left to apply, is an Apply.
LEMMA IsApply ==
    ASSUME NEW u \in Units,
           \A v \in Units \ {u} : SameUnit(v),
           HoldersOf(u) # {}, HoldersOf(u)' = HoldersOf(u), Ended(u)' <=> Ended(u),
           ledger[u].last < Cardinality(ChunkNumbers(u)),
           ledger'[u].last = ledger[u].last + 1
    PROVE  Promise!Apply(u)
<1>1. UNCHANGED [v \in Units |-> {x \in Workers : Holds(x, v)}]
  BY DEF SameUnit, HoldersOf
<1>2. [v \in Units |-> ledger[v].last]'
        = [[v \in Units |-> ledger[v].last] EXCEPT ![u] = @ + 1]
  BY DEF SameUnit
<1>3. UNCHANGED [v \in Units |-> ledger[v].status = "completed"]
  BY DEF SameUnit, Ended
<1>4. /\ [v \in Units |-> {x \in Workers : Holds(x, v)}][u] # {}
      /\ [v \in Units |-> ledger[v].last][u]
           < [v \in Units |-> Cardinality({ChunkOf(r, v.size) : r \in Rows(v)})][u]
  BY DEF HoldersOf, ChunkNumbers
<1> QED
  BY <1>1, <1>2, <1>3, <1>4 DEF Promise!Apply

\* The end of a lease that leaves the unit unfinished is a Release.
LEMMA IsRelease ==
    ASSUME NEW u \in Units,
           \A v \in Units \ {u} : SameUnit(v),
           HoldersOf(u) # {}, HoldersOf(u)' = {}, Ended(u)' <=> Ended(u),
           ledger'[u].last = ledger[u].last
    PROVE  Promise!Release(u)
<1>1. [v \in Units |-> {x \in Workers : Holds(x, v)}]'
        = [[v \in Units |-> {x \in Workers : Holds(x, v)}] EXCEPT ![u] = {}]
  BY DEF SameUnit, HoldersOf
<1>2. UNCHANGED [v \in Units |-> ledger[v].last]
  BY DEF SameUnit
<1>3. UNCHANGED [v \in Units |-> ledger[v].status = "completed"]
  BY DEF SameUnit, Ended
<1>4. [v \in Units |-> {x \in Workers : Holds(x, v)}][u] # {}
  BY DEF HoldersOf
<1> QED
  BY <1>1, <1>2, <1>3, <1>4 DEF Promise!Release

\* The end of a lease that finishes the unit, all chunks applied, is a Finish.
LEMMA IsFinish ==
    ASSUME NEW u \in Units,
           \A v \in Units \ {u} : SameUnit(v),
           HoldersOf(u) # {}, HoldersOf(u)' = {}, Ended(u)',
           ledger[u].last = Cardinality(ChunkNumbers(u)),
           ledger'[u].last = ledger[u].last
    PROVE  Promise!Finish(u)
<1>1. [v \in Units |-> {x \in Workers : Holds(x, v)}]'
        = [[v \in Units |-> {x \in Workers : Holds(x, v)}] EXCEPT ![u] = {}]
  BY DEF SameUnit, HoldersOf
<1>2. UNCHANGED [v \in Units |-> ledger[v].last]
  BY DEF SameUnit
<1>3. [v \in Units |-> ledger[v].status = "completed"]'
        = [[v \in Units |-> ledger[v].status = "completed"] EXCEPT ![u] = TRUE]
  BY DEF SameUnit, Ended
<1>4. /\ [v \in Units |-> {x \in Workers : Holds(x, v)}][u] # {}
      /\ [v \in Units |-> ledger[v].last][u]
           = [v \in Units |-> Cardinality({ChunkOf(r, v.size) : r \in Rows(v)})][u]
  BY DEF HoldersOf, ChunkNumbers
<1> QED
  BY <1>1, <1>2, <1>3, <1>4 DEF Promise!Finish

\* A worker's step changes a unit for Promise through the worker's own lease and
\* through the unit's row only.
LEMMA UnitKept ==
    ASSUME TypeOK, NEW w \in Workers, Work(w) \/ Fault(w), NEW v \in Units,
           Holds(w, v)' <=> Holds(w, v),
           ledger'[v].last = ledger[v].last, Ended(v)' <=> Ended(v)
    PROVE  SameUnit(v)
<1>1. ASSUME NEW x \in Workers, x # w
      PROVE  Holds(x, v)' <=> Holds(x, v)
  BY <1>1, OthersLocals DEF Holds
<1>2. \A x \in Workers : Holds(x, v)' <=> Holds(x, v)
  BY <1>1
<1>3. HoldersOf(v)' = HoldersOf(v)
  BY <1>2 DEF HoldersOf
<1> QED
  BY <1>3 DEF SameUnit

\* A lease changes hands by the steps of one worker: the others are as before.
LEMMA HoldersAfter ==
    ASSUME TypeOK, OneHolder, NEW w \in Workers, Work(w) \/ Fault(w), NEW u \in Units,
           Holds(w, u) \/ HoldersOf(u) = {}
    PROVE  /\ Holds(w, u) => HoldersOf(u) = {w}
           /\ Holds(w, u)' => HoldersOf(u)' = {w}
           /\ ~ Holds(w, u)' => HoldersOf(u)' = {}
<1>1. ASSUME NEW x \in Workers, x # w
      PROVE  ~ Holds(x, u) /\ ~ Holds(x, u)'
  <2>1. ~ Holds(x, u)
    BY <1>1 DEF OneHolder, HoldersOf
  <2>2. Holds(x, u)' <=> Holds(x, u)
    BY <1>1, OthersLocals DEF Holds
  <2> QED
    BY <2>1, <2>2
<1> QED
  BY <1>1 DEF HoldersOf

\* A claim takes a unit that is free and not finished.
LEMMA ClaimTakes ==
    ASSUME TypeOK, Leased, NEW w \in Workers, InsertRun(w) \/ ReclaimRun(w)
    PROVE  Promise!Next
<1>0. Work(w)
  BY DEF Work, Claim
<1>u. PICK u \in Units : unit'[w] = u
  BY DEF InsertRun, ReclaimRun, Take, TypeOK
<1>1. /\ pc[w] \notin Holding /\ pc'[w] = "open"
      /\ \/ ledger[u].status = "absent" /\ ledger'[u] = NewRun
         \/ Claimable(ledger[u]) /\ ledger'[u] = Reclaimed(ledger[u])
      /\ \A v \in Units \ {u} : ledger'[v] = ledger[v]
  <2>1. CASE InsertRun(w)
    BY <1>u, <2>1 DEF InsertRun, Take, HoldFrom, SetRun, TypeOK, Holding
  <2>2. CASE ReclaimRun(w)
    BY <1>u, <2>2 DEF ReclaimRun, HoldFrom, SetRun, TypeOK, Holding
  <2> QED
    BY <2>1, <2>2
<1>2. ~ Ended(u) /\ ~ Ended(u)' /\ ledger'[u].last = ledger[u].last
  <2>1. ledger[u] \in Run
    BY <1>1 DEF TypeOK
  <2>2. CASE ledger[u].status = "absent" /\ ledger'[u] = NewRun
    BY <1>1, <2>2 DEF Leased, NewRun, AbsentRun, Ended
  <2>3. CASE Claimable(ledger[u]) /\ ledger'[u] = Reclaimed(ledger[u])
    BY <2>1, <2>3, RunEffect DEF Claimable, Ended
  <2> QED
    BY <1>1, <2>2, <2>3
<1>3. HoldersOf(u) = {}
  BY <1>1 DEF Leased, Claimable, HoldersOf
<1>4. Holds(w, u)'
  BY <1>u, <1>1 DEF Holds, Holding
<1>5. HoldersOf(u)' = {w}
  BY <1>0, <1>1, <1>3, <1>4, HoldersAfter DEF Leased
<1>6. ASSUME NEW v \in Units \ {u} PROVE SameUnit(v)
  <2>1. ~ Holds(w, v) /\ ~ Holds(w, v)'
    BY <1>u, <1>1, <1>6 DEF Holds
  <2> QED
    BY <1>0, <1>1, <1>6, <2>1, UnitKept DEF Ended
<1>7. Promise!Take(u, w)
  BY <1>1, <1>2, <1>3, <1>5, <1>6, IsTake
<1> QED
  BY <1>1, <1>7 DEF Promise!Next

\* A merge applies the next chunk of a unit that is held, and there is one.
LEMMA PersistApplies ==
    ASSUME TypeOK, Settled, NEW w \in Workers, PersistChunk(w)
    PROVE  Promise!Next
<1>0. Work(w) /\ Leased
  BY DEF Work, Process, Settled
<1>u. PICK u \in Units : unit[w] = u
  BY DEF PersistChunk, TypeOK
<1>1. /\ Holds(w, u) /\ Holds(w, u)' /\ unit' = unit
      /\ \A v \in Units \ {u} : ledger'[v] = ledger[v]
  BY <1>u DEF PersistChunk, SetRun, TypeOK, Holds, Holding
<1>2. /\ ledger[u].last \in Nat /\ next[w] = ledger[u].last + 1
  BY <1>0, <1>1 DEF Leased, TypeOK, Run
<1>3. ledger'[u].last = next[w] /\ ledger'[u].status = ledger[u].status
  BY <1>u DEF PersistChunk, SetRun, TypeOK, Progressed, Run
<1>4. ledger[u].last < Cardinality(ChunkNumbers(u))
  <2>1. \A k \in 1 .. next[w] : Chunk(u, k) # {}
    <3>1. \A k \in 1 .. ledger[u].last : Chunk(u, k) # {}
      BY <1>1 DEF Settled
    <3>2. Chunk(u, next[w]) # {}
      BY <1>u DEF Settled, PersistChunk
    <3> QED
      BY <1>2, <3>1, <3>2
  <2>2. next[w] <= Cardinality(ChunkNumbers(u)) /\ Cardinality(ChunkNumbers(u)) \in Nat
    <3>1. next[w] \in Nat
      BY <1>2
    <3> QED
      BY <2>1, <3>1, ChunkCount
  <2> QED
    BY <1>2, <2>2
<1>5. HoldersOf(u) = {w} /\ HoldersOf(u)' = {w}
  BY <1>0, <1>1, HoldersAfter DEF Leased
<1>6. ASSUME NEW v \in Units \ {u} PROVE SameUnit(v)
  <2>1. ~ Holds(w, v) /\ ~ Holds(w, v)'
    BY <1>u, <1>1, <1>6 DEF Holds
  <2> QED
    BY <1>0, <1>1, <1>6, <2>1, UnitKept DEF Ended
<1>7. Promise!Apply(u)
  BY <1>1, <1>2, <1>3, <1>4, <1>5, <1>6, IsApply DEF Ended
<1> QED
  BY <1>1, <1>7 DEF Promise!Next

\* A completion finishes a unit whose chunks have all been applied.
LEMMA CompleteFinishes ==
    ASSUME TypeOK, Settled, NEW w \in Workers, CompleteRun(w)
    PROVE  Promise!Next
<1>0. Work(w) /\ Leased
  BY DEF Work, Process, Settled
<1>u. PICK u \in Units : unit[w] = u
  BY DEF CompleteRun, TypeOK
<1>1. /\ Holds(w, u) /\ ~ Holds(w, u)' /\ unit' = unit
      /\ ledger'[u] = Completed(ledger[u]) /\ ledger[u] \in Run
      /\ \A v \in Units \ {u} : ledger'[v] = ledger[v]
  BY <1>u DEF CompleteRun, Goto, SetRun, TypeOK, Holds, Holding
<1>2. ledger'[u].last = ledger[u].last /\ ledger[u].last \in Nat /\ Ended(u)'
  BY <1>1, RunEffect DEF Ended, Run
<1>3. ledger[u].last = Cardinality(ChunkNumbers(u))
  <2>1. UpTo(u, ledger[u].last) = Rows(u)
    BY <1>0, <1>u, CompleteReadsAll
  <2>2. \A k \in 1 .. ledger[u].last : Chunk(u, k) # {}
    BY DEF Settled
  <2> QED
    BY <1>2, <2>1, <2>2, ChunkCount
<1>4. HoldersOf(u) = {w} /\ HoldersOf(u)' = {}
  BY <1>0, <1>1, HoldersAfter DEF Leased
<1>5. ASSUME NEW v \in Units \ {u} PROVE SameUnit(v)
  <2>1. ~ Holds(w, v) /\ ~ Holds(w, v)'
    BY <1>u, <1>1, <1>5 DEF Holds
  <2> QED
    BY <1>0, <1>1, <1>5, <2>1, UnitKept DEF Ended
<1>6. Promise!Finish(u)
  BY <1>2, <1>3, <1>4, <1>5, IsFinish
<1> QED
  BY <1>6 DEF Promise!Next

\* A failure or the death of a holder releases the unit as it is.
LEMMA EndReleases ==
    ASSUME TypeOK, Settled, NEW w \in Workers, NEW u \in Units, Holds(w, u),
           FailRun(w) \/ Die(w)
    PROVE  Promise!Next
<1>0. (Work(w) \/ Fault(w)) /\ Leased
  BY DEF Work, Process, Fault, Settled
<1>1. /\ unit[w] = u /\ \A v \in Units : ~ Holds(w, v)'
      /\ ledger'[u] = Failed(ledger[u]) \/ ledger'[u] = ledger[u]
      /\ ledger[u] \in Run /\ ledger[u].status = "running"
      /\ \A v \in Units \ {u} : ledger'[v] = ledger[v]
  <2>1. unit[w] = u /\ ledger[u] \in Run /\ ledger[u].status = "running"
    BY <1>0 DEF Holds, TypeOK, Leased
  <2>2. CASE FailRun(w)
    BY <2>1, <2>2 DEF FailRun, EndIteration, SetRun, TypeOK, Holds, Holding
  <2>3. CASE Die(w)
    BY <2>1, <2>3 DEF Die, durable, TypeOK, Holds, Holding
  <2> QED
    BY <2>1, <2>2, <2>3
<1>2. ledger'[u].last = ledger[u].last /\ ~ Ended(u) /\ ~ Ended(u)'
  BY <1>1, RunEffect DEF Ended
<1>3. HoldersOf(u) = {w} /\ HoldersOf(u)' = {}
  BY <1>0, <1>1, HoldersAfter DEF Leased
<1>4. ASSUME NEW v \in Units \ {u} PROVE SameUnit(v)
  <2>1. ~ Holds(w, v) /\ ~ Holds(w, v)'
    BY <1>1, <1>4 DEF Holds
  <2> QED
    BY <1>0, <1>1, <1>4, <2>1, UnitKept DEF Ended
<1>5. Promise!Release(u)
  BY <1>2, <1>3, <1>4, IsRelease
<1> QED
  BY <1>5 DEF Promise!Next

\* The other steps of a worker neither gain nor lose a lease.
LEMMA WorkerStutters ==
    ASSUME TypeOK, NEW w \in Workers, Work(w) \/ Fault(w),
           ~ InsertRun(w), ~ ReclaimRun(w), ~ PersistChunk(w), ~ CompleteRun(w),
           FailRun(w) \/ Die(w) => \A u \in Units : ~ Holds(w, u)
    PROVE  UNCHANGED Promise!vars
<1> USE DEF TypeOK, durable, Goto, EndIteration, Take, Holds, Holding, Archiving
<1>1. ~ FailRun(w)
  BY DEF FailRun
<1>2. ledger' = ledger /\ \A u \in Units : Holds(w, u)' <=> Holds(w, u)
  <2>1. CASE Scan(w) \/ EndJob(w)
    BY <2>1 DEF Scan, EndJob
  <2>2. CASE Claim(w)
    BY <2>2 DEF Claim, ConflictingRun, SkipRun, SelectRun, LoseClaim
  <2>3. CASE Process(w)
    BY <1>1, <2>3 DEF Process, OpenObject, ReadFails, ChunkRaises, ValidateChunk, WriteQuarantine
  <2>4. CASE Archive(w)
    BY <2>4 DEF Archive, DownloadForArchive, CopyToProcessed, DeleteFromLanding,
                ArchiveRefused
  <2>5. CASE Interrupt(w) \/ ArchiveFails(w)
    BY <2>5 DEF Interrupt, ArchiveFails
  <2>6. CASE Die(w)
    BY <2>6 DEF Die
  <2> QED
    BY <2>1, <2>2, <2>3, <2>4, <2>5, <2>6 DEF Work, Fault
<1>3. \A u \in Units : SameUnit(u)
  BY <1>2, UnitKept DEF Ended
<1> QED
  BY <1>3, SameIsStutter

\* What no worker does, the passing of a lease included, is a stutter.
LEMMA WorldStutters ==
    ASSUME TypeOK,
           \/ \E n \in Names : Put(n)
           \/ ClockPasses
           \/ \E u \in Units : LeaseRunsOut(u) \/ LeaseRunsOutEarly(u)
           \/ UNCHANGED vars
    PROVE  UNCHANGED Promise!vars
<1>1. UNCHANGED <<pc, unit>>
  BY DEF Put, ClockPasses, LeaseRunsOut, LeaseRunsOutEarly, Ages, vars, local
<1>2. ASSUME NEW v \in Units
      PROVE  ledger'[v].last = ledger[v].last /\ ledger'[v].status = ledger[v].status
  <2>1. CASE ledger' = ledger
    BY <2>1
  <2>2. ASSUME NEW u \in Units, Ages(u)
        PROVE  ledger'[v].last = ledger[v].last /\ ledger'[v].status = ledger[v].status
    <3>1. ledger[v] \in Run
      BY DEF TypeOK
    <3> QED
      BY <2>2, <3>1 DEF Ages, SetRun, TypeOK, Run
  <2> QED
    BY <2>1, <2>2 DEF Put, ClockPasses, LeaseRunsOut, LeaseRunsOutEarly, vars, durable
<1>3. ASSUME NEW v \in Units PROVE SameUnit(v)
  <2>1. HoldersOf(v)' = HoldersOf(v)
    BY <1>1 DEF HoldersOf, Holds
  <2> QED
    BY <1>2, <2>1 DEF SameUnit, Ended
<1> QED
  BY <1>3, SameIsStutter

\* Every unit of work keeps the promise of UnitOfWork: taken by one worker at a
\* time, each chunk applied once and in order, never taken again once finished,
\* and finished only when all its chunks have been applied.
THEOREM LedgerKeepsPromise ==
    ASSUME ~ Overlap
    PROVE  Spec => KeepsPromise
<1>1. Init => Promise!Init
  <2> SUFFICES ASSUME Init PROVE Promise!Init
    OBVIOUS
  <2>1. [u \in Units |-> {w \in Workers : Holds(w, u)}] = [u \in Units |-> {}]
    BY DEF Init, Holds, Holding
  <2>2. [u \in Units |-> ledger[u].last] = [u \in Units |-> 0]
    BY DEF Init, AbsentRun
  <2>3. [u \in Units |-> ledger[u].status = "completed"] = [u \in Units |-> FALSE]
    BY DEF Init, AbsentRun
  <2> QED
    BY <2>1, <2>2, <2>3 DEF Promise!Init
<1>2. TypeOK /\ Settled /\ [Next]_vars => [Promise!Next]_Promise!vars
  <2> SUFFICES ASSUME TypeOK, Settled, [Next]_vars
               PROVE  Promise!Next \/ UNCHANGED Promise!vars
    OBVIOUS
  <2>1. ASSUME NEW w \in Workers, Work(w) \/ Fault(w)
        PROVE  Promise!Next \/ UNCHANGED Promise!vars
    <3>1. CASE InsertRun(w) \/ ReclaimRun(w)
      BY <3>1, ClaimTakes DEF Settled
    <3>2. CASE PersistChunk(w)
      BY <3>2, PersistApplies
    <3>3. CASE CompleteRun(w)
      BY <3>3, CompleteFinishes
    <3>4. ASSUME NEW u \in Units, Holds(w, u), FailRun(w) \/ Die(w)
          PROVE  Promise!Next
      BY <3>4, EndReleases
    <3> QED
      BY <2>1, <3>1, <3>2, <3>3, <3>4, WorkerStutters
  <2> QED
    BY <2>1, WorldStutters DEF Next
<1> QED
  BY <1>1, <1>2, SettledAlways, TypeCorrect, PTL DEF Spec, KeepsPromise, Promise!Spec
=============================================================================
