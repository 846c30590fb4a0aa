------------------------- MODULE StudentStoreProofs -------------------------
(***************************************************************************)
(* Theorems about StudentStore for every set of writers and ids, every     *)
(* input and every limit on the attempts.                                  *)
(***************************************************************************)
EXTENDS StudentStore, ValidateProofs

-----------------------------------------------------------------------------
(* What validate_chunk hands to the database. *)

LEMMA RowsAreRows == IsRowSet(Rows)
<1> SUFFICES ASSUME NEW r \in Rows
             PROVE  r.at \in Int /\ r.ok \in BOOLEAN
  BY DEF IsRowSet
<1>1. r.at \in Times /\ r.ok \in BOOLEAN
  BY DEF Rows
<1>2. r.at \in Nat
  BY <1>1, TimesAssumption
<1> QED
  BY <1>1, <1>2

\* The chunk at hand is a sequence of rows.
LEMMA ChunkType ==
    ASSUME TypeOK, NEW w \in Writers, Busy(w)
    PROVE  /\ at[w] \in DOMAIN chunks[w]
           /\ Chunk(w) \in Seq(Rows)
           /\ \A k \in DOMAIN Chunk(w) : Chunk(w)[k] \in Rows
<1>1. chunks[w] \in Seq(Seq(Rows)) /\ at[w] \in Nat \ {0} /\ at[w] <= Len(chunks[w])
  BY DEF TypeOK, Busy
<1>2. at[w] \in DOMAIN chunks[w]
  BY <1>1
<1>3. Chunk(w) \in Seq(Rows)
  BY <1>1, <1>2 DEF Chunk
<1> QED
  BY <1>2, <1>3

\* What is staged are the latest rows of the chunk.
LEMMA StagingLatest ==
    ASSUME TypeOK, NEW w \in Writers, Busy(w)
    PROVE  Staging(w) = {Chunk(w)[k] : k \in Latest(Chunk(w))}
  BY ChunkType, RowsAreRows, ValidateSplitsRight DEF Staging, SplitsRight

LEMMA StagingType ==
    ASSUME TypeOK, NEW w \in Writers
    PROVE  Staging(w) \subseteq Rows
<1>1. CASE Busy(w)
  BY <1>1, StagingLatest, ChunkType DEF Latest, Candidates
<1>2. CASE ~ Busy(w)
  BY <1>2 DEF Staging
<1> QED
  BY <1>1, <1>2

\* A student has one staged row, which no valid row of the chunk is fresher than.
LEMMA StagingFreshest ==
    ASSUME TypeOK, NEW w \in Writers, Busy(w)
    PROVE  /\ \A r, s \in Staging(w) : r.id = s.id => r = s
           /\ \A k \in Candidates(Chunk(w)) : \E r \in Staging(w) :
                  r.id = Chunk(w)[k].id /\ r.at >= Chunk(w)[k].at
           /\ \A r \in Staging(w) : r \in {Chunk(w)[k] : k \in Candidates(Chunk(w))}
<1> DEFINE chunk == Chunk(w)
<1>1. chunk \in Seq(Rows) /\ IsRowSet(Rows)
  BY ChunkType, RowsAreRows
<1>2. Latest(chunk) \subseteq Candidates(chunk) /\ Candidates(chunk) \subseteq DOMAIN chunk
  BY DEF Latest, Candidates
<1>3. \A k \in DOMAIN chunk : chunk[k].at \in Int
  BY <1>1, ChunkDomain
<1>4. Staging(w) = {chunk[k] : k \in Latest(chunk)}
  BY StagingLatest
<1>5. \A j, k \in Latest(chunk) : chunk[j].id = chunk[k].id => j = k
  BY <1>1, <1>2, BetterOrder DEF Latest
<1>6. \A k \in Candidates(chunk) : \E j \in Latest(chunk) : j = k \/ Better(chunk, j, k)
  BY <1>1, LatestCovers
<1>7. \A k \in Candidates(chunk) : \E j \in Latest(chunk) :
          chunk[j].id = chunk[k].id /\ chunk[j].at >= chunk[k].at
  BY <1>2, <1>3, <1>6 DEF Better
<1> QED
  BY <1>2, <1>4, <1>5, <1>7

-----------------------------------------------------------------------------
(* Type correctness, and that a transaction merges staged rows. *)

\* What an open transaction has merged are staged rows, finitely many.
MergesStaged ==
    \A w \in Writers : /\ IsFiniteSet(merged[w])
                       /\ \A m \in merged[w] : m.row \in Staging(w)

Consistent == TypeOK /\ MergesStaged /\ WritesStayValid

LEMMA ConsistentInit == Init => Consistent
<1> SUFFICES ASSUME Init
             PROVE  Consistent
  OBVIOUS
<1>1. TypeOK
  BY InputsAssumption, AttemptsAssumption DEF Init, TypeOK, Ends
<1>2. MergesStaged
  BY FS_EmptySet DEF Init, MergesStaged
<1>3. WritesStayValid
  BY DEF Init, WritesStayValid, Merged
<1> QED
  BY <1>1, <1>2, <1>3 DEF Consistent

\* The merge of one row: nobody else has locked it, and it is a new one.
LEMMA MergeRowConsistent ==
    ASSUME Consistent, NEW w \in Writers, MergeRow(w)
    PROVE  Consistent'
<1>0. PICK i \in Ids :
        /\ i \in Left(w)
        /\ lock[i] = Free
        /\ lock' = [lock EXCEPT ![i] = w]
        /\ \E r \in Freshest(w, i) :
             merged' = [merged EXCEPT ![w] = @ \cup
                 {[row |-> r, outcome |-> Outcome(r, students[i])]}]
        /\ UNCHANGED <<chunks, students, at, attempt, ended, inserted, history>>
  BY DEF MergeRow, NextRow
<1>1. PICK r \in Freshest(w, i) :
        merged' = [merged EXCEPT ![w] = @ \cup
            {[row |-> r, outcome |-> Outcome(r, students[i])]}]
  BY <1>0
<1> DEFINE m == [row |-> r, outcome |-> Outcome(r, students[i])]
<1>2. TypeOK /\ MergesStaged /\ WritesStayValid
  BY DEF Consistent
<1>3. r \in Staging(w) /\ r.id = i /\ r \in Rows /\ i \notin Merged(w)
  BY <1>0, <1>1, <1>2, StagingType DEF Freshest, Left
<1>4. m \in [row : Rows, outcome : Outcomes]
  BY <1>3 DEF Outcome, Outcomes
<1>5. /\ merged'[w] = merged[w] \cup {m}
      /\ \A x \in Writers \ {w} : merged'[x] = merged[x]
      /\ lock'[i] = w /\ \A j \in Ids \ {i} : lock'[j] = lock[j]
  BY <1>0, <1>1, <1>2 DEF TypeOK
<1>6. TypeOK'
  BY <1>0, <1>1, <1>2, <1>4 DEF TypeOK, history
<1>7. MergesStaged'
  <2>1. \A x \in Writers : Staging(x)' = Staging(x)
    BY <1>0 DEF Staging, Busy, Chunk
  <2>2. IsFiniteSet(merged[w] \cup {m})
    BY <1>2, FS_AddElement DEF MergesStaged
  <2>3. IsFiniteSet(merged'[w]) /\ \A n \in merged'[w] : n.row \in Staging(w)
    BY <1>2, <1>3, <1>5, <2>2 DEF MergesStaged
  <2>4. \A x \in Writers \ {w} : IsFiniteSet(merged'[x])
                              /\ \A n \in merged'[x] : n.row \in Staging(x)
    BY <1>2, <1>5 DEF MergesStaged
  <2> QED
    BY <2>1, <2>3, <2>4 DEF MergesStaged
<1>8. WritesStayValid'
  <2> SUFFICES ASSUME NEW x \in Writers
               PROVE  /\ \A n \in merged'[x] : lock'[n.row.id] = x
                      /\ \A n \in merged'[x] : n.outcome = Outcome(n.row, students[n.row.id])
                      /\ \A n, o \in merged'[x] : n.row.id = o.row.id => n = o
    BY <1>0 DEF WritesStayValid, Merged, Outcome
  <2>1. \A n \in merged[x] :
            /\ lock[n.row.id] = x /\ n.row.id \in Ids
            /\ n.outcome = Outcome(n.row, students[n.row.id])
            /\ \A o \in merged[x] : n.row.id = o.row.id => n = o
    BY <1>2 DEF WritesStayValid, Merged, TypeOK, Rows
  <2>2. \A n \in merged[x] : n.row.id # i
    BY <1>0, <2>1, FreeAssumption
  <2>3. \A n \in merged[x] : lock'[n.row.id] = x
    BY <1>5, <2>1, <2>2
  <2>4. CASE x = w
    BY <1>3, <1>5, <2>1, <2>2, <2>3, <2>4
  <2>5. CASE x # w
    BY <1>5, <2>1, <2>3, <2>5
  <2> QED
    BY <2>4, <2>5
<1> QED
  BY <1>6, <1>7, <1>8 DEF Consistent

\* The end of a transaction, which changes no row but those it has written.
LEMMA ReleaseConsistent ==
    ASSUME Consistent, TypeOK', NEW w \in Writers, Release(w), UNCHANGED chunks,
           \A x \in Writers \ {w} : at'[x] = at[x] /\ ended'[x] = ended[x],
           \A i \in Ids : i \notin Merged(w) => students'[i] = students[i]
    PROVE  Consistent'
<1>1. /\ merged'[w] = {}
      /\ \A x \in Writers \ {w} : merged'[x] = merged[x]
      /\ \A i \in Ids : lock[i] # w => lock'[i] = lock[i]
  BY DEF Release, Consistent, TypeOK
<1>2. MergesStaged'
  <2>1. \A x \in Writers \ {w} : Staging(x)' = Staging(x)
    BY DEF Staging, Busy, Chunk
  <2> QED
    BY <1>1, <2>1, FS_EmptySet DEF Consistent, MergesStaged
<1>3. WritesStayValid'
  <2> SUFFICES ASSUME NEW x \in Writers
               PROVE  /\ \A n \in merged'[x] : lock'[n.row.id] = x
                      /\ \A n \in merged'[x] : n.outcome = Outcome(n.row, students'[n.row.id])
                      /\ \A n, o \in merged'[x] : n.row.id = o.row.id => n = o
    BY DEF WritesStayValid, Merged, Outcome
  <2>1. \A n \in merged[x] :
            /\ lock[n.row.id] = x /\ n.row.id \in Ids
            /\ n.outcome = Outcome(n.row, students[n.row.id])
            /\ \A o \in merged[x] : n.row.id = o.row.id => n = o
    BY DEF Consistent, WritesStayValid, Merged, TypeOK, Rows
  <2>2. CASE x = w
    BY <1>1, <2>2
  <2>3. CASE x # w
    <3>1. \A n \in merged[x] : n.row.id \notin Merged(w)
      BY <2>1, <2>3 DEF Consistent, WritesStayValid
    <3> QED
      BY <1>1, <2>1, <2>3, <3>1
  <2> QED
    BY <2>2, <2>3
<1> QED
  BY <1>2, <1>3 DEF Consistent

\* What a COMMIT does to row i, if the transaction has merged a row of student i.
LEMMA PublishRow ==
    ASSUME Consistent, NEW w \in Writers, Publish(w), NEW i \in Ids
    PROVE  /\ i \notin Merged(w) => students'[i] = students[i]
           /\ \A m \in merged[w] : m.row.id = i =>
                  /\ m.row \in Staging(w) /\ m.row \in Rows
                  /\ m.outcome = Outcome(m.row, students[i])
                  /\ students'[i] = IF m.outcome = "refused" THEN students[i] ELSE m.row
<1>1. students'[i] = IF \E r \in Written(w) : r.id = i
                     THEN CHOOSE r \in Written(w) : r.id = i
                     ELSE students[i]
  BY DEF Publish
<1>2. i \notin Merged(w) => students'[i] = students[i]
  BY <1>1 DEF Merged, Written
<1>3. ASSUME NEW m \in merged[w], m.row.id = i
      PROVE  /\ m.row \in Staging(w) /\ m.row \in Rows
             /\ m.outcome = Outcome(m.row, students[i])
             /\ students'[i] = IF m.outcome = "refused" THEN students[i] ELSE m.row
  <2>1. /\ m.row \in Staging(w) /\ m.row \in Rows
        /\ m.outcome = Outcome(m.row, students[i])
        /\ \A n \in merged[w] : n.row.id = i => n = m
    BY <1>3 DEF Consistent, MergesStaged, WritesStayValid, TypeOK
  <2>2. CASE m.outcome = "refused"
    <3>1. ~ \E r \in Written(w) : r.id = i
      BY <2>1, <2>2 DEF Written
    <3> QED
      BY <1>1, <2>1, <2>2, <3>1
  <2>3. CASE m.outcome # "refused"
    <3>1. m.row \in Written(w) /\ \A r \in Written(w) : r.id = i => r = m.row
      BY <2>1, <2>3 DEF Written
    <3> QED
      BY <1>1, <1>3, <2>1, <2>3, <3>1
  <2> QED
    BY <2>2, <2>3
<1> QED
  BY <1>2, <1>3

\* It keeps the types and the consistency.
LEMMA PublishType ==
    ASSUME Consistent, NEW w \in Writers, Publish(w)
    PROVE  /\ students' \in [Ids -> Rows \cup {NoRow}]
           /\ lock' \in [Ids -> Writers \cup {Free}]
           /\ merged' \in [Writers -> SUBSET [row : Rows, outcome : Outcomes]]
           /\ submitted' \subseteq Rows
           /\ first' \in [Ids -> Writers \cup {Free}]
           /\ chunks' \in [Writers -> Seq(Seq(Rows))]
<1>1. TypeOK /\ Busy(w)
  BY DEF Consistent, Publish
<1>2. \A i \in Ids : students'[i] \in Rows \cup {NoRow}
  <2> SUFFICES ASSUME NEW i \in Ids
               PROVE  students'[i] \in Rows \cup {NoRow}
    OBVIOUS
  <2>1. students[i] \in Rows \cup {NoRow}
    BY <1>1 DEF TypeOK
  <2>2. CASE i \in Merged(w)
    BY <2>1, <2>2, PublishRow DEF Merged
  <2> QED
    BY <2>1, <2>2, PublishRow
<1>3. students' \in [Ids -> Rows \cup {NoRow}]
  BY <1>2 DEF Publish
<1>4. {Chunk(w)[k] : k \in Candidates(Chunk(w))} \subseteq Rows
  BY <1>1, ChunkType DEF Candidates
<1> QED
  BY <1>1, <1>3, <1>4 DEF Publish, Release, TypeOK

LEMMA CommitConsistent ==
    ASSUME Consistent, NEW w \in Writers, Commit(w)
    PROVE  Consistent'
<1>1. Publish(w) /\ TypeOK
  BY DEF Commit, Consistent
<1>2. IsFiniteSet({m \in merged[w] : m.outcome = "inserted"})
  BY FS_Subset DEF Consistent, MergesStaged
<1>3. inserted' \in [Writers -> Nat]
  BY <1>1, <1>2, FS_CardinalityType DEF Commit, TypeOK
<1>4. TypeOK'
  BY <1>1, <1>3, PublishType, AttemptsAssumption DEF Commit, TypeOK
<1>5. \A x \in Writers \ {w} : at'[x] = at[x] /\ ended'[x] = ended[x]
  BY <1>1 DEF Commit, TypeOK
<1>6. \A i \in Ids : i \notin Merged(w) => students'[i] = students[i]
  BY <1>1, PublishRow
<1> QED
  BY <1>1, <1>4, <1>5, <1>6, ReleaseConsistent DEF Publish

LEMMA CommitUnheardConsistent ==
    ASSUME Consistent, NEW w \in Writers, CommitUnheard(w)
    PROVE  Consistent'
<1>1. Publish(w) /\ TypeOK
  BY DEF CommitUnheard, Consistent
<1>2. TypeOK'
  BY <1>1, PublishType DEF CommitUnheard, Abandon, TypeOK, Ends
<1>3. \A x \in Writers \ {w} : at'[x] = at[x] /\ ended'[x] = ended[x]
  BY <1>1 DEF CommitUnheard, Abandon, TypeOK
<1>4. \A i \in Ids : i \notin Merged(w) => students'[i] = students[i]
  BY <1>1, PublishRow
<1> QED
  BY <1>1, <1>2, <1>3, <1>4, ReleaseConsistent DEF Publish

LEMMA RollbackConsistent ==
    ASSUME Consistent, NEW w \in Writers, Rollback(w)
    PROVE  Consistent'
<1>1. TypeOK
  BY DEF Consistent
<1>2. attempt[w] + 1 \in 1 .. MaxAttempts
  BY <1>1, AttemptsAssumption DEF Rollback, TypeOK
<1>3. TypeOK'
  BY <1>1, <1>2 DEF Rollback, Release, TypeOK, history
<1> QED
  BY <1>3, ReleaseConsistent DEF Rollback

LEMMA GiveUpConsistent ==
    ASSUME Consistent, NEW w \in Writers, GiveUp(w)
    PROVE  Consistent'
<1>1. TypeOK
  BY DEF Consistent
<1>2. TypeOK'
  BY <1>1 DEF GiveUp, Abandon, Release, TypeOK, Ends, history
<1>3. \A x \in Writers \ {w} : at'[x] = at[x] /\ ended'[x] = ended[x]
  BY <1>1 DEF GiveUp, Abandon, TypeOK
<1> QED
  BY <1>2, <1>3, ReleaseConsistent DEF GiveUp

LEMMA ConsistentStep == Consistent /\ [Next]_vars => Consistent'
<1> SUFFICES ASSUME Consistent, [Next]_vars
             PROVE  Consistent'
  OBVIOUS
<1>1. CASE UNCHANGED vars
  <2>1. TypeOK'
    BY <1>1 DEF vars, history, Consistent, TypeOK
  <2>2. MergesStaged'
    BY <1>1 DEF vars, Consistent, MergesStaged, Staging, Busy, Chunk
  <2>3. WritesStayValid'
    BY <1>1 DEF vars, Consistent, WritesStayValid, Merged, Outcome
  <2> QED
    BY <2>1, <2>2, <2>3 DEF Consistent
<1>2. CASE Next
  BY <1>2, MergeRowConsistent, CommitConsistent, CommitUnheardConsistent,
     RollbackConsistent, GiveUpConsistent DEF Next, Step, Fault
<1> QED
  BY <1>1, <1>2

\* The invariant the other theorems rest on.
THEOREM ConsistentAlways == Spec => []Consistent
  BY ConsistentInit, ConsistentStep, PTL DEF Spec

\* The types.
THEOREM TypeCorrect == Spec => []TypeOK
<1>1. Consistent => TypeOK
  BY DEF Consistent
<1> QED
  BY <1>1, ConsistentAlways, PTL

\* What a transaction has written is still right when it commits.
THEOREM WritesAreValid == Spec => []WritesStayValid
<1>1. Consistent => WritesStayValid
  BY DEF Consistent
<1> QED
  BY <1>1, ConsistentAlways, PTL

\* Every chunk is split as the reference says.
THEOREM ChunksAreSplitRight == Spec => []ChunksSplitRight
<1>1. Consistent => ChunksSplitRight
  BY ChunkType, RowsAreRows, ValidateSplitsRight DEF Consistent, ChunksSplitRight
<1> QED
  BY <1>1, ConsistentAlways, PTL

-----------------------------------------------------------------------------
(* The freshest row of each student is kept. *)

\* Only a COMMIT changes the table, and the history of what was submitted.
LEMMA OnlyPublishWrites ==
    ASSUME Next
    PROVE  \/ \E w \in Writers : Publish(w)
           \/ UNCHANGED <<chunks, students, submitted>>
  BY DEF history, Next, Step, Fault, MergeRow, Commit, CommitUnheard, Rollback, GiveUp

\* A COMMIT has merged the freshest row of each student in its chunk.
LEMMA PublishMerged ==
    ASSUME Consistent, NEW w \in Writers, Publish(w)
    PROVE  \A r \in {Chunk(w)[k] : k \in Candidates(Chunk(w))} :
               \E m \in merged[w] : m.row.id = r.id /\ r.at <= m.row.at
<1>1. TypeOK /\ Busy(w) /\ Left(w) = {}
  BY DEF Consistent, Publish
<1> SUFFICES ASSUME NEW k \in Candidates(Chunk(w))
             PROVE  \E m \in merged[w] : m.row.id = Chunk(w)[k].id
                                       /\ Chunk(w)[k].at <= m.row.at
  OBVIOUS
<1>2. PICK s \in Staging(w) : s.id = Chunk(w)[k].id /\ s.at >= Chunk(w)[k].at
  BY <1>1, StagingFreshest
<1>3. s.id \in Merged(w)
  BY <1>1 DEF Left
<1>4. PICK m \in merged[w] : m.row.id = s.id
  BY <1>3 DEF Merged
<1>5. m.row = s
  BY <1>1, <1>4, StagingFreshest DEF Consistent, MergesStaged
<1>6. s \in Rows /\ Chunk(w)[k] \in Rows
  BY <1>1, StagingType, ChunkType DEF Candidates
<1>7. s.at \in Int /\ Chunk(w)[k].at \in Int
  BY <1>6, RowsAreRows DEF IsRowSet
<1> QED
  BY <1>2, <1>4, <1>5, <1>7

LEMMA PublishKeepsFreshest ==
    ASSUME Consistent, FreshestKept, NEW w \in Writers, Publish(w)
    PROVE  FreshestKept'
<1> DEFINE new == {Chunk(w)[k] : k \in Candidates(Chunk(w))}
<1>1. TypeOK /\ Busy(w) /\ submitted' = submitted \cup new
  BY DEF Consistent, Publish
<1>2. new \subseteq Rows /\ submitted \subseteq Rows
  BY <1>1, ChunkType DEF Candidates, TypeOK
<1>3. \A r \in Rows : r.at \in Int
  BY RowsAreRows DEF IsRowSet
<1> SUFFICES ASSUME NEW i \in Ids
             PROVE  IF students'[i] = NoRow THEN \A r \in submitted \cup new : r.id # i
                    ELSE /\ students'[i] \in submitted \cup new
                         /\ students'[i].id = i
                         /\ \A r \in submitted \cup new : r.id = i => r.at <= students'[i].at
  BY <1>1 DEF FreshestKept, OfId
<1>4. IF students[i] = NoRow THEN \A r \in submitted : r.id # i
      ELSE /\ students[i] \in submitted /\ students[i].id = i
           /\ \A r \in submitted : r.id = i => r.at <= students[i].at
  BY DEF FreshestKept, OfId
<1>5. CASE i \notin Merged(w)
  <2>1. \A r \in new : r.id # i
    BY <1>5, PublishMerged DEF Merged
  <2>2. students'[i] = students[i]
    BY <1>5, PublishRow
  <2> QED
    BY <1>4, <2>1, <2>2
<1>6. ASSUME NEW m \in merged[w], m.row.id = i
      PROVE  /\ students'[i] # NoRow
             /\ students'[i] \in submitted \cup new
             /\ students'[i].id = i
             /\ \A r \in submitted \cup new : r.id = i => r.at <= students'[i].at
  <2>1. /\ m.row \in Staging(w) /\ m.row \in Rows
        /\ m.outcome = Outcome(m.row, students[i])
        /\ students'[i] = IF m.outcome = "refused" THEN students[i] ELSE m.row
    BY <1>6, PublishRow
  <2>2. m.row \in new /\ m.row # NoRow
    BY <1>1, <2>1, StagingFreshest, NoRowAssumption
  <2>3. \A r \in new : r.id = i => r.at <= m.row.at
    <3>1. \A n \in merged[w] : n.row.id = i => n = m
      BY <1>6 DEF Consistent, WritesStayValid
    <3> QED
      BY <3>1, PublishMerged
  <2>4. CASE students[i] = NoRow
    BY <1>4, <1>6, <2>1, <2>2, <2>3, <2>4 DEF Outcome
  <2>5. CASE students[i] # NoRow /\ m.row.at > students[i].at
    <3>1. students'[i] = m.row
      BY <2>1, <2>5 DEF Outcome
    <3>2. \A r \in submitted : r.id = i => r.at <= m.row.at
      BY <1>2, <1>3, <1>4, <2>1, <2>5
    <3> QED
      BY <1>6, <2>2, <2>3, <3>1, <3>2
  <2>6. CASE students[i] # NoRow /\ ~ (m.row.at > students[i].at)
    <3>1. students'[i] = students[i]
      BY <2>1, <2>6 DEF Outcome
    <3>2. \A r \in new : r.id = i => r.at <= students[i].at
      BY <1>2, <1>3, <1>4, <2>1, <2>3, <2>6
    <3> QED
      BY <1>4, <2>6, <3>1, <3>2
  <2> QED
    BY <2>4, <2>5, <2>6
<1> QED
  BY <1>5, <1>6 DEF Merged

\* Older data never overwrites newer data.
THEOREM FreshestIsKept == Spec => []FreshestKept
<1>1. Init => FreshestKept
  BY DEF Init, FreshestKept, OfId
<1>2. Consistent /\ FreshestKept /\ [Next]_vars => FreshestKept'
  <2> SUFFICES ASSUME Consistent, FreshestKept, [Next]_vars
               PROVE  FreshestKept'
    OBVIOUS
  <2>1. CASE UNCHANGED <<chunks, students, submitted>>
    BY <2>1 DEF FreshestKept, OfId
  <2>2. ASSUME NEW w \in Writers, Publish(w)
        PROVE  FreshestKept'
    BY <2>2, PublishKeepsFreshest
  <2> QED
    BY <2>1, <2>2, OnlyPublishWrites DEF vars, history
<1> QED
  BY <1>1, <1>2, ConsistentAlways, PTL DEF Spec

\* A row is replaced by a fresher one only.
THEOREM RowsMoveForward == Spec => RepeatChangesNothing
<1>1. Consistent /\ [Next]_vars => [RowsOnlyMoveForward]_vars
  <2> SUFFICES ASSUME Consistent, Next
               PROVE  RowsOnlyMoveForward
    OBVIOUS
  <2>1. CASE UNCHANGED students
    BY <2>1 DEF RowsOnlyMoveForward
  <2>2. ASSUME NEW w \in Writers, Publish(w)
        PROVE  RowsOnlyMoveForward
    BY <2>2, PublishRow DEF RowsOnlyMoveForward, Outcome, Merged
  <2> QED
    BY <2>1, <2>2, OnlyPublishWrites
<1> QED
  BY <1>1, ConsistentAlways, PTL DEF Spec, RepeatChangesNothing

-----------------------------------------------------------------------------
(* Refinement: StudentStore implements StudentTable. *)

LEMMA SameLatest == ASSUME NEW chunk PROVE Table!Latest(chunk) = Latest(chunk)
  BY DEF Table!Latest, Table!Candidates, Table!Better, Latest, Candidates, Better

\* A COMMIT applies the whole chunk.
LEMMA PublishSubmits ==
    ASSUME Consistent, NEW w \in Writers, Publish(w)
    PROVE  Table!Submit(Chunk(w))
<1> DEFINE chunk == Chunk(w)
           staged(i) == {r \in Staging(w) : r.id = i}
<1>1. TypeOK /\ Busy(w) /\ Left(w) = {}
  BY DEF Consistent, Publish
<1>2. \A i \in Ids : Table!RowsFor(chunk, i) = staged(i)
  <2>1. Staging(w) = {chunk[k] : k \in Latest(chunk)}
    BY <1>1, StagingLatest
  <2> QED
    BY <2>1, SameLatest DEF Table!RowsFor
<1>3. ASSUME NEW i \in Ids
      PROVE  students'[i] =
                 IF \E r \in Table!RowsFor(chunk, i) :
                        students[i] = NoRow \/ r.at > students[i].at
                 THEN CHOOSE r \in Table!RowsFor(chunk, i) : TRUE
                 ELSE students[i]
  <2>1. CASE i \notin Merged(w)
    <3>1. staged(i) = {}
      BY <1>1, <2>1 DEF Left
    <3> QED
      BY <1>2, <2>1, <3>1, PublishRow
  <2>2. ASSUME NEW m \in merged[w], m.row.id = i
        PROVE  students'[i] =
                   IF \E r \in Table!RowsFor(chunk, i) :
                          students[i] = NoRow \/ r.at > students[i].at
                   THEN CHOOSE r \in Table!RowsFor(chunk, i) : TRUE
                   ELSE students[i]
    <3>1. /\ m.row \in Staging(w)
          /\ m.outcome = Outcome(m.row, students[i])
          /\ students'[i] = IF m.outcome = "refused" THEN students[i] ELSE m.row
      BY <2>2, PublishRow
    <3>2. staged(i) = {m.row}
      BY <1>1, <2>2, <3>1, StagingFreshest
    <3>3. (CHOOSE r \in {m.row} : TRUE) = m.row
      OBVIOUS
    <3>4. students'[i] = IF students[i] = NoRow \/ m.row.at > students[i].at
                         THEN m.row ELSE students[i]
      BY <3>1 DEF Outcome
    <3> QED
      BY <1>2, <3>2, <3>3, <3>4
  <2> QED
    BY <2>1, <2>2 DEF Merged
<1>4. students' = [i \in Ids |-> students'[i]]
  BY DEF Publish
<1> QED
  BY <1>3, <1>4 DEF Table!Submit, Table!Upserted

\* Merging row by row has the effect of applying each committed chunk at once.
THEOREM MergesImplementTable == Spec => MergesAreAtomic
<1>1. Init => Table!Init
  BY DEF Init, Table!Init
<1>2. Consistent /\ [Next]_vars => [Table!Next]_<<chunks, students>>
  <2> SUFFICES ASSUME Consistent, [Next]_vars
               PROVE  [Table!Next]_<<chunks, students>>
    OBVIOUS
  <2>1. ASSUME NEW w \in Writers, Publish(w)
        PROVE  Table!Next
    <3>1. at[w] \in DOMAIN chunks[w] /\ Chunk(w) = chunks[w][at[w]]
      BY <2>1, ChunkType DEF Consistent, Publish, Chunk
    <3>2. Table!Submit(chunks[w][at[w]])
      BY <2>1, <3>1, PublishSubmits
    <3> QED
      BY <2>1, <3>1, <3>2 DEF Table!Next, Publish
  <2> QED
    BY <2>1, OnlyPublishWrites DEF vars, history
<1> QED
  BY <1>1, <1>2, ConsistentAlways, PTL DEF Spec, MergesAreAtomic, Table!Spec

-----------------------------------------------------------------------------
(* The counters. *)

\* Whoever stored a student first is known once there is a row.
StoredByFirst == \A i \in Ids : students[i] = NoRow <=> first[i] = Free

FirstOf(w) == {i \in Ids : first[i] = w}

\* A COMMIT stores as many new students as its transaction has inserted, and takes
\* no student from another writer.
LEMMA PublishStores ==
    ASSUME Consistent, StoredByFirst, NEW w \in Writers, Publish(w)
    PROVE  LET new == {m \in merged[w] : m.outcome = "inserted"}
           IN  /\ Cardinality(new) \in Nat
               /\ Cardinality(FirstOf(w)) \in Nat
               /\ Cardinality(FirstOf(w)') = Cardinality(FirstOf(w)) + Cardinality(new)
               /\ \A x \in Writers \ {w} : FirstOf(x)' = FirstOf(x)
               /\ StoredByFirst'
<1> DEFINE new == {m \in merged[w] : m.outcome = "inserted"}
           ids == {m.row.id : m \in new}
           f   == [m \in new |-> m.row.id]
<1>1. IsFiniteSet(new) /\ Cardinality(new) \in Nat
  BY FS_Subset, FS_CardinalityType DEF Consistent, MergesStaged
<1>2. \A m, n \in new : m.row.id = n.row.id => m = n
  BY DEF Consistent, WritesStayValid
<1>3. f \in Bijection(new, ids)
  BY <1>2 DEF Bijection, Injection, Surjection, IsInjective
<1>4. IsFiniteSet(ids) /\ Cardinality(ids) = Cardinality(new)
  BY <1>1, <1>3, FS_Bijection DEF ExistsBijection
<1>5. \A m \in merged[w] : m.row.id \in Ids /\ m.row # NoRow
  BY NoRowAssumption DEF Consistent, TypeOK, Rows
<1>6. \A m \in merged[w] :
          /\ m.outcome = "inserted" <=> students[m.row.id] = NoRow
          /\ students'[m.row.id] # NoRow
  BY <1>5, PublishRow DEF Outcome
<1>7. \A i \in Ids : /\ students'[i] # NoRow <=> students[i] # NoRow \/ i \in ids
                     /\ i \in ids => students[i] = NoRow
  <2> SUFFICES ASSUME NEW i \in Ids
               PROVE  /\ students'[i] # NoRow <=> students[i] # NoRow \/ i \in ids
                      /\ i \in ids => students[i] = NoRow
    OBVIOUS
  <2>1. CASE i \notin Merged(w)
    BY <2>1, PublishRow DEF Merged
  <2>2. CASE i \in Merged(w)
    BY <1>6, <2>2 DEF Merged
  <2> QED
    BY <2>1, <2>2
<1>8. \A i \in Ids : first'[i] = IF i \in ids THEN w ELSE first[i]
  BY <1>7 DEF Publish
<1>9. ids \subseteq Ids
  BY <1>5
<1> HIDE DEF ids
<1>10. FirstOf(w)' = FirstOf(w) \cup ids /\ FirstOf(w) \cap ids = {}
  BY <1>7, <1>8, <1>9, FreeAssumption DEF FirstOf, StoredByFirst
<1>11. \A x \in Writers \ {w} : FirstOf(x)' = FirstOf(x)
  BY <1>7, <1>8, FreeAssumption DEF FirstOf, StoredByFirst
<1>12. StoredByFirst'
  BY <1>7, <1>8, FreeAssumption DEF StoredByFirst
<1>13. IsFiniteSet(FirstOf(w)) /\ Cardinality(FirstOf(w)) \in Nat
  BY IdsAssumption, FS_Subset, FS_CardinalityType DEF FirstOf
<1>14. Cardinality(FirstOf(w) \cup ids) = Cardinality(FirstOf(w)) + Cardinality(ids)
  <2>1. Cardinality(FirstOf(w) \cup ids)
          = Cardinality(FirstOf(w)) + Cardinality(ids) - Cardinality(FirstOf(w) \cap ids)
    BY <1>4, <1>13, FS_Union
  <2>2. Cardinality(FirstOf(w) \cap ids) = 0
    BY <1>10, FS_EmptySet
  <2> QED
    BY <1>1, <1>4, <1>13, <2>1, <2>2
<1> QED
  BY <1>1, <1>4, <1>10, <1>11, <1>12, <1>13, <1>14

\* A run that goes through reports the students it was the first to store, and one
\* that fails reports none.
THEOREM InsertsAreCounted == Spec => []InsertsCounted
<1> DEFINE Counted == StoredByFirst /\ InsertsCounted
<1>1. Init => Counted
  <2> SUFFICES ASSUME Init
               PROVE  StoredByFirst /\ InsertsCounted
    OBVIOUS
  <2>1. ASSUME NEW w \in Writers
        PROVE  inserted[w] = 0 /\ ended[w] = "no" /\ {i \in Ids : first[i] = w} = {}
    BY FreeAssumption DEF Init
  <2> QED
    BY <2>1, FS_EmptySet DEF Init, StoredByFirst, InsertsCounted
<1>2. Consistent /\ Counted /\ [Next]_vars => Counted'
  <2> SUFFICES ASSUME Consistent, StoredByFirst, InsertsCounted, [Next]_vars
               PROVE  StoredByFirst' /\ InsertsCounted'
    OBVIOUS
  <2>1. TypeOK
    BY DEF Consistent
  <2>2. \A x \in Writers :
            inserted[x] = IF ended[x] = "no" THEN Cardinality(FirstOf(x)) ELSE 0
    BY DEF InsertsCounted, FirstOf
  <2>3. ASSUME \A x \in Writers :
                   inserted'[x] = IF ended'[x] = "no" THEN Cardinality(FirstOf(x)') ELSE 0
        PROVE  InsertsCounted'
    BY <2>3 DEF InsertsCounted, FirstOf
  <2>4. ASSUME UNCHANGED <<students, first, inserted, ended>>
        PROVE  StoredByFirst' /\ InsertsCounted'
    BY <2>4 DEF StoredByFirst, InsertsCounted
  <2>5. ASSUME NEW w \in Writers, MergeRow(w) \/ Rollback(w)
        PROVE  UNCHANGED <<students, first, inserted, ended>>
    BY <2>5 DEF MergeRow, Rollback, history
  <2>6. ASSUME NEW w \in Writers, Commit(w)
        PROVE  StoredByFirst' /\ InsertsCounted'
    <3> DEFINE new == {m \in merged[w] : m.outcome = "inserted"}
    <3>1. Publish(w) /\ ended[w] = "no" /\ ended' = ended
      BY <2>6 DEF Commit, Publish, Busy
    <3>2. /\ Cardinality(FirstOf(w)') = Cardinality(FirstOf(w)) + Cardinality(new)
          /\ \A x \in Writers \ {w} : FirstOf(x)' = FirstOf(x)
          /\ StoredByFirst'
      BY <3>1, PublishStores
    <3>3. /\ inserted'[w] = inserted[w] + Cardinality(new)
          /\ \A x \in Writers \ {w} : inserted'[x] = inserted[x]
      BY <2>1, <2>6 DEF Commit, TypeOK
    <3> HIDE DEF new
    <3> QED
      BY <2>2, <2>3, <3>1, <3>2, <3>3
  <2>7. ASSUME NEW w \in Writers, Abandon(w, ended'[w]), ended'[w] # "no",
               \A x \in Writers \ {w} : FirstOf(x)' = FirstOf(x)
        PROVE  InsertsCounted'
    <3>1. inserted'[w] = 0 /\ \A x \in Writers \ {w} : inserted'[x] = inserted[x]
                                                    /\ ended'[x] = ended[x]
      BY <2>1, <2>7 DEF Abandon, TypeOK
    <3> QED
      BY <2>2, <2>3, <2>7, <3>1
  <2>8. ASSUME NEW w \in Writers, CommitUnheard(w)
        PROVE  StoredByFirst' /\ InsertsCounted'
    <3>1. Publish(w) /\ ended'[w] = "cutOff" /\ Abandon(w, ended'[w])
      BY <2>1, <2>8 DEF CommitUnheard, Abandon, TypeOK
    <3>2. StoredByFirst' /\ \A x \in Writers \ {w} : FirstOf(x)' = FirstOf(x)
      BY <3>1, PublishStores
    <3> QED
      BY <2>7, <3>1, <3>2
  <2>9. ASSUME NEW w \in Writers, GiveUp(w)
        PROVE  StoredByFirst' /\ InsertsCounted'
    <3>1. /\ UNCHANGED <<students, first>>
          /\ ended'[w] = "gaveUp" /\ Abandon(w, ended'[w])
      BY <2>1, <2>9 DEF GiveUp, Abandon, TypeOK, history
    <3>2. StoredByFirst' /\ \A x \in Writers : FirstOf(x)' = FirstOf(x)
      BY <3>1 DEF StoredByFirst, FirstOf
    <3> QED
      BY <2>7, <3>1, <3>2
  <2>10. CASE UNCHANGED vars
    BY <2>4, <2>10 DEF vars, history
  <2> QED
    BY <2>4, <2>5, <2>6, <2>8, <2>9, <2>10 DEF Next, Step, Fault
<1> QED
  BY <1>1, <1>2, ConsistentAlways, PTL DEF Spec

-----------------------------------------------------------------------------
(* Merges do not deadlock. *)

\* A transaction holds the locks of the rows it has merged only, and those come
\* before all it has still to lock.
LocksOrdered ==
    \A w \in Writers :
        /\ \A i \in Ids : lock[i] = w => i \in Merged(w)
        /\ \A i \in Merged(w), j \in Left(w) : i < j

\* A merge takes the least of the rows that are left.
LEMMA MergeRowOrdered ==
    ASSUME Consistent, LocksOrdered, NEW w \in Writers, MergeRow(w)
    PROVE  LocksOrdered'
<1>0. PICK i \in Ids :
        /\ NextRow(w, i)
        /\ lock' = [lock EXCEPT ![i] = w]
        /\ \E r \in Freshest(w, i) :
             merged' = [merged EXCEPT ![w] = @ \cup
                 {[row |-> r, outcome |-> Outcome(r, students[i])]}]
        /\ UNCHANGED <<chunks, students, at, attempt, ended, inserted, history>>
  BY DEF MergeRow
<1>1. PICK r \in Freshest(w, i) :
        merged' = [merged EXCEPT ![w] = @ \cup
            {[row |-> r, outcome |-> Outcome(r, students[i])]}]
  BY <1>0
<1>2. \A x \in Writers : Staging(x)' = Staging(x)
  BY <1>0 DEF Staging, Busy, Chunk
<1>3. /\ Merged(w)' = Merged(w) \cup {i}
      /\ \A x \in Writers \ {w} : Merged(x)' = Merged(x)
  <2> DEFINE m == [row |-> r, outcome |-> Outcome(r, students[i])]
  <2>1. m.row.id = i
    BY DEF Freshest
  <2>2. /\ merged'[w] = merged[w] \cup {m}
        /\ \A x \in Writers \ {w} : merged'[x] = merged[x]
    BY <1>1 DEF Consistent, TypeOK
  <2> HIDE DEF m
  <2> QED
    BY <2>1, <2>2 DEF Merged
<1>4. /\ Left(w)' = Left(w) \ {i}
      /\ \A x \in Writers \ {w} : Left(x)' = Left(x)
  BY <1>2, <1>3 DEF Left
<1>5. Left(w) \subseteq Nat /\ i \in Nat
  <2>1. Left(w) \subseteq Ids
    BY StagingType DEF Left, Rows, Consistent
  <2> QED
    BY <2>1, IdsAssumption
<1>6. \A j \in Left(w)' : i < j
  BY <1>0, <1>4, <1>5 DEF NextRow
<1> SUFFICES ASSUME NEW x \in Writers
             PROVE  /\ \A k \in Ids : lock'[k] = x => k \in Merged(x)'
                    /\ \A k \in Merged(x)', j \in Left(x)' : k < j
  BY DEF LocksOrdered
<1>7. \A k \in Ids : lock'[k] = IF k = i THEN w ELSE lock[k]
  BY <1>0 DEF Consistent, TypeOK
<1>8. CASE x = w
  BY <1>3, <1>4, <1>6, <1>7, <1>8 DEF LocksOrdered
<1>9. CASE x # w
  BY <1>3, <1>4, <1>7, <1>9 DEF LocksOrdered
<1> QED
  BY <1>8, <1>9

\* The end of a transaction frees its locks and no others.
LEMMA ReleaseOrdered ==
    ASSUME Consistent, LocksOrdered, NEW w \in Writers, Release(w), UNCHANGED chunks,
           \A x \in Writers \ {w} : at'[x] = at[x] /\ ended'[x] = ended[x]
    PROVE  LocksOrdered'
<1>1. /\ merged'[w] = {}
      /\ \A x \in Writers \ {w} : merged'[x] = merged[x]
      /\ \A i \in Ids : lock'[i] = IF lock[i] = w THEN Free ELSE lock[i]
  BY DEF Release, Consistent, TypeOK
<1>2. /\ Merged(w)' = {}
      /\ \A x \in Writers \ {w} : Merged(x)' = Merged(x)
  BY <1>1 DEF Merged
<1>3. \A x \in Writers \ {w} : Left(x)' = Left(x)
  <2>1. \A x \in Writers \ {w} : Staging(x)' = Staging(x)
    BY DEF Staging, Busy, Chunk
  <2> QED
    BY <1>2, <2>1 DEF Left
<1> SUFFICES ASSUME NEW x \in Writers
             PROVE  /\ \A i \in Ids : lock'[i] = x => i \in Merged(x)'
                    /\ \A i \in Merged(x)', j \in Left(x)' : i < j
  BY DEF LocksOrdered
<1>4. CASE x = w
  BY <1>1, <1>2, <1>4, FreeAssumption
<1>5. CASE x # w
  BY <1>1, <1>2, <1>3, <1>5, FreeAssumption DEF LocksOrdered
<1> QED
  BY <1>4, <1>5

LEMMA LocksOrderedStep == Consistent /\ LocksOrdered /\ [Next]_vars => LocksOrdered'
<1> SUFFICES ASSUME Consistent, LocksOrdered, [Next]_vars
             PROVE  LocksOrdered'
  OBVIOUS
<1>1. ASSUME NEW w \in Writers, Commit(w) \/ CommitUnheard(w) \/ Rollback(w) \/ GiveUp(w)
      PROVE  LocksOrdered'
  <2>1. Release(w) /\ UNCHANGED chunks
    BY <1>1 DEF Commit, CommitUnheard, Rollback, GiveUp, Publish
  <2>2. \A x \in Writers \ {w} : at'[x] = at[x] /\ ended'[x] = ended[x]
    BY <1>1 DEF Commit, CommitUnheard, Rollback, GiveUp, Abandon, Consistent, TypeOK
  <2> QED
    BY <2>1, <2>2, ReleaseOrdered
<1>2. CASE UNCHANGED vars
  BY <1>2 DEF vars, LocksOrdered, Merged, Left, Staging, Busy, Chunk
<1> QED
  BY <1>1, <1>2, MergeRowOrdered DEF Next, Step, Fault

\* In a set of transactions that all wait for each other, the one that holds the
\* greatest row anyone waits for would wait for a greater one.
LEMMA OrderedHasNoCircle == Consistent /\ LocksOrdered => NoCircle
<1> SUFFICES ASSUME Consistent, LocksOrdered,
                    NEW S \in (SUBSET Writers) \ {{}},
                    \A w \in S : \E x \in S : WaitsFor(w, x)
             PROVE  FALSE
  BY DEF NoCircle
<1> DEFINE Wanted == {i \in Ids : \E w, x \in S : NextRow(w, i) /\ lock[i] = x}
<1>1. Wanted \in SUBSET Nat /\ IsFiniteSet(Wanted) /\ Wanted # {}
  <2>1. Wanted # {}
    BY DEF WaitsFor
  <2>2. Wanted \subseteq Ids
    OBVIOUS
  <2> HIDE DEF Wanted
  <2> QED
    BY <2>1, <2>2, IdsAssumption, FS_Subset
<1>2. PICK i \in Wanted : \A j \in Wanted : i >= j
  <2> HIDE DEF Wanted
  <2> QED
    BY <1>1, GreatestNumber
<1>3. PICK x \in S : lock[i] = x
  BY <1>2
<1>4. PICK j \in Ids : NextRow(x, j) /\ \E y \in S : lock[j] = y
  BY <1>3 DEF WaitsFor
<1>5. j \in Wanted
  BY <1>3, <1>4
<1>6. i < j
  BY <1>2, <1>3, <1>4 DEF LocksOrdered, NextRow
<1>7. i \in Nat /\ j \in Nat
  BY <1>1, <1>2, <1>5
<1> QED
  BY <1>2, <1>5, <1>6, <1>7

\* No set of merges waits for itself in a circle.
THEOREM NoMergeDeadlock == Spec => []NoCircle
<1>1. Init => LocksOrdered
  BY FreeAssumption DEF Init, LocksOrdered, Merged
<1> QED
  BY <1>1, LocksOrderedStep, OrderedHasNoCircle, ConsistentAlways, PTL DEF Spec
=============================================================================
