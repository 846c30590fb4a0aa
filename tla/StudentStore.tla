---------------------------- MODULE StudentStore ----------------------------
(***************************************************************************)
(* The students table under concurrent chunk merges: validate_chunk,       *)
(* Database.in_transaction, Retryer.call and upsert_students, as the CSV   *)
(* job and the API job run them at the same time against one PostgreSQL    *)
(* database.                                                               *)
(*                                                                         *)
(* A merge locks one student row after another until its transaction ends. *)
(* A row that conflicts is compared as it is once the lock is granted      *)
(* (READ COMMITTED), and stays locked when the comparison refuses it.      *)
(***************************************************************************)
EXTENDS Validate, FiniteSets

CONSTANTS
    Writers,      \* runs that merge chunks: a run that resumes another's unit of
                  \* work is a writer of its own, with a RunSummary of its own
    Ids,          \* student ids, as naturals: ORDER BY student_id
    Times,        \* updated_at values
    Inputs,       \* the chunks the writers may have to submit
    MaxAttempts,  \* RETRY_MAX_ATTEMPTS
    NoRow,        \* no row with this id
    Free          \* nobody has locked, or stored, this row

\* A source row: whose it is, how fresh, whether it is valid, and the source
\* and place it came from, so that ties can be told apart.
Rows     == [id : Ids, at : Times, ok : BOOLEAN, from : Writers, no : Nat]
Outcomes == {"inserted", "updated", "refused"}
Ends     == {"no", "gaveUp", "cutOff"}

ASSUME IdsAssumption      == Ids \subseteq Nat /\ IsFiniteSet(Ids)
ASSUME TimesAssumption    == Times \subseteq Nat
ASSUME InputsAssumption   == Inputs \subseteq [Writers -> Seq(Seq(Rows))]
ASSUME AttemptsAssumption == MaxAttempts \in Nat \ {0}
ASSUME NoRowAssumption    == NoRow \notin Rows
ASSUME FreeAssumption     == Free \notin Writers

VARIABLES
    chunks,    \* [Writers -> the chunks it has to submit, in order]
    students,  \* [Ids -> committed row or NoRow]
    lock,      \* [Ids -> the writer whose transaction has locked the row]
    at,        \* [Writers -> index of the chunk being submitted]
    attempt,   \* [Writers -> number of the attempt in Retryer.call, from 1]
    merged,    \* [Writers -> rows its open transaction has merged, and how]
    ended,     \* [Writers -> how its unit of work ended early, if it did]
    inserted,  \* [Writers -> RunSummary.inserted of its unit of work]
    first,     \* history: [Ids -> the writer that stored the student first]
    submitted  \* history: the valid rows of all committed chunks

history == <<first, submitted>>
vars == <<chunks, students, lock, at, attempt, merged, ended, inserted, history>>

Busy(w)  == ended[w] = "no" /\ at[w] <= Len(chunks[w])
Chunk(w) == chunks[w][at[w]]

\* The chunk in students_staging, while the writer still has one to submit.
Staging(w) == IF Busy(w) THEN {Chunk(w)[k] : k \in Survivors(Chunk(w))} ELSE {}
Merged(w)  == {m.row.id : m \in merged[w]}
Left(w)    == {r.id : r \in Staging(w)} \ Merged(w)
Written(w) == {m.row : m \in {n \in merged[w] : n.outcome # "refused"}}

TypeOK ==
    /\ chunks \in [Writers -> Seq(Seq(Rows))]
    /\ students \in [Ids -> Rows \cup {NoRow}]
    /\ lock \in [Ids -> Writers \cup {Free}]
    /\ at \in [Writers -> Nat \ {0}]
    /\ attempt \in [Writers -> 1 .. MaxAttempts]
    /\ merged \in [Writers -> SUBSET [row : Rows, outcome : Outcomes]]
    /\ ended \in [Writers -> Ends]
    /\ inserted \in [Writers -> Nat]
    /\ first \in [Ids -> Writers \cup {Free}]
    /\ submitted \subseteq Rows

Init ==
    /\ chunks \in Inputs
    /\ students = [i \in Ids |-> NoRow]
    /\ lock = [i \in Ids |-> Free]
    /\ at = [w \in Writers |-> 1]
    /\ attempt = [w \in Writers |-> 1]
    /\ merged = [w \in Writers |-> {}]
    /\ ended = [w \in Writers |-> "no"]
    /\ inserted = [w \in Writers |-> 0]
    /\ first = [i \in Ids |-> Free]
    /\ submitted = {}

\* SELECT DISTINCT ON (student_id) ... ORDER BY student_id, updated_at DESC.
Freshest(w, i) ==
    {r \in Staging(w) : r.id = i /\ \A s \in Staging(w) : s.id = i => s.at <= r.at}

\* (Mutant of Outcome: a tie overwrites.)
OutcomeTieUpdates(r, row) ==
    IF row = NoRow THEN "inserted"
    ELSE IF r.at >= row.at THEN "updated" ELSE "refused"

\* No conflict (xmax = 0); a conflict WHERE EXCLUDED.updated_at >
\* students.updated_at; or a conflict that changes and returns nothing.
Outcome(r, row) ==
    IF row = NoRow THEN "inserted"
    ELSE IF r.at > row.at THEN "updated" ELSE "refused"

\* (Mutant of NextRow: no ORDER BY, rows are merged in any order.)
AnyRow(w, i) == i \in Left(w)

\* The staged rows are merged in the order of the query.
NextRow(w, i) == i \in Left(w) /\ \A j \in Left(w) : i <= j

\* (Mutant of MergeRow: the row is looked at without waiting for its lock.)
MergeUnlocked(w) ==
    \E i \in Ids :
        /\ NextRow(w, i)
        /\ lock' = [lock EXCEPT ![i] = w]
        /\ \E r \in Freshest(w, i) :
             merged' = [merged EXCEPT ![w] = @ \cup
                 {[row |-> r, outcome |-> Outcome(r, students[i])]}]
        /\ UNCHANGED <<chunks, students, at, attempt, ended, inserted, history>>

\* INSERT ... ON CONFLICT DO UPDATE reaches the next student.
MergeRow(w) ==
    \E i \in Ids :
        /\ NextRow(w, i)
        /\ lock[i] = Free
        /\ lock' = [lock EXCEPT ![i] = w]
        /\ \E r \in Freshest(w, i) :
             merged' = [merged EXCEPT ![w] = @ \cup
                 {[row |-> r, outcome |-> Outcome(r, students[i])]}]
        /\ UNCHANGED <<chunks, students, at, attempt, ended, inserted, history>>

\* The end of the transaction releases its locks.
Release(w) ==
    /\ lock' = [i \in Ids |-> IF lock[i] = w THEN Free ELSE lock[i]]
    /\ merged' = [merged EXCEPT ![w] = {}]

\* What COMMIT makes visible.
Publish(w) ==
    /\ Busy(w)
    /\ Left(w) = {}
    /\ students' = [i \in Ids |-> IF \E r \in Written(w) : r.id = i
                                  THEN CHOOSE r \in Written(w) : r.id = i
                                  ELSE students[i]]
    /\ first' = [i \in Ids |-> IF students[i] = NoRow /\ students'[i] # NoRow
                               THEN w ELSE first[i]]
    /\ submitted' = submitted \cup {Chunk(w)[k] : k \in Candidates(Chunk(w))}
    /\ Release(w)
    /\ UNCHANGED chunks

\* The transaction commits, its result is added to the run's summary, and the
\* next chunk begins.
Commit(w) ==
    /\ Publish(w)
    /\ inserted' = [inserted EXCEPT ![w] =
                       @ + Cardinality({m \in merged[w] : m.outcome = "inserted"})]
    /\ at' = [at EXCEPT ![w] = @ + 1]
    /\ attempt' = [attempt EXCEPT ![w] = 1]
    /\ UNCHANGED ended

\* The exception leaves process_chunks, and its summary is lost with it.
Abandon(w, how) ==
    /\ ended' = [ended EXCEPT ![w] = how]
    /\ inserted' = [inserted EXCEPT ![w] = 0]
    /\ UNCHANGED <<at, attempt>>

\* The transaction commits, but the connection is lost before the answer: every
\* further attempt on it fails, and the job gives the unit of work up.
CommitUnheard(w) ==
    /\ Publish(w)
    /\ Abandon(w, "cutOff")

\* (Mutants of Rollback: the attempts are not counted against the limit; the
\* locks are released but the statement goes on where it was.)
RollbackWithoutLimit(w) ==
    /\ Busy(w)
    /\ attempt' = [attempt EXCEPT ![w] = @ + 1]
    /\ Release(w)
    /\ UNCHANGED <<chunks, students, at, ended, inserted, history>>
RollbackKeepsRows(w) ==
    /\ Busy(w)
    /\ attempt[w] < MaxAttempts
    /\ attempt' = [attempt EXCEPT ![w] = @ + 1]
    /\ lock' = [i \in Ids |-> IF lock[i] = w THEN Free ELSE lock[i]]
    /\ UNCHANGED <<chunks, students, at, merged, ended, inserted, history>>

\* A transient error rolls the attempt back and Retryer.call tries again.
Rollback(w) ==
    /\ Busy(w)
    /\ attempt[w] < MaxAttempts
    /\ attempt' = [attempt EXCEPT ![w] = @ + 1]
    /\ Release(w)
    /\ UNCHANGED <<chunks, students, at, ended, inserted, history>>

\* The last attempt fails: the error leaves in_transaction and the writer's
\* job gives the unit of work up, to be resumed from the same chunk later.
GiveUp(w) ==
    /\ Busy(w)
    /\ attempt[w] = MaxAttempts
    /\ Abandon(w, "gaveUp")
    /\ Release(w)
    /\ UNCHANGED <<chunks, students, history>>

Step(w) == MergeRow(w) \/ Commit(w)
Fault(w) == CommitUnheard(w) \/ Rollback(w) \/ GiveUp(w)

Next == \E w \in Writers : Step(w) \/ Fault(w)

Spec == Init /\ [][Next]_vars

\* PostgreSQL grants a free lock and runs the statement on.
FairSpec == Spec /\ \A w \in Writers : WF_vars(Step(w))

-----------------------------------------------------------------------------
(* Properties. *)

OfId(S, i) == {r \in S : r.id = i}

\* Older data never overwrites newer data, in whatever order the sources
\* commit: a row is one of the valid rows submitted for its id, none of which
\* is newer (src/src/persist.py:196).
FreshestKept ==
    \A i \in Ids :
        IF students[i] = NoRow THEN OfId(submitted, i) = {}
        ELSE /\ students[i] \in OfId(submitted, i)
             /\ \A r \in OfId(submitted, i) : r.at <= students[i].at

\* A tie goes to the row that was stored first, and a repeated chunk changes
\* no row (src/docs/TRADEOFFS.md, T-004: "Repeating the same input changes no rows").
RowsOnlyMoveForward ==
    \A i \in Ids : students[i] # NoRow =>
        students'[i] = students[i] \/ students'[i].at > students[i].at
RepeatChangesNothing == [][RowsOnlyMoveForward]_vars

\* What a transaction has written is still right when it commits: nobody else
\* has changed a row it compared, and it writes a student once.
WritesStayValid ==
    \A w \in Writers :
        /\ \A i \in Merged(w) : lock[i] = w
        /\ \A m \in merged[w] : m.outcome = Outcome(m.row, students[m.row.id])
        /\ \A m, n \in merged[w] : m.row.id = n.row.id => m = n

\* The merge of w has come to a row that the transaction of x has locked.
WaitsFor(w, x) == \E i \in Ids : NextRow(w, i) /\ lock[i] = x

\* There is no deadlock: no set of transactions each of which waits for another of
\* the set, so PostgreSQL never has to abort one to free the others
\* (src/src/persist.py:68, the ORDER BY of the merge).
NoCircle ==
    \A S \in (SUBSET Writers) \ {{}} : \E w \in S : \A x \in S : ~ WaitsFor(w, x)

\* A run that goes through reports as inserted exactly the students it was the
\* first to store, though merges race to insert them and attempts are repeated
\* (RETURNING xmax = 0, RunSummary.add_upsert). One that fails reports none of
\* those it stored, nor does the run that resumes it after them: the reports of a
\* unit of work may add up to less than it inserted.
InsertsCounted ==
    \A w \in Writers :
        inserted[w] = IF ended[w] = "no" THEN Cardinality({i \in Ids : first[i] = w})
                      ELSE 0

\* validate_chunk lets each student's best row of a chunk through, whatever the
\* order of the rows and the size of the chunks.
ChunksSplitRight ==
    \A w \in Writers : Busy(w) => SplitsRight(Chunk(w))

\* Merging row by row, interleaved with other merges and repeated after errors,
\* has the effect of applying each committed chunk at once. Which of two equally
\* fresh rows is stored follows: the later one in a chunk, the first chunk else.
Table == INSTANCE StudentTable
MergesAreAtomic == Table!Spec

\* Concurrent merges do not hold each other up for good: every writer is through
\* with its chunks in the end.
AllMergesEnd == \A w \in Writers : <>[](~ Busy(w))
=============================================================================
