---------------------------- MODULE StudentTable ----------------------------
(***************************************************************************)
(* What the students table promises: a submitted chunk is applied as a     *)
(* whole and at once, and a student's row is replaced only by a fresher    *)
(* one.  StudentStore implements it.                                       *)
(***************************************************************************)
EXTENDS Validate

CONSTANTS
    Writers,  \* connections that submit chunks
    Ids,      \* student ids
    NoRow     \* no row with this id

VARIABLES
    chunks,   \* [Writers -> the sequence of chunks it has to submit]
    students  \* [Ids -> row or NoRow]

\* The rows a chunk has for student i: one at most.
RowsFor(chunk, i) == {chunk[k] : k \in {j \in Latest(chunk) : chunk[j].id = i}}

Upserted(table, chunk) ==
    [i \in Ids |->
        IF \E r \in RowsFor(chunk, i) : table[i] = NoRow \/ r.at > table[i].at
        THEN CHOOSE r \in RowsFor(chunk, i) : TRUE
        ELSE table[i]]

Init == students = [i \in Ids |-> NoRow]

Submit(chunk) == students' = Upserted(students, chunk)

Next ==
    /\ \E w \in Writers : \E n \in DOMAIN chunks[w] : Submit(chunks[w][n])
    /\ UNCHANGED chunks

Spec == Init /\ [][Next]_<<chunks, students>>
=============================================================================
