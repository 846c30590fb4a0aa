------------------------------ MODULE Validate ------------------------------
(***************************************************************************)
(* validate_chunk: broken rows are rejected, and of the rows that carry    *)
(* the same student only one goes on to the database.                      *)
(*                                                                         *)
(* A chunk is a sequence of rows with the fields id, at (updated_at) and   *)
(* ok (no rule of _field_failure is broken).  Which rule a row breaks is   *)
(* left out.  Rows are named by their position, since equal rows differ.   *)
(***************************************************************************)
EXTENDS Integers, Sequences

Rejected(chunk)   == {k \in DOMAIN chunk : ~ chunk[k].ok}
Candidates(chunk) == {k \in DOMAIN chunk : chunk[k].ok}

\* (Mutants of Beaten: a tie goes to the earlier row; the later row wins
\* whatever its age.)
BeatenUnlessFresher(chunk, best, k) ==
    LET current == {c \in best : chunk[c].id = chunk[k].id}
    IN  IF \A c \in current : chunk[k].at > chunk[c].at THEN current ELSE {k}
BeatenByLater(chunk, best, k) == {c \in best : chunk[c].id = chunk[k].id}

\* The row that loses when row k meets the best rows so far: the current best
\* row of the student if k is as fresh, k itself if not, none if k is the first.
Beaten(chunk, best, k) ==
    LET current == {c \in best : chunk[c].id = chunk[k].id}
    IN  IF \A c \in current : chunk[k].at >= chunk[c].at THEN current ELSE {k}

\* (Mutant of Pass: the row that is replaced is not reported.)
PassSilently(chunk, s, k) ==
    LET beaten == Beaten(chunk, s.best, k)
    IN  [best   |-> (s.best \cup {k}) \ beaten,
         losers |-> s.losers \cup (beaten \cap {k})]

\* One pass of the loop: `best` and `losers` after candidate k.
Pass(chunk, s, k) ==
    LET beaten == Beaten(chunk, s.best, k)
    IN  [best |-> (s.best \cup {k}) \ beaten, losers |-> s.losers \cup beaten]

\* _dedupe over the candidates among the first n rows.
Dedupe(chunk) ==
    LET after[n \in 0 .. Len(chunk)] ==
          IF n = 0 THEN [best |-> {}, losers |-> {}]
          ELSE IF chunk[n].ok THEN Pass(chunk, after[n - 1], n)
          ELSE after[n - 1]
    IN  after[Len(chunk)]

\* What validate_chunk returns.
Survivors(chunk)   == Dedupe(chunk).best
Quarantined(chunk) == Rejected(chunk) \cup Dedupe(chunk).losers

-----------------------------------------------------------------------------
(* What the result has to be. *)

\* Row j is a better row of k's student: fresher, or as fresh and later.
Better(chunk, j, k) ==
    /\ chunk[j].id = chunk[k].id
    /\ \/ chunk[j].at > chunk[k].at
       \/ chunk[j].at = chunk[k].at /\ j > k

Latest(chunk) ==
    {k \in Candidates(chunk) : \A j \in Candidates(chunk) : ~ Better(chunk, j, k)}

\* Each student's freshest row survives, the later of equals, and every other
\* row is quarantined (src/src/validate.py:96).
SplitsRight(chunk) ==
    /\ Survivors(chunk) = Latest(chunk)
    /\ Quarantined(chunk) = DOMAIN chunk \ Latest(chunk)
=============================================================================
