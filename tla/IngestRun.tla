----------------------------- MODULE IngestRun -----------------------------
(***************************************************************************)
(* One row of the ingest_run table and the statements src/src/persist.py  *)
(* issues on it.  A row is the ledger entry of one unit of work; its      *)
(* primary key (the run id) is represented by the unit itself, because    *)
(* the constraint ingest_run_identity makes them correspond one to one.   *)
(*                                                                         *)
(*   status  the status column, or "absent" while the row does not exist  *)
(*   last    last_chunk, the resume point                                  *)
(*   read    rows_read, the sum over the recorded chunks                   *)
(*   valid   rows_valid, likewise; rows_quarantined is always read - valid *)
(*   aged    whether started_at <= now() - RUN_STALE_AFTER_SECONDS         *)
(***************************************************************************)
EXTENDS Integers

Status == {"absent", "running", "completed", "failed"}

Run == [status : Status, last : Nat, read : Nat, valid : Nat, aged : BOOLEAN]

\* No row: INSERT ... ON CONFLICT DO NOTHING will insert one.
AbsentRun ==
    [status |-> "absent", last |-> 0, read |-> 0, valid |-> 0, aged |-> FALSE]

\* The row INSERT creates: every counter at its default, started_at = now().
NewRun == [AbsentRun EXCEPT !.status = "running"]

\* (Mutants of Claimable: completed runs are taken over; stale ones are not.)
ClaimableOnceEnded(run) == run.status \in {"failed", "completed"} \/ run.aged
ClaimableIfFailed(run)  == run.status = "failed"

\* The condition of the SELECT's early return and of the UPDATE's WHERE clause:
\* a failed run, or a running one whose lease has run out.
Claimable(run) ==
    \/ run.status = "failed"
    \/ run.status = "running" /\ run.aged

\* The UPDATE of claim_run: running again, started_at = now(), counters kept.
Reclaimed(run) == [run EXCEPT !.status = "running", !.aged = FALSE]

\* (Mutant of Progressed: the counters of the last chunk replace the sums.)
ProgressedByAssignment(run, chunk, read, valid) ==
    [run EXCEPT !.last = chunk, !.read = read, !.valid = valid]

\* record_chunk_progress: last_chunk is assigned, never compared with the old
\* value, and the counters are added to.
Progressed(run, chunk, read, valid) ==
    [run EXCEPT !.last = chunk, !.read = @ + read, !.valid = @ + valid]

\* complete_run and fail_run: unconditional on the status the row has.
\* started_at matters to running rows only, so aged is dropped.
Completed(run) == [run EXCEPT !.status = "completed", !.aged = FALSE]
Failed(run)    == [run EXCEPT !.status = "failed", !.aged = FALSE]
=============================================================================
