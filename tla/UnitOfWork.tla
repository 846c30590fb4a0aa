---------------------------- MODULE UnitOfWork -----------------------------
(***************************************************************************)
(* What the run ledger promises about a unit of work ("process every CSV  *)
(* blob version exactly once", src/src/pipeline.py:218): one worker at a  *)
(* time takes it, its chunks are applied once each and in order, however   *)
(* often it is released and taken again, and a finished unit is never      *)
(* taken again.  CsvJob implements this as long as no lease runs out under *)
(* a living worker.                                                        *)
(***************************************************************************)
EXTENDS Naturals

CONSTANTS Units, Workers, Chunks   \* Chunks[u]: the number of chunks of u

VARIABLES
    holders,   \* [Units -> the set of workers that hold the unit]
    applied,   \* [Units -> the number of chunks applied]
    done       \* [Units -> is the unit finished?]

vars == <<holders, applied, done>>

Init ==
    /\ holders = [u \in Units |-> {}]
    /\ applied = [u \in Units |-> 0]
    /\ done = [u \in Units |-> FALSE]

Take(u, w) ==
    /\ ~ done[u]
    /\ holders[u] = {}
    /\ holders' = [holders EXCEPT ![u] = {w}]
    /\ UNCHANGED <<applied, done>>

Apply(u) ==
    /\ holders[u] # {}
    /\ applied[u] < Chunks[u]
    /\ applied' = [applied EXCEPT ![u] = @ + 1]
    /\ UNCHANGED <<holders, done>>

Release(u) ==
    /\ holders[u] # {}
    /\ holders' = [holders EXCEPT ![u] = {}]
    /\ UNCHANGED <<applied, done>>

Finish(u) ==
    /\ holders[u] # {}
    /\ applied[u] = Chunks[u]
    /\ holders' = [holders EXCEPT ![u] = {}]
    /\ done' = [done EXCEPT ![u] = TRUE]
    /\ UNCHANGED applied

Next == \E u \in Units :
    Apply(u) \/ Release(u) \/ Finish(u) \/ \E w \in Workers : Take(u, w)

Spec == Init /\ [][Next]_vars
=============================================================================
