----------------------------- MODULE MCApiSync ------------------------------
(* Small instances of ApiSync for TLC. *)
EXTENDS ApiSync, TLC

CONSTANTS w1, w2

MCWorkers == {w1, w2}
Symmetry  == Permutations(MCWorkers)
=============================================================================
