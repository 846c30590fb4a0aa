------------------------------ MODULE MCDeploy ------------------------------
(* A small instance of Deploy: three pushes, the last two with new files. *)
EXTENDS Deploy, TLC

CONSTANTS p1, p2, p3

\* Two branches add a file each; the one with the smaller name merges last.
Directories == p1 :> {1} @@ p2 :> {1, 3} @@ p3 :> {1, 2, 3}
=============================================================================
