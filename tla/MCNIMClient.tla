----------------------------- MODULE MCNIMClient -----------------------------
(* Model-checking instance of NIMClient: the operations are interchangeable. *)
EXTENDS NIMClient, TLC

Symmetry == Permutations(Tasks)
=============================================================================
