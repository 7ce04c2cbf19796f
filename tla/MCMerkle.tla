------------------------------ MODULE MCMerkle ------------------------------
(***************************************************************************)
(* Merkle for TLC: records are interchangeable.                            *)
(***************************************************************************)
EXTENDS Merkle, TLC

Symmetry == Permutations(Records)
=============================================================================
