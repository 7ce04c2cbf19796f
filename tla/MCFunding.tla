------------------------------ MODULE MCFunding ------------------------------
(***************************************************************************)
(* Funding for TLC; the .cfg gives small amounts that keep the order of    *)
(* the scripts' own.                                                       *)
(***************************************************************************)
EXTENDS Funding, TLC

Symmetry == Permutations(Terminals)
=============================================================================
