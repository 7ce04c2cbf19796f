------------------------------ MODULE MCBilling ------------------------------
(***************************************************************************)
(* Billing for TLC.  Decisions of one billing mode are interchangeable.    *)
(***************************************************************************)
EXTENDS Billing, TLC

Symmetry == {p \in Permutations(Decisions) :
               \A d \in Decisions : d \in PayPerCall <=> p[d] \in PayPerCall}
=============================================================================
