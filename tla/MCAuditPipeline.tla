-------------------------- MODULE MCAuditPipeline --------------------------
(***************************************************************************)
(* AuditPipeline for TLC.  The constants get their values in the .cfg      *)
(* files; action ids and batch ids are interchangeable, and so are the     *)
(* calls that satisfy their policy, and those that do not.                 *)
(***************************************************************************)
EXTENDS AuditPipeline, TLC

KeepsCompliant(p) == \A r \in Requests : r \in Compliant <=> p[r] \in Compliant

Symmetry == {p \in Permutations(Requests) : KeepsCompliant(p)}
              \cup Permutations(ActionIds)
              \cup Permutations(BatchIds)
=============================================================================
