----------------------------- MODULE AuditTrail -----------------------------
(***************************************************************************)
(* What the audit service promises about one decision, with the server,    *)
(* the database, the network and every failure left out:                   *)
(*                                                                         *)
(*   - the policy contract judges a decision at most once;                 *)
(*   - only a judged decision enters the trail, and it never leaves it;    *)
(*   - a root is published over decisions that are in the trail;           *)
(*   - decisions become anchored together, under one published root that   *)
(*     covers exactly them, and stay anchored.                             *)
(*                                                                         *)
(* AuditPipeline is shown to implement this specification.                 *)
(***************************************************************************)

CONSTANT Requests          \* the decisions submitted for audit

VARIABLES
  judged,                  \* decisions the policy contract has ruled on
  trail,                   \* per decision: "absent", "pending" or "anchored"
  published                \* the sets of decisions that have an on-chain root

vars == <<judged, trail, published>>

Status == {"absent", "pending", "anchored"}

Recorded == {r \in Requests : trail[r] # "absent"}

-----------------------------------------------------------------------------

Init ==
  /\ judged = {}
  /\ trail = [r \in Requests |-> "absent"]
  /\ published = {}

Judge(r) ==
  /\ r \notin judged
  /\ judged' = judged \cup {r}
  /\ UNCHANGED <<trail, published>>

Record(r) ==
  /\ r \in judged
  /\ trail[r] = "absent"
  /\ trail' = [trail EXCEPT ![r] = "pending"]
  /\ UNCHANGED <<judged, published>>

Publish(S) ==
  /\ S # {}
  /\ published' = published \cup {S}
  /\ UNCHANGED <<judged, trail>>

Anchor(S) ==
  /\ S \in published
  /\ \A r \in S : trail[r] = "pending"
  /\ trail' = [r \in Requests |-> IF r \in S THEN "anchored" ELSE trail[r]]
  /\ UNCHANGED <<judged, published>>

Next ==
  \/ \E r \in Requests : Judge(r) \/ Record(r)
  \/ \E S \in SUBSET Recorded : Publish(S) \/ Anchor(S)

Spec == Init /\ [][Next]_vars
=============================================================================
