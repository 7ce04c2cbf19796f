--------------------------- MODULE MCVerification ---------------------------
(***************************************************************************)
(* Verification for TLC.  The first tenant has a private numeric policy    *)
(* and a public list; the second has a private list in the place of the    *)
(* first one's number, and a public threshold.                             *)
(***************************************************************************)
EXTENDS Verification, TLC

CONSTANTS t1, t2, low, high, text

Policy(f, private, numeric, allowed) ==
  [field |-> f, private |-> private, numeric |-> numeric, allowed |-> allowed]

MCFields == {"amount", "tier"}

MCRules ==
  (t1 :> <<Policy("amount", TRUE, TRUE, {low, Zero}),
           Policy("tier", FALSE, FALSE, {text})>>) @@
  (t2 :> <<Policy("tier", TRUE, FALSE, {high}),
           Policy("amount", FALSE, TRUE, {high, Zero})>>)

MCReports ==
  {[amount |-> a, tier |-> b] : a \in {low, text, None}, b \in {text, high}}

Symmetry == Permutations(Calls)
=============================================================================
