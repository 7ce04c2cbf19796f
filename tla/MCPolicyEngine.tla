--------------------------- MODULE MCPolicyEngine ---------------------------
(***************************************************************************)
(* PolicyEngine for TLC: one numeric field and one string field, words     *)
(* 0..MaxWord, thresholds and reports below and above them.  Agents are    *)
(* interchangeable, and so are the strings.                                *)
(***************************************************************************)
EXTENDS PolicyEngine, TLC

MCFields    == {"amount", "vendor"}
MCNumFields == {"amount"}

Declare(private, field, op, num, members) ==
  [private |-> private, doc |-> [field |-> field, op |-> op, num |-> num, members |-> members]]

NumericPolicies(numbers) ==
  {Declare(private, "amount", op, n, {}) : private \in BOOLEAN, op \in NumericOps, n \in numbers}

SetPolicies(private, lists) ==
  {Declare(private, "vendor", op, 0, members) : op \in SetOps, members \in lists}

NegativePolicy == Declare(TRUE, "amount", OP_GE, -1, {})

\* Every kind of policy, public membership policies only, numeric policies only.
AllPolicies    == NumericPolicies({1}) \cup {NegativePolicy}
                    \cup UNION {SetPolicies(private, {{v} : v \in Values}) : private \in BOOLEAN}
PublicPolicies == SetPolicies(FALSE, SUBSET Values)
NumberPolicies == NumericPolicies(0..MaxWord)

Reports(numbers, strings) ==
  {[f \in MCFields |-> IF f = "amount" THEN n ELSE v] : n \in numbers, v \in strings}

\* Numbers with a fraction, on a threshold or missing, with every string that may be on a
\* list; a negative number, one out of range and no number, without a string; and the
\* string that has no box.
AllDecisions      == Reports({1, Scale, None}, Values)
                       \cup Reports({-Scale, (MaxWord + 1) * Scale, Empty}, {None})
                       \cup Reports({Scale}, {Empty})
CompleteDecisions == Reports({0}, Values)
PositiveDecisions == Reports(0..(MaxWord + 1) * Scale, Values)

Symmetry == Permutations(Agents) \cup Permutations(Values)
=============================================================================
