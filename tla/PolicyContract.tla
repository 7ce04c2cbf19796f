--------------------------- MODULE PolicyContract ---------------------------
(***************************************************************************)
(* contracts/policy_contract.py: the multi-tenant contract.  Its boxes are *)
(* keyed by hashes of the org and agent (and index, field, value), which   *)
(* do not collide; here an element of Agents is one (org_id, agent_id).    *)
(* Rule boxes are written at index rule_count only, so the rule boxes and  *)
(* the count box of an agent are one sequence.                             *)
(*                                                                         *)
(* The contract reads a box only when the transaction references it, which *)
(* is why check_and_mint takes the set of referenced boxes here.  All      *)
(* methods are creator-only and the backend is the creator.                *)
(***************************************************************************)
EXTENDS Integers, Sequences, FiniteSets

CONSTANTS
  Agents,          \* org + agent pairs
  Fields,          \* names of decision fields
  Values,          \* the strings membership sets may hold
  MaxWord,         \* the largest uint64
  Supply,          \* AACR units the contract account starts with
  Empty            \* the empty string; also an empty commitment

ASSUME WordAssumption == MaxWord \in Nat /\ Supply \in Nat

VARIABLES
  tenant_rules,    \* per agent, the rule boxes in index order
  sets,            \* the membership boxes that exist: <<agent, field, value>>
  aacr             \* AACR units left in the contract account

contract == <<tenant_rules, sets, aacr>>

-----------------------------------------------------------------------------

OP_LT == 1
OP_LE == 2
OP_GT == 3
OP_GE == 4
OP_EQ == 5
OP_NE == 6
OP_IN == 7
OP_NOT_IN == 8

NumericOps == {OP_LT, OP_LE, OP_GT, OP_GE, OP_EQ, OP_NE}
SetOps     == {OP_IN, OP_NOT_IN}

MODE_ONCHAIN == 1
MODE_ATTESTED == 2

Word == 0..MaxWord

\* A numeric predicate; an operator that is none of these is false off-chain.
EvalNumeric(op, lhs, rhs) ==
  \/ op = OP_LT /\ lhs < rhs
  \/ op = OP_LE /\ lhs <= rhs
  \/ op = OP_GT /\ lhs > rhs
  \/ op = OP_GE /\ lhs >= rhs
  \/ op = OP_EQ /\ lhs = rhs
  \/ op = OP_NE /\ lhs # rhs

\* A membership predicate.
EvalMember(op, in_set) == IF op = OP_IN THEN in_set ELSE ~in_set

-----------------------------------------------------------------------------
(* check_and_mint *)

\* The arguments are one record [num, str, attested] per rule.
PassesMutant(agent, i, args) ==
  LET rule == tenant_rules[agent][i]
  IN  IF rule.mode = MODE_ATTESTED THEN args[i].attested
      ELSE IF rule.op \in SetOps
      THEN EvalMember(rule.op, \E a \in Agents : <<a, rule.field, args[i].str>> \in sets)
      ELSE EvalNumeric(rule.op, args[i].num, rule.num)

Passes(agent, i, args) ==
  LET rule == tenant_rules[agent][i]
  IN  IF rule.mode = MODE_ATTESTED THEN args[i].attested
      ELSE IF rule.op \in SetOps
      THEN EvalMember(rule.op, <<agent, rule.field, args[i].str>> \in sets)
      ELSE EvalNumeric(rule.op, args[i].num, rule.num)

\* The boxes the evaluation reads.
CountBox(agent)             == <<"rc", agent>>
RuleBox(agent, i)           == <<"r", agent, i>>
SetBox(agent, field, value) == <<"s", agent, field, value>>

BoxesRead(agent, args) ==
  {CountBox(agent)}
    \cup {RuleBox(agent, i) : i \in DOMAIN tenant_rules[agent]}
    \cup {SetBox(agent, tenant_rules[agent][i].field, args[i].str) :
            i \in {j \in DOMAIN tenant_rules[agent] :
                     /\ tenant_rules[agent][j].mode = MODE_ONCHAIN
                     /\ tenant_rules[agent][j].op \in SetOps}}

\* "pass:onchain|fail:attested", one token per rule.
ResultTokens(agent, args) ==
  [i \in DOMAIN tenant_rules[agent] |->
     [pass  |-> Passes(agent, i, args),
      layer |-> IF tenant_rules[agent][i].mode = MODE_ATTESTED
                THEN "attested" ELSE "onchain"]]

AllPass(tokens) == \A i \in DOMAIN tokens : tokens[i].pass

\* The call goes through: the asserts hold, every box it reads is referenced, and
\* the AACR it mints is there.
Accepts(agent, args, referenced) ==
  /\ Len(tenant_rules[agent]) > 0
  /\ Len(args) = Len(tenant_rules[agent])
  /\ BoxesRead(agent, args) \subseteq referenced
  /\ AllPass(ResultTokens(agent, args)) => aacr > 0

\* The effect of a call that goes through: one AACR leaves iff all rules pass.
CheckAndMintMutant(agent, args) ==
  /\ aacr' = IF \E i \in DOMAIN args : Passes(agent, i, args) THEN aacr - 1 ELSE aacr
  /\ UNCHANGED <<tenant_rules, sets>>

CheckAndMint(agent, args) ==
  /\ aacr' = IF AllPass(ResultTokens(agent, args)) THEN aacr - 1 ELSE aacr
  /\ UNCHANGED <<tenant_rules, sets>>

-----------------------------------------------------------------------------
(* Registration and administration *)

RegisterRule(agent, rule) ==
  tenant_rules' = [tenant_rules EXCEPT ![agent] = Append(@, rule)]

AddToSet(agent, field, members) ==
  sets' = sets \cup {<<agent, field, v>> : v \in members}

\* Refused when the box is not there.
RemoveFromSetMutant(agent, field, value) ==
  /\ <<agent, field, value>> \in sets
  /\ sets' = sets \ {<<a, field, value>> : a \in Agents}

RemoveFromSet(agent, field, value) ==
  /\ <<agent, field, value>> \in sets
  /\ sets' = sets \ {<<agent, field, value>>}

ContractInit ==
  /\ tenant_rules = [agent \in Agents |-> << >>]
  /\ sets = {}
  /\ aacr = Supply
=============================================================================
