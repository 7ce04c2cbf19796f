---------------------------- MODULE PolicyEngine ----------------------------
(***************************************************************************)
(* The backend's side of a policy check: tenancy/provisioning.py mirrors   *)
(* each rule it registers in the tenant store, evaluates private (Mode 2)  *)
(* rules itself and builds the per-rule arguments; algorand/               *)
(* contract_client_v2.py encodes them, references boxes and reads the      *)
(* result.  PolicyContract is the contract it calls.                       *)
(*                                                                         *)
(* A policy document is its own sha256 commitment, and decrypting what was *)
(* encrypted under the org's key gives it back.  A failed or half-done     *)
(* registration is the subject of module Onboarding: here a policy is      *)
(* registered completely.  A decision reports anything: an integer n is    *)
(* the number n/Scale, every other value a string that int() refuses.      *)
(***************************************************************************)
EXTENDS PolicyContract

CONSTANTS
  NumFields,       \* the fields that numeric policies are about
  Policies,        \* the policies an org may declare for an agent
  Decisions,       \* what agents report: field -> number, string or None
  None,            \* Python None: the decision lacks the field
  Scale,           \* a reported n is the number n/Scale; thresholds are integers
  MaxBoxRefs       \* box references a transaction may carry (8)

CONSTANTS
  MaxRules,        \* bound: rules of all agents together
  MaxFaults        \* bound: audits whose call gets no answer from the node

Doc    == [field : Fields, op : NumericOps \cup SetOps, num : Int, members : SUBSET Values]
Policy == [private : BOOLEAN, doc : Doc]

ASSUME PolicyAssumption ==
  \A p \in Policies :
    /\ p \in Policy
    /\ p.doc.op \in NumericOps <=> p.doc.field \in NumFields
ASSUME DecisionAssumption == \A d \in Decisions : DOMAIN d = Fields
ASSUME BoundAssumption ==
  MaxBoxRefs \in Nat /\ MaxRules \in Nat /\ MaxFaults \in Nat /\ Scale \in Nat \ {0}

VARIABLES
  agent_rules,     \* tenant store: per agent, its rules ordered by idx
  declared,        \* per agent, the policies its org asked for, in order
  last,            \* the last audit: who, what was reported, how it ended
  reported,        \* how many audits the backend reported as asa_minted
  pool,            \* calls the backend gave up on that may still reach the chain
  faults           \* how many calls it gave up on

calls == <<pool, faults>>

vars == <<contract, agent_rules, declared, last, reported, calls>>

-----------------------------------------------------------------------------
(* Registration: register_policy, register_sensitive_policy and            *)
(* register_sensitive_set_policy                                           *)

ChainRule(p) ==
  IF p.private
  THEN [mode |-> MODE_ATTESTED, op |-> 0, num |-> 0, field |-> p.doc.field,
        commitment |-> p.doc]
  ELSE [mode |-> MODE_ONCHAIN, op |-> p.doc.op, num |-> p.doc.num,
        field |-> p.doc.field, commitment |-> Empty]

StoredRule(p) == [chain |-> ChainRule(p), doc_cipher |-> IF p.private THEN p.doc ELSE Empty]

\* A public threshold must fit an uint64, or struct.pack raises before anything is
\* sent; a private one only lives in its document.
Register(agent, p) ==
  /\ Cardinality(UNION {{a} \X DOMAIN declared[a] : a \in Agents}) < MaxRules
  /\ ~p.private => p.doc.num \in Word
  /\ RegisterRule(agent, ChainRule(p))
  /\ agent_rules' = [agent_rules EXCEPT ![agent] = Append(@, StoredRule(p))]
  /\ IF ~p.private /\ p.doc.op \in SetOps
     THEN AddToSet(agent, p.doc.field, p.doc.members)
     ELSE UNCHANGED sets
  /\ declared' = [declared EXCEPT ![agent] = Append(@, p)]
  /\ UNCHANGED <<aacr, last, reported, calls>>

\* remove_from_set: the org takes a value off its public lists on a field.
Unlist(agent, field, value) ==
  LET Off(p) == IF ~p.private /\ p.doc.op \in SetOps /\ p.doc.field = field
                THEN [p EXCEPT !.doc.members = @ \ {value}] ELSE p
  IN  /\ RemoveFromSet(agent, field, value)
      /\ declared' = [declared EXCEPT ![agent] = [i \in DOMAIN @ |-> Off(@[i])]]
      /\ UNCHANGED <<tenant_rules, aacr, agent_rules, last, reported, calls>>

-----------------------------------------------------------------------------
(* build_check_args and submit_policy_check *)

\* int(val) cuts the fraction off, towards zero.
IntOf(val) == IF val >= 0 THEN val \div Scale ELSE -((-val) \div Scale)

EvalDoc(doc, val) ==
  IF doc.op \in SetOps THEN EvalMember(doc.op, val \in doc.members)
                       ELSE EvalNumeric(doc.op, IntOf(val), doc.num)

\* _evaluate_sensitive: a private rule fails when the decision lacks its field.
EvaluateSensitive(rule, val) == val # None /\ EvalDoc(rule.doc_cipher, val)

\* Mode 1 sends the int of the reported value, or the string, and 0 or "" for a
\* field the decision lacks.
CheckArg(rule, val) ==
  LET private == rule.chain.mode = MODE_ATTESTED
      member  == ~private /\ rule.chain.op \in SetOps
  IN  [num      |-> IF private \/ member \/ val = None THEN 0 ELSE IntOf(val),
       str      |-> IF member /\ val # None THEN val ELSE Empty,
       attested |-> private /\ EvaluateSensitive(rule, val)]

BuildCheckArgs(agent, decision) ==
  [i \in DOMAIN agent_rules[agent] |->
     CheckArg(agent_rules[agent][i], decision[agent_rules[agent][i].chain.field])]

\* The list of boxes, each with its place in it: the count box, the rule boxes, then a
\* set box for each value that is not "".
BoxList(agent, args) ==
  LET Named(i) == {j \in 1..i : args[j].str # Empty}
  IN  {<<1, CountBox(agent)>>}
        \cup {<<1 + i, RuleBox(agent, i)>> : i \in DOMAIN args}
        \cup {<<1 + Len(args) + Cardinality(Named(i)),
                SetBox(agent, agent_rules[agent][i].chain.field, args[i].str)>>
                : i \in Named(Len(args))}

\* boxes[:8]
ReferencedMutant(agent, args) ==
  {entry[2] : entry \in {box \in BoxList(agent, args) : box[1] < MaxBoxRefs}}

Referenced(agent, args) ==
  {entry[2] : entry \in {box \in BoxList(agent, args) : box[1] <= MaxBoxRefs}}

\* A numeric rule, private or public, calls int() on what is reported, which raises on
\* anything that is no number.
Convertible(agent, decision) ==
  \A i \in DOMAIN agent_rules[agent] :
    LET rule == agent_rules[agent][i]
        op   == IF rule.chain.mode = MODE_ATTESTED THEN rule.doc_cipher.op ELSE rule.chain.op
        val  == decision[rule.chain.field]
    IN  op \in NumericOps /\ val # None => val \in Int

\* The uint64 array encoder raises on anything that is not a uint64.
Encodable(args) == \A i \in DOMAIN args : args[i].num \in Word

Audited(agent, decision, outcome, tokens, minted) ==
  [agent |-> agent, policies |-> declared[agent], decision |-> decision, outcome |-> outcome,
   tokens |-> tokens, minted |-> minted]

\* An audit whose transaction goes through.  asa_minted is read off the tokens.
AuditChecked(agent, decision) ==
  LET args   == BuildCheckArgs(agent, decision)
      tokens == ResultTokens(agent, args)
  IN  /\ agent_rules[agent] # << >>
      /\ Convertible(agent, decision) /\ Encodable(args)
      /\ Accepts(agent, args, Referenced(agent, args))
      /\ CheckAndMint(agent, args)
      /\ last' = Audited(agent, decision, "checked", tokens, AllPass(tokens))
      /\ reported' = IF AllPass(tokens) THEN reported + 1 ELSE reported
      /\ UNCHANGED <<agent_rules, declared, calls>>

\* An audit that is answered with 500 before a transaction exists, or because the node
\* rejects it: it leaves no trace.
AuditFails(agent, decision) ==
  LET args == BuildCheckArgs(agent, decision)
  IN  /\ agent_rules[agent] # << >>
      /\ ~ /\ Convertible(agent, decision) /\ Encodable(args)
            /\ Accepts(agent, args, Referenced(agent, args))
      /\ last' = Audited(agent, decision, "error", << >>, FALSE)
      /\ UNCHANGED <<contract, agent_rules, declared, reported, calls>>

\* send_transaction or wait_for_confirmation raises because the node does not answer, or
\* not within 4 rounds.  The audit is answered with 500; its call may still be executed.
AuditUnconfirmed(agent, decision) ==
  LET args == BuildCheckArgs(agent, decision)
  IN  /\ faults < MaxFaults
      /\ agent_rules[agent] # << >>
      /\ Convertible(agent, decision) /\ Encodable(args)
      /\ faults' = faults + 1
      /\ pool' = pool \cup {[id |-> faults', agent |-> agent, decision |-> decision,
                             args |-> args, boxes |-> Referenced(agent, args)]}
      /\ last' = Audited(agent, decision, "unconfirmed", << >>, FALSE)
      /\ UNCHANGED <<contract, agent_rules, declared, reported>>

\* The chain executes such a call, with the rules and lists it then finds; nobody reads
\* the result.
LateCheck(call) ==
  LET tokens == ResultTokens(call.agent, call.args)
  IN  /\ Accepts(call.agent, call.args, call.boxes)
      /\ CheckAndMint(call.agent, call.args)
      /\ pool' = pool \ {call}
      /\ last' = Audited(call.agent, call.decision, "late", tokens, AllPass(tokens))
      /\ UNCHANGED <<agent_rules, declared, reported, faults>>

\* It never reached the node, is rejected, or expires.
CallDropped(call) ==
  /\ pool' = pool \ {call}
  /\ UNCHANGED <<contract, agent_rules, declared, last, reported, faults>>

-----------------------------------------------------------------------------

NoAudit == [outcome |-> "none"]

Init ==
  /\ ContractInit
  /\ agent_rules = [agent \in Agents |-> << >>]
  /\ declared = [agent \in Agents |-> << >>]
  /\ last = NoAudit
  /\ reported = 0
  /\ pool = {}
  /\ faults = 0

Next ==
  \/ \E agent \in Agents :
       \/ \E p \in Policies : Register(agent, p)
       \/ \E f \in Fields, v \in Values : Unlist(agent, f, v)
       \/ \E d \in Decisions : \/ AuditChecked(agent, d)
                              \/ AuditFails(agent, d)
                              \/ AuditUnconfirmed(agent, d)
  \/ \E call \in pool : LateCheck(call) \/ CallDropped(call)

Spec == Init /\ [][Next]_vars

-----------------------------------------------------------------------------
(* What the org meant: the reference definition of a policy *)

\* A comparison holds of numbers only.
Meets(decision, p) ==
  LET val == decision[p.doc.field]
  IN  val # None /\ (p.doc.op \in NumericOps => val \in Int) /\
                    CASE p.doc.op = OP_LT -> val < p.doc.num * Scale
                      [] p.doc.op = OP_LE -> val <= p.doc.num * Scale
                      [] p.doc.op = OP_GT -> val > p.doc.num * Scale
                      [] p.doc.op = OP_GE -> val >= p.doc.num * Scale
                      [] p.doc.op = OP_EQ -> val = p.doc.num * Scale
                      [] p.doc.op = OP_NE -> val # p.doc.num * Scale
                      [] p.doc.op = OP_IN -> val \in p.doc.members
                      [] p.doc.op = OP_NOT_IN -> val \notin p.doc.members

PublicSet(p) == ~p.private /\ p.doc.op \in SetOps

\* Another public membership policy of the agent on the same field shares its set.
SharesSet(policies, i) ==
  \E j \in DOMAIN policies \ {i} :
     /\ PublicSet(policies[i]) /\ PublicSet(policies[j])
     /\ policies[i].doc.field = policies[j].doc.field

\* An org may read the token of policy i as the truth about the decision: the
\* decision reports an integer, or a string; a public policy needs the field and
\* a set of its own.
Whole(val) == val \in Int /\ val % Scale = 0

Readable(i) ==
  LET p   == last.policies[i]
      val == last.decision[p.doc.field]
  IN  /\ p.doc.field \in NumFields /\ val # None => Whole(val)
      /\ p.private \/ (val # None /\ ~SharesSet(last.policies, i))

-----------------------------------------------------------------------------
(* Properties *)

\* Every variable has its type.
TypeOK ==
  LET Rule == [mode : {MODE_ONCHAIN, MODE_ATTESTED}, op : 0..8, num : Word,
               field : Fields, commitment : Doc \cup {Empty}]
  IN  /\ tenant_rules \in [Agents -> Seq(Rule)]
      /\ agent_rules \in [Agents -> Seq([chain : Rule, doc_cipher : Doc \cup {Empty}])]
      /\ declared \in [Agents -> Seq(Policy)]
      /\ sets \subseteq Agents \X Fields \X Values
      /\ aacr \in 0..Supply
      /\ reported \in 0..Supply
      /\ faults \in 0..MaxFaults

\* The i-th token of a check, answered or late, is the truth about the i-th policy the
\* org declared: neither the off-chain evaluation, nor the alignment of the arrays by
\* index, nor the boxes of another rule or agent, nor what was registered or taken off
\* a list before a late call was executed, change the verdict on a policy whose field
\* the decision has, as an integer, and whose set is its own.
Executed == last.outcome \in {"checked", "late"}

TokensTellTheTruth ==
  Executed =>
    /\ DOMAIN last.tokens = DOMAIN last.policies
    /\ \A i \in DOMAIN last.tokens :
         /\ last.tokens[i].layer = "attested" <=> last.policies[i].private
         /\ Readable(i) =>
              (last.tokens[i].pass <=> Meets(last.decision, last.policies[i]))

\* The backend never reports an AACR that did not leave the contract account, and each
\* one that left unreported belongs to an audit it gave up on and answered with 500,
\* whose call is no longer in the pool: one AACR at most for each of them.
ReportsWhatWasMinted ==
  LET unreported == Supply - aacr - reported
  IN  unreported \in 0..faults - Cardinality(pool)

\* An AACR leaves the contract only with a check, answered or late, none of whose readable
\* policies is broken; it leaves with every check all of whose policies are readable and
\* hold; and no other step moves one.
Holds(i) == Meets(last.decision, last.policies[i])

MintsAreDeserved ==
  [][LET audited == DOMAIN last'.policies
         checked == <<last, aacr>>' # <<last, aacr>> /\ Executed'
     IN  /\ aacr' # aacr => /\ checked
                            /\ aacr' = aacr - 1
                            /\ \A i \in audited : Readable(i)' => Holds(i)'
         /\ checked /\ (\A i \in audited : Readable(i)' /\ Holds(i)') => aacr' = aacr - 1]_vars

\* On a deployment that is funded (module Funding), an audit the node does answer fails
\* only for a reason the caller can see: a number missing its type or range, a list
\* without its value, more boxes than a transaction may reference, or, for a decision
\* that breaks no readable policy, no AACR left.  Any other decision gets a verdict.
RefusalsAreExplained ==
  last.outcome = "error" =>
    LET rules  == last.policies
        Val(i) == last.decision[rules[i].doc.field]
    IN  \/ \E i \in DOMAIN rules : PublicSet(rules[i]) /\ Val(i) \in {None, Empty}
        \/ \E i \in DOMAIN rules :
             /\ rules[i].doc.op \in NumericOps
             /\ Val(i) # None
             /\ Val(i) \notin Int \/ (~rules[i].private /\ IntOf(Val(i)) \notin Word)
        \/ 1 + Len(rules) + Cardinality({i \in DOMAIN rules : PublicSet(rules[i])}) > MaxBoxRefs
        \/ aacr = 0 /\ \A i \in DOMAIN rules : Readable(i) => Holds(i)

-----------------------------------------------------------------------------
(* The inductive invariant of the safety properties *)

\* A declared policy is one the backend lets an org declare.
DeclaredAreLegal ==
  \A agent \in Agents : \A i \in DOMAIN declared[agent] :
    LET p == declared[agent][i]
    IN  /\ p.doc.op \in NumericOps <=> p.doc.field \in NumFields
        /\ ~p.private => p.doc.num \in Word

\* The chain and the store hold the declared policies, index by index.
RulesAreMirrored ==
  \A agent \in Agents :
    /\ tenant_rules[agent] = [i \in DOMAIN declared[agent] |-> ChainRule(declared[agent][i])]
    /\ agent_rules[agent] = [i \in DOMAIN declared[agent] |-> StoredRule(declared[agent][i])]

\* A membership box exists when a public list of the agent on that field has the value:
\* the lists on one field are one set on chain.
BoxesAreListed ==
  \A agent \in Agents : \A f \in Fields : \A v \in Values :
    <<agent, f, v>> \in sets <=>
      \E i \in DOMAIN declared[agent] :
         /\ PublicSet(declared[agent][i])
         /\ declared[agent][i].doc.field = f /\ v \in declared[agent][i].doc.members

\* A call in the pool is numbered among those given up on, and its arguments are what the
\* rules it was built from, which are still the first ones of its agent, make of its
\* decision.
CallsFitTheRules ==
  /\ IsFiniteSet(pool)
  /\ \A call \in pool :
       LET n     == Len(call.args)
           rules == agent_rules[call.agent]
       IN  /\ call.id \in 1..faults
           /\ call.agent \in Agents
           /\ n \in Nat /\ 1..n \subseteq DOMAIN rules
           /\ call.args = [i \in 1..n |-> CheckArg(rules[i], call.decision[rules[i].chain.field])]

IndInv ==
  /\ TypeOK
  /\ DeclaredAreLegal
  /\ RulesAreMirrored
  /\ BoxesAreListed
  /\ CallsFitTheRules
  /\ ReportsWhatWasMinted
  /\ TokensTellTheTruth
  /\ RefusalsAreExplained

-----------------------------------------------------------------------------
(* What the documentation says and the code does not do *)

\* contracts/policy_contract.py:4-6, "A policy is a predicate {field, operator,
\* value}; an agent's policy set is N predicates, all AND-ed".
MintsOnlyIfAllHold ==
  last.outcome = "checked" /\ last.minted =>
    \A i \in DOMAIN last.policies : Meets(last.decision, last.policies[i])

\* algorand/contract_client_v2.py:316, "Mode-1 numeric rule i -> values_num[i] is the
\* decision's field value": the verdict on a number that was reported is the verdict
\* on that number, so that a rate of 24.9 is not <= 24.
VerdictIsOnTheReport ==
  last.outcome = "checked" =>
    \A i \in DOMAIN last.tokens :
       LET p == last.policies[i]
       IN  p.doc.field \in NumFields /\ ~p.private /\ last.decision[p.doc.field] # None =>
             (last.tokens[i].pass <=> Meets(last.decision, p))
=============================================================================
