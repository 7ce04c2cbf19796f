------------------------- MODULE PolicyEngineProofs -------------------------
(***************************************************************************)
(* For any agents, policies, decisions and word size: the safety           *)
(* properties of PolicyEngine.  The lemmas about numbers and boxes come    *)
(* first, then one lemma per part of IndInv, then the theorems.            *)
(***************************************************************************)
EXTENDS PolicyEngine, FiniteSetTheorems, TLAPS

\* No operator is both a comparison and a membership test.
LEMMA OperatorKinds == \A op \in SetOps : op \notin NumericOps
  BY DEF NumericOps, SetOps, OP_LT, OP_LE, OP_GT, OP_GE, OP_EQ, OP_NE, OP_IN, OP_NOT_IN

\* The integer part of any number is an integer.
LEMMA IntOfType == \A val \in Int : IntOf(val) \in Int
  BY BoundAssumption DEF IntOf

\* The integer part of a whole number is that number.
LEMMA WholeIsExact ==
  ASSUME NEW val \in Int, Whole(val)
  PROVE  val = IntOf(val) * Scale
<1> DEFINE q == val \div Scale
           r == (-val) \div Scale
<1>1. Scale \in Nat \ {0}
  BY BoundAssumption
<1>2. q \in Int /\ r \in Int
  BY <1>1
<1>3. val = Scale * q
  BY <1>1 DEF Whole
<1>4. -val = Scale * r + ((-val) % Scale) /\ (-val) % Scale \in 0..Scale - 1
  BY <1>1
<1>5. -val = Scale * (-q)
  BY <1>1, <1>2, <1>3
<1>6. (-val) % Scale = Scale * (-q - r)
  BY <1>1, <1>2, <1>4, <1>5
<1>7. -q - r = 0
  <2>1. -q - r \in Int
    BY <1>2
  <2>2. \A x \in Int, n \in Nat \ {0} : n * x \in 0..n - 1 => x = 0
    <3> SUFFICES ASSUME NEW x \in Int, NEW n \in Nat \ {0}, n * x \in 0..n - 1 PROVE x = 0
      OBVIOUS
    <3>1. CASE x >= 1
      BY <3>1
    <3>2. CASE x <= -1
      BY <3>2
    <3> QED
      BY <3>1, <3>2
  <2> HIDE DEF q, r
  <2> QED
    BY <1>1, <1>4, <1>6, <2>1, <2>2
<1> QED
  BY <1>1, <1>2, <1>3, <1>5, <1>7 DEF IntOf

\* So a comparison with a threshold comes out the same for both.
LEMMA CutKeepsOrder ==
  ASSUME NEW val \in Int, NEW num \in Int, Whole(val)
  PROVE  /\ IntOf(val) < num <=> val < num * Scale
         /\ IntOf(val) <= num <=> val <= num * Scale
         /\ IntOf(val) > num <=> val > num * Scale
         /\ IntOf(val) >= num <=> val >= num * Scale
         /\ IntOf(val) = num <=> val = num * Scale
<1>1. IntOf(val) \in Int /\ val = IntOf(val) * Scale /\ Scale \in Nat \ {0}
  BY IntOfType, WholeIsExact, BoundAssumption
<1>2. \A x, y \in Int, s \in Nat \ {0} : x < y => x * s < y * s
  OBVIOUS
<1> HIDE DEF IntOf
<1> QED
  BY <1>1, <1>2

-----------------------------------------------------------------------------
(* What an audit computes *)

\* What the invariant says of one agent's policies.
LEMMA PolicyFacts ==
  ASSUME IndInv, NEW agent \in Agents
  PROVE  /\ declared[agent] \in Seq(Policy)
         /\ DOMAIN declared[agent] = 1..Len(declared[agent])
         /\ DOMAIN tenant_rules[agent] = DOMAIN declared[agent]
         /\ DOMAIN agent_rules[agent] = DOMAIN declared[agent]
         /\ Len(tenant_rules[agent]) = Len(declared[agent])
         /\ Len(agent_rules[agent]) = Len(declared[agent])
         /\ \A i \in DOMAIN declared[agent] :
              LET p == declared[agent][i]
              IN  /\ p \in Policy
                  /\ p.doc.op \in NumericOps <=> p.doc.field \in NumFields
                  /\ ~p.private => p.doc.num \in Word
                  /\ tenant_rules[agent][i] = ChainRule(p)
                  /\ agent_rules[agent][i] = StoredRule(p)
<1> DEFINE Rule == [mode : {MODE_ONCHAIN, MODE_ATTESTED}, op : 0..8, num : Word,
                    field : Fields, commitment : Doc \cup {Empty}]
<1>0. /\ declared \in [Agents -> Seq(Policy)]
      /\ tenant_rules \in [Agents -> Seq(Rule)]
      /\ agent_rules \in [Agents -> Seq([chain : Rule, doc_cipher : Doc \cup {Empty}])]
  BY Zenon DEF IndInv, TypeOK
<1> HIDE DEF Rule
<1>1. /\ declared[agent] \in Seq(Policy)
      /\ tenant_rules[agent] \in Seq(Rule)
      /\ agent_rules[agent] \in Seq([chain : Rule, doc_cipher : Doc \cup {Empty}])
  BY <1>0
<1>2. /\ tenant_rules[agent] = [i \in DOMAIN declared[agent] |-> ChainRule(declared[agent][i])]
      /\ agent_rules[agent] = [i \in DOMAIN declared[agent] |-> StoredRule(declared[agent][i])]
  BY DEF IndInv, RulesAreMirrored
<1>3. \A i \in DOMAIN declared[agent] : declared[agent][i] \in Policy
  BY <1>1
<1>4. /\ DOMAIN declared[agent] = 1..Len(declared[agent])
      /\ DOMAIN tenant_rules[agent] = 1..Len(tenant_rules[agent])
      /\ DOMAIN agent_rules[agent] = 1..Len(agent_rules[agent])
      /\ Len(declared[agent]) \in Nat /\ Len(tenant_rules[agent]) \in Nat
      /\ Len(agent_rules[agent]) \in Nat
  BY <1>1
<1>5. /\ DOMAIN tenant_rules[agent] = DOMAIN declared[agent]
      /\ DOMAIN agent_rules[agent] = DOMAIN declared[agent]
  BY <1>2
<1>6. /\ Len(tenant_rules[agent]) = Len(declared[agent])
      /\ Len(agent_rules[agent]) = Len(declared[agent])
  BY <1>4, <1>5
<1> QED
  BY <1>1, <1>2, <1>3, <1>4, <1>5, <1>6 DEF IndInv, DeclaredAreLegal

\* The backend's mirror of a rule tells what the org declared.
LEMMA StoredRuleFacts ==
  ASSUME NEW p \in Policy
  PROVE  /\ StoredRule(p).chain = ChainRule(p)
         /\ ChainRule(p).field = p.doc.field
         /\ p.private => StoredRule(p).doc_cipher = p.doc
         /\ ChainRule(p).mode = MODE_ATTESTED <=> p.private
         /\ ~p.private => ChainRule(p).op = p.doc.op /\ ChainRule(p).num = p.doc.num
  BY DEF StoredRule, ChainRule, Policy, MODE_ATTESTED, MODE_ONCHAIN

\* What is sent for one policy.
LEMMA ArgFacts ==
  ASSUME IndInv, NEW agent \in Agents, NEW decision
  PROVE  LET args == BuildCheckArgs(agent, decision)
         IN  /\ DOMAIN args = DOMAIN declared[agent]
             /\ args \in Seq({args[i] : i \in DOMAIN args})
             /\ Len(args) = Len(declared[agent])
             /\ \A i \in DOMAIN declared[agent] :
                  LET p   == declared[agent][i]
                      val == decision[p.doc.field]
                  IN  /\ args[i].num = IF p.private \/ PublicSet(p) \/ val = None
                                       THEN 0 ELSE IntOf(val)
                      /\ args[i].str = IF PublicSet(p) /\ val # None THEN val ELSE Empty
                      /\ args[i].attested <=> p.private /\ val # None /\ EvalDoc(p.doc, val)
<1> DEFINE args == BuildCheckArgs(agent, decision)
<1>1. args = [i \in DOMAIN declared[agent] |->
                CheckArg(agent_rules[agent][i], decision[agent_rules[agent][i].chain.field])]
  BY PolicyFacts DEF BuildCheckArgs
<1>2. ASSUME NEW i \in DOMAIN declared[agent]
      PROVE  args[i] = CheckArg(StoredRule(declared[agent][i]),
                                decision[declared[agent][i].doc.field])
  <2>1. declared[agent][i] \in Policy /\ agent_rules[agent][i] = StoredRule(declared[agent][i])
    BY PolicyFacts
  <2> QED
    BY <1>1, <2>1, StoredRuleFacts
<1>3. DOMAIN args = 1..Len(declared[agent]) /\ Len(declared[agent]) \in Nat
  BY <1>1, PolicyFacts
<1>4. args \in Seq({args[i] : i \in DOMAIN args}) /\ Len(args) = Len(declared[agent])
  BY <1>1, <1>3
<1>5. ASSUME NEW i \in DOMAIN declared[agent]
      PROVE  LET p   == declared[agent][i]
                 val == decision[p.doc.field]
             IN  /\ args[i].num = IF p.private \/ PublicSet(p) \/ val = None THEN 0 ELSE IntOf(val)
                 /\ args[i].str = IF PublicSet(p) /\ val # None THEN val ELSE Empty
                 /\ args[i].attested <=> p.private /\ val # None /\ EvalDoc(p.doc, val)
  <2> DEFINE p   == declared[agent][i]
             val == decision[p.doc.field]
  <2>1. args[i] = CheckArg(StoredRule(p), val)
    BY <1>2
  <2>2. p \in Policy /\ p.private \in BOOLEAN
    BY PolicyFacts DEF Policy
  <2> HIDE DEF p, val, args
  <2>3. /\ StoredRule(p).chain.mode = MODE_ATTESTED <=> p.private
        /\ p.private => StoredRule(p).doc_cipher = p.doc
        /\ ~p.private => StoredRule(p).chain.op = p.doc.op
    BY <2>2, StoredRuleFacts
  <2>4. args[i].num = IF p.private \/ PublicSet(p) \/ val = None THEN 0 ELSE IntOf(val)
    BY <2>1, <2>2, <2>3 DEF CheckArg, PublicSet
  <2>5. args[i].str = IF PublicSet(p) /\ val # None THEN val ELSE Empty
    BY <2>1, <2>2, <2>3 DEF CheckArg, PublicSet
  <2>6. args[i].attested <=> p.private /\ val # None /\ EvalDoc(p.doc, val)
    <3>1. args[i].attested <=> /\ StoredRule(p).chain.mode = MODE_ATTESTED
                               /\ EvaluateSensitive(StoredRule(p), val)
      <4>1. \A x, y, z : [num |-> x, str |-> y, attested |-> z].attested = z
        OBVIOUS
      <4>2. CheckArg(StoredRule(p), val).attested
              = (/\ StoredRule(p).chain.mode = MODE_ATTESTED
                 /\ EvaluateSensitive(StoredRule(p), val))
        BY Zenon, <4>1 DEF CheckArg
      <4> QED
        BY Zenon, <2>1, <4>2
    <3>2. EvaluateSensitive(StoredRule(p), val) <=> val # None /\ EvalDoc(StoredRule(p).doc_cipher, val)
      BY DEF EvaluateSensitive
    <3>3. CASE p.private
      <4>1. EvaluateSensitive(StoredRule(p), val) <=> val # None /\ EvalDoc(p.doc, val)
        BY <2>3, <3>2, <3>3
      <4> QED
        BY <2>3, <3>1, <3>3, <4>1
    <3>4. CASE ~p.private
      BY <2>3, <3>1, <3>4
    <3> QED
      BY <3>3, <3>4
  <2> QED
    BY <2>4, <2>5, <2>6 DEF p, val
<1>6. DOMAIN args = DOMAIN declared[agent]
  BY <1>1
<1> QED
  BY <1>4, <1>5, <1>6

\* Evaluating a document on a whole number, or a string, says whether the policy holds.
LEMMA DocVerdict ==
  ASSUME NEW p \in Policy, NEW decision,
         p.doc.op \in NumericOps <=> p.doc.field \in NumFields,
         decision[p.doc.field] # None,
         p.doc.field \in NumFields => Whole(decision[p.doc.field])
  PROVE  EvalDoc(p.doc, decision[p.doc.field]) <=> Meets(decision, p)
<1> DEFINE val == decision[p.doc.field]
<1>1. /\ p.doc.op \in NumericOps \cup SetOps /\ p.doc.field \in Fields /\ p.doc.num \in Int
  BY DEF Policy, Doc
<1> HIDE DEF val
<1>3. CASE p.doc.op \in NumericOps
  <2>1. val \in Int /\ Whole(val) /\ p.doc.op \notin SetOps
    BY <1>3, OperatorKinds DEF val, Whole
  <2>2. EvalDoc(p.doc, val) <=> EvalNumeric(p.doc.op, IntOf(val), p.doc.num)
    BY <2>1 DEF EvalDoc
  <2>3. /\ IntOf(val) < p.doc.num <=> val < p.doc.num * Scale
        /\ IntOf(val) <= p.doc.num <=> val <= p.doc.num * Scale
        /\ IntOf(val) > p.doc.num <=> val > p.doc.num * Scale
        /\ IntOf(val) >= p.doc.num <=> val >= p.doc.num * Scale
        /\ IntOf(val) = p.doc.num <=> val = p.doc.num * Scale
    BY <1>1, <2>1, CutKeepsOrder
  <2> USE DEF OP_LT, OP_LE, OP_GT, OP_GE, OP_EQ, OP_NE, OP_IN, OP_NOT_IN
  <2> DEFINE t == p.doc.num * Scale
  <2> HIDE DEF t
  <2>4. CASE p.doc.op = OP_LT
    <3>1. Meets(decision, p) <=> val # None /\ val < t
      BY <1>3, <2>1, <2>4 DEF Meets, val, t
    <3>2. EvalNumeric(p.doc.op, IntOf(val), p.doc.num) <=> IntOf(val) < p.doc.num
      BY <2>4 DEF EvalNumeric
    <3> QED
      BY <2>2, <2>3, <3>1, <3>2 DEF val, t
  <2>5. CASE p.doc.op = OP_LE
    <3>1. Meets(decision, p) <=> val # None /\ val <= t
      BY <1>3, <2>1, <2>5 DEF Meets, val, t
    <3>2. EvalNumeric(p.doc.op, IntOf(val), p.doc.num) <=> IntOf(val) <= p.doc.num
      BY <2>5 DEF EvalNumeric
    <3> QED
      BY <2>2, <2>3, <3>1, <3>2 DEF val, t
  <2>6. CASE p.doc.op = OP_GT
    <3>1. Meets(decision, p) <=> val # None /\ val > t
      BY <1>3, <2>1, <2>6 DEF Meets, val, t
    <3>2. EvalNumeric(p.doc.op, IntOf(val), p.doc.num) <=> IntOf(val) > p.doc.num
      BY <2>6 DEF EvalNumeric
    <3> QED
      BY <2>2, <2>3, <3>1, <3>2 DEF val, t
  <2>7. CASE p.doc.op = OP_GE
    <3>1. Meets(decision, p) <=> val # None /\ val >= t
      BY <1>3, <2>1, <2>7 DEF Meets, val, t
    <3>2. EvalNumeric(p.doc.op, IntOf(val), p.doc.num) <=> IntOf(val) >= p.doc.num
      BY <2>7 DEF EvalNumeric
    <3> QED
      BY <2>2, <2>3, <3>1, <3>2 DEF val, t
  <2>8. CASE p.doc.op = OP_EQ
    <3>1. Meets(decision, p) <=> val # None /\ val = t
      BY <1>3, <2>1, <2>8 DEF Meets, val, t
    <3>2. EvalNumeric(p.doc.op, IntOf(val), p.doc.num) <=> IntOf(val) = p.doc.num
      BY <2>8 DEF EvalNumeric
    <3> QED
      BY <2>2, <2>3, <3>1, <3>2 DEF val, t
  <2>9. CASE p.doc.op = OP_NE
    <3>1. Meets(decision, p) <=> val # None /\ val # t
      BY <1>3, <2>1, <2>9 DEF Meets, val, t
    <3>2. EvalNumeric(p.doc.op, IntOf(val), p.doc.num) <=> IntOf(val) # p.doc.num
      BY <2>9 DEF EvalNumeric
    <3> QED
      BY <2>2, <2>3, <3>1, <3>2 DEF val, t
  <2> QED
    BY <1>3, <2>4, <2>5, <2>6, <2>7, <2>8, <2>9 DEF NumericOps
<1>4. CASE p.doc.op \in SetOps
  <2>1. /\ EvalDoc(p.doc, val) <=> EvalMember(p.doc.op, val \in p.doc.members)
        /\ p.doc.op \notin NumericOps
    BY <1>4, OperatorKinds DEF EvalDoc
  <2> USE DEF OP_LT, OP_LE, OP_GT, OP_GE, OP_EQ, OP_NE, OP_IN, OP_NOT_IN
  <2>2. CASE p.doc.op = OP_IN
    <3>1. Meets(decision, p) <=> val # None /\ val \in p.doc.members
      BY <2>1, <2>2 DEF Meets, val
    <3> QED
      BY <2>1, <2>2, <3>1 DEF val, EvalMember
  <2>3. CASE p.doc.op = OP_NOT_IN
    <3>1. Meets(decision, p) <=> val # None /\ val \notin p.doc.members
      BY <2>1, <2>3 DEF Meets, val
    <3> QED
      BY <2>1, <2>3, <3>1 DEF val, EvalMember
  <2> QED
    BY <1>4, <2>2, <2>3 DEF SetOps
<1> QED
  BY <1>1, <1>3, <1>4 DEF val

\* The box of a value exists exactly when the list of the policy has it, unless another
\* list of the agent on the same field shares the boxes.
LEMMA OwnList ==
  ASSUME IndInv, NEW agent \in Agents, NEW i \in DOMAIN declared[agent], NEW v,
         PublicSet(declared[agent][i]), ~SharesSet(declared[agent], i)
  PROVE  <<agent, declared[agent][i].doc.field, v>> \in sets <=> v \in declared[agent][i].doc.members
<1>1. /\ declared[agent][i].doc.field \in Fields
      /\ declared[agent][i].doc.members \subseteq Values
  BY PolicyFacts DEF Policy, Doc
<1>2. CASE v \in Values
  <2>1. <<agent, declared[agent][i].doc.field, v>> \in sets <=>
          \E j \in DOMAIN declared[agent] :
            /\ PublicSet(declared[agent][j])
            /\ declared[agent][j].doc.field = declared[agent][i].doc.field
            /\ v \in declared[agent][j].doc.members
    BY <1>1, <1>2 DEF IndInv, BoxesAreListed
  <2> QED
    BY <2>1 DEF SharesSet
<1>3. CASE v \notin Values
  <2>1. sets \subseteq Agents \X Fields \X Values
    BY Zenon DEF IndInv, TypeOK
  <2> QED
    BY <1>1, <1>3, <2>1
<1> QED
  BY <1>2, <1>3

\* The token of a policy the org may read is the truth about it.
LEMMA TokenVerdict ==
  ASSUME IndInv, NEW agent \in Agents, NEW decision,
         NEW i \in DOMAIN declared[agent]
  PROVE  LET p     == declared[agent][i]
             val   == decision[p.doc.field]
             token == ResultTokens(agent, BuildCheckArgs(agent, decision))[i]
         IN  /\ token.layer = "attested" <=> p.private
             /\ /\ p.doc.field \in NumFields /\ val # None => Whole(val)
                /\ p.private \/ (val # None /\ ~SharesSet(declared[agent], i))
                => (token.pass <=> Meets(decision, p))
<1> DEFINE p     == declared[agent][i]
           val   == decision[p.doc.field]
           args  == BuildCheckArgs(agent, decision)
           token == ResultTokens(agent, args)[i]
<1>1. /\ p \in Policy /\ p.private \in BOOLEAN /\ p.doc.field \in Fields
      /\ p.doc.op \in NumericOps \cup SetOps
      /\ p.doc.op \in NumericOps <=> p.doc.field \in NumFields
      /\ tenant_rules[agent][i] = ChainRule(p) /\ i \in DOMAIN tenant_rules[agent]
  BY PolicyFacts DEF Policy, Doc
<1>2. /\ args[i].num = IF p.private \/ PublicSet(p) \/ val = None THEN 0 ELSE IntOf(val)
      /\ args[i].str = IF PublicSet(p) /\ val # None THEN val ELSE Empty
      /\ args[i].attested <=> p.private /\ val # None /\ EvalDoc(p.doc, val)
  BY ArgFacts
<1>3. /\ ChainRule(p).field = p.doc.field
      /\ ChainRule(p).mode = MODE_ATTESTED <=> p.private
      /\ ~p.private => ChainRule(p).op = p.doc.op /\ ChainRule(p).num = p.doc.num
  BY <1>1, StoredRuleFacts
<1>4. /\ token.pass <=> Passes(agent, i, args)
      /\ token.layer = IF ChainRule(p).mode = MODE_ATTESTED THEN "attested" ELSE "onchain"
  <2>1. \A x, y : [pass |-> x, layer |-> y].pass = x /\ [pass |-> x, layer |-> y].layer = y
    OBVIOUS
  <2>2. token = [pass  |-> Passes(agent, i, args),
                 layer |-> IF tenant_rules[agent][i].mode = MODE_ATTESTED THEN "attested"
                           ELSE "onchain"]
    BY <1>1 DEF ResultTokens
  <2>3. token.pass = Passes(agent, i, args)
    BY Zenon, <2>1, <2>2
  <2>4. token.layer = IF ChainRule(p).mode = MODE_ATTESTED THEN "attested" ELSE "onchain"
    <3>1. token.layer = IF tenant_rules[agent][i].mode = MODE_ATTESTED THEN "attested"
                        ELSE "onchain"
      BY Zenon, <2>1, <2>2
    <3> QED
      BY <1>1, <3>1
  <2> QED
    BY Zenon, <2>3, <2>4
<1> HIDE DEF args, token
<1>5. ASSUME p.doc.field \in NumFields /\ val # None => Whole(val),
             p.private \/ (val # None /\ ~SharesSet(declared[agent], i))
      PROVE  Passes(agent, i, args) <=> Meets(decision, p)
  <2>1. CASE p.private
    <3>1. Passes(agent, i, args) <=> val # None /\ EvalDoc(p.doc, val)
      BY <1>1, <1>2, <1>3, <2>1 DEF Passes
    <3>2. CASE val = None
      BY <3>1, <3>2 DEF Meets
    <3>3. CASE val # None
      BY <1>1, <1>5, <3>1, <3>3, DocVerdict
    <3> QED
      BY <3>2, <3>3
  <2>2. CASE ~p.private /\ p.doc.op \in SetOps
    <3>0. val # None /\ PublicSet(p) /\ ~SharesSet(declared[agent], i)
      BY <1>5, <2>2 DEF PublicSet
    <3>2. Passes(agent, i, args) <=> EvalMember(p.doc.op, <<agent, p.doc.field, val>> \in sets)
      BY <1>1, <1>2, <1>3, <2>2, <3>0 DEF Passes
    <3>3. <<agent, p.doc.field, val>> \in sets <=> val \in p.doc.members
      BY <3>0, OwnList
    <3>4. EvalDoc(p.doc, val) <=> EvalMember(p.doc.op, val \in p.doc.members)
      BY <2>2 DEF EvalDoc
    <3>5. EvalDoc(p.doc, val) <=> Meets(decision, p)
      BY <1>1, <1>5, <3>0, DocVerdict
    <3> HIDE DEF p, val
    <3> QED
      BY <3>2, <3>3, <3>4, <3>5 DEF EvalMember
  <2>3. CASE ~p.private /\ p.doc.op \notin SetOps
    <3>1. val # None /\ ~PublicSet(p)
      BY <1>5, <2>3 DEF PublicSet
    <3>2. Passes(agent, i, args) <=> EvalNumeric(p.doc.op, IntOf(val), p.doc.num)
      BY <1>1, <1>2, <1>3, <2>3, <3>1 DEF Passes
    <3>3. EvalDoc(p.doc, val) <=> EvalNumeric(p.doc.op, IntOf(val), p.doc.num)
      BY <2>3 DEF EvalDoc
    <3>4. EvalDoc(p.doc, val) <=> Meets(decision, p)
      BY <1>1, <1>5, <3>1, DocVerdict
    <3> QED
      BY <3>2, <3>3, <3>4
  <2> QED
    BY <2>1, <2>2, <2>3
<1>6. token.layer = "attested" <=> p.private
  BY <1>3, <1>4
<1> QED
  BY <1>4, <1>5, <1>6 DEF token, args

-----------------------------------------------------------------------------
(* What an audit may be refused for *)

\* A report the backend cannot turn into a word is no number, or a number out of range
\* for a public policy.
LEMMA BadNumber ==
  ASSUME IndInv, NEW agent \in Agents, NEW decision,
         ~(Convertible(agent, decision) /\ Encodable(BuildCheckArgs(agent, decision)))
  PROVE  \E i \in DOMAIN declared[agent] :
           LET p   == declared[agent][i]
               val == decision[p.doc.field]
           IN  /\ p.doc.op \in NumericOps
               /\ val # None
               /\ val \notin Int \/ (~p.private /\ IntOf(val) \notin Word)
<1> DEFINE args == BuildCheckArgs(agent, decision)
<1>1. CASE ~Convertible(agent, decision)
  <2>1. PICK i \in DOMAIN agent_rules[agent] :
          LET rule == agent_rules[agent][i]
              op   == IF rule.chain.mode = MODE_ATTESTED THEN rule.doc_cipher.op ELSE rule.chain.op
          IN  /\ op \in NumericOps
              /\ decision[rule.chain.field] # None /\ decision[rule.chain.field] \notin Int
    BY <1>1 DEF Convertible
  <2>2. /\ i \in DOMAIN declared[agent] /\ declared[agent][i] \in Policy
        /\ agent_rules[agent][i] = StoredRule(declared[agent][i])
    BY PolicyFacts
  <2>3. /\ agent_rules[agent][i].chain.field = declared[agent][i].doc.field
        /\ declared[agent][i].doc.op = IF agent_rules[agent][i].chain.mode = MODE_ATTESTED
                                       THEN agent_rules[agent][i].doc_cipher.op
                                       ELSE agent_rules[agent][i].chain.op
    BY <2>2, StoredRuleFacts
  <2> QED
    BY <2>1, <2>2, <2>3
<1>2. CASE ~Encodable(args)
  <2>1. PICK i \in DOMAIN args : args[i].num \notin Word
    BY <1>2 DEF Encodable
  <2>2. i \in DOMAIN declared[agent]
    BY <2>1, ArgFacts
  <2>3. args[i].num = IF \/ declared[agent][i].private \/ PublicSet(declared[agent][i])
                         \/ decision[declared[agent][i].doc.field] = None
                      THEN 0 ELSE IntOf(decision[declared[agent][i].doc.field])
    BY <2>2, ArgFacts
  <2>4. 0 \in Word
    BY WordAssumption DEF Word
  <2>5. declared[agent][i].doc.op \in NumericOps \cup SetOps
    BY <2>2, PolicyFacts DEF Policy, Doc
  <2> QED
    BY <2>1, <2>2, <2>3, <2>4, <2>5 DEF PublicSet
<1> QED
  BY <1>1, <1>2

\* An agent has a finite number of public lists.
LEMMA ListCount ==
  ASSUME IndInv, NEW agent \in Agents
  PROVE  LET Lists == {i \in DOMAIN declared[agent] : PublicSet(declared[agent][i])}
         IN  IsFiniteSet(Lists) /\ Cardinality(Lists) \in Nat
<1>1. DOMAIN declared[agent] = 1..Len(declared[agent]) /\ Len(declared[agent]) \in Int
  <2>1. declared[agent] \in Seq(Policy)
    BY PolicyFacts
  <2> QED
    BY <2>1
<1>2. IsFiniteSet(DOMAIN declared[agent])
  BY <1>1, FS_Interval
<1>3. {i \in DOMAIN declared[agent] : PublicSet(declared[agent][i])} \subseteq DOMAIN declared[agent]
  OBVIOUS
<1> QED
  BY <1>2, <1>3, FS_Subset, FS_CardinalityType

\* When every public list has its value and the boxes fit in a transaction, the ones the
\* contract reads are referenced.
LEMMA BoxesAreThere ==
  ASSUME IndInv, NEW agent \in Agents, NEW decision,
         \A i \in DOMAIN declared[agent] :
           PublicSet(declared[agent][i]) => decision[declared[agent][i].doc.field] \notin {None, Empty},
         1 + Len(declared[agent])
           + Cardinality({i \in DOMAIN declared[agent] : PublicSet(declared[agent][i])}) <= MaxBoxRefs
  PROVE  LET args == BuildCheckArgs(agent, decision)
         IN  BoxesRead(agent, args) \subseteq Referenced(agent, args)
<1> DEFINE args     == BuildCheckArgs(agent, decision)
           n        == Len(declared[agent])
           Lists    == {i \in DOMAIN declared[agent] : PublicSet(declared[agent][i])}
           Named(i) == {j \in 1..i : args[j].str # Empty}
           Fits(b)  == \E k \in Nat : k <= MaxBoxRefs /\ <<k, b>> \in BoxList(agent, args)
<1>1. /\ DOMAIN args = 1..n /\ DOMAIN declared[agent] = 1..n /\ n \in Nat /\ Len(args) = n
      /\ DOMAIN tenant_rules[agent] = 1..n
  <2>1. declared[agent] \in Seq(Policy) /\ DOMAIN tenant_rules[agent] = DOMAIN declared[agent]
    BY PolicyFacts
  <2>2. DOMAIN args = DOMAIN declared[agent] /\ Len(args) = n
    BY ArgFacts
  <2> QED
    BY <2>1, <2>2
<1>2. \A i \in 1..n : args[i].str # Empty <=> i \in Lists
  <2> SUFFICES ASSUME NEW i \in 1..n PROVE args[i].str # Empty <=> i \in Lists
    OBVIOUS
  <2>1. args[i].str = IF PublicSet(declared[agent][i]) /\ decision[declared[agent][i].doc.field] # None
                      THEN decision[declared[agent][i].doc.field] ELSE Empty
    BY <1>1, ArgFacts
  <2> QED
    BY <1>1, <2>1
<1>3. /\ IsFiniteSet(Lists) /\ Cardinality(Lists) \in Nat
      /\ \A i \in 1..n : Cardinality(Named(i)) \in Nat /\ Cardinality(Named(i)) <= Cardinality(Lists)
  <2>1. IsFiniteSet(1..n)
    <3>1. 1 \in Int /\ n \in Int
      BY <1>1
    <3> QED
      BY <3>1, FS_Interval
  <2>2. Lists \subseteq 1..n /\ \A i \in 1..n : Named(i) \subseteq Lists
    BY <1>1, <1>2
  <2>3. IsFiniteSet(Lists)
    BY <2>1, <2>2, FS_Subset
  <2> QED
    BY <2>2, <2>3, FS_Subset, FS_CardinalityType
<1>4. MaxBoxRefs \in Nat /\ 1 + n + Cardinality(Lists) <= MaxBoxRefs
  BY BoundAssumption
<1>5. \A b : Fits(b) => b \in Referenced(agent, args)
  BY DEF Referenced
<1>6. Fits(CountBox(agent))
  <2>1. <<1, CountBox(agent)>> \in BoxList(agent, args)
    BY DEF BoxList
  <2> QED
    BY <1>1, <1>3, <1>4, <2>1
<1>7. \A i \in 1..n : Fits(RuleBox(agent, i))
  <2>1. \A i \in 1..n : <<1 + i, RuleBox(agent, i)>> \in BoxList(agent, args)
    BY <1>1 DEF BoxList
  <2> QED
    BY <1>1, <1>3, <1>4, <2>1
<1>8. ASSUME NEW i \in 1..n, tenant_rules[agent][i].mode = MODE_ONCHAIN, tenant_rules[agent][i].op \in SetOps
      PROVE  Fits(SetBox(agent, tenant_rules[agent][i].field, args[i].str))
  <2>1. /\ declared[agent][i] \in Policy
        /\ tenant_rules[agent][i] = ChainRule(declared[agent][i])
        /\ agent_rules[agent][i] = StoredRule(declared[agent][i])
    BY <1>1, PolicyFacts
  <2>2. i \in Lists
    BY <1>1, <1>8, <2>1, StoredRuleFacts DEF PublicSet, MODE_ONCHAIN, MODE_ATTESTED
  <2>3. agent_rules[agent][i].chain.field = tenant_rules[agent][i].field
    BY <2>1, StoredRuleFacts
  <2>4. i \in Named(n)
    BY <1>1, <1>2, <2>2
  <2>5. <<1 + n + Cardinality(Named(i)), SetBox(agent, tenant_rules[agent][i].field, args[i].str)>>
          \in BoxList(agent, args)
    BY <1>1, <2>3, <2>4 DEF BoxList
  <2>6. Cardinality(Named(i)) \in Nat /\ Cardinality(Named(i)) <= Cardinality(Lists)
    BY <1>3
  <2> HIDE DEF n, Lists, Named
  <2>7. /\ 1 + n + Cardinality(Named(i)) \in Nat
        /\ 1 + n + Cardinality(Named(i)) <= MaxBoxRefs
    <3>1. \A x, y \in Nat : x <= y /\ 1 + n + y <= MaxBoxRefs => 1 + n + x \in 0..MaxBoxRefs
      BY <1>1, <1>4
    <3>2. 1 + n + Cardinality(Named(i)) \in 0..MaxBoxRefs
      BY <1>3, <1>4, <2>6, <3>1
    <3> QED
      BY <1>4, <3>2
  <2> QED
    BY <2>5, <2>7
<1>9. \A b \in BoxesRead(agent, args) : Fits(b)
  BY <1>1, <1>6, <1>7, <1>8 DEF BoxesRead
<1> QED
  BY <1>5, <1>9

-----------------------------------------------------------------------------
(* The parts of the invariant, step by step *)

\* What registering a policy adds.
LEMMA RegisterFacts ==
  ASSUME IndInv, NEW agent \in Agents, NEW p \in Policies, Register(agent, p)
  PROVE  /\ p \in Policy
         /\ p.doc.op \in NumericOps <=> p.doc.field \in NumFields
         /\ ~p.private => p.doc.num \in Word
         /\ declared'[agent] = Append(declared[agent], p)
         /\ tenant_rules'[agent] = Append(tenant_rules[agent], ChainRule(p))
         /\ agent_rules'[agent] = Append(agent_rules[agent], StoredRule(p))
         /\ \A other \in Agents \ {agent} : /\ declared'[other] = declared[other]
                                            /\ tenant_rules'[other] = tenant_rules[other]
                                            /\ agent_rules'[other] = agent_rules[other]
<1> DEFINE Rule == [mode : {MODE_ONCHAIN, MODE_ATTESTED}, op : 0..8, num : Word,
                    field : Fields, commitment : Doc \cup {Empty}]
<1>0. /\ declared \in [Agents -> Seq(Policy)]
      /\ tenant_rules \in [Agents -> Seq(Rule)]
      /\ agent_rules \in [Agents -> Seq([chain : Rule, doc_cipher : Doc \cup {Empty}])]
  BY Zenon DEF IndInv, TypeOK
<1> HIDE DEF Rule
<1>1. /\ declared' = [declared EXCEPT ![agent] = Append(declared[agent], p)]
      /\ tenant_rules' = [tenant_rules EXCEPT ![agent] = Append(tenant_rules[agent], ChainRule(p))]
      /\ agent_rules' = [agent_rules EXCEPT ![agent] = Append(agent_rules[agent], StoredRule(p))]
      /\ ~p.private => p.doc.num \in Word
  BY DEF Register, RegisterRule
<1>2. p \in Policy /\ (p.doc.op \in NumericOps <=> p.doc.field \in NumFields)
  BY PolicyAssumption
<1> QED
  BY <1>0, <1>1, <1>2

\* What taking a value off the lists of a field leaves.
LEMMA UnlistFacts ==
  ASSUME IndInv, NEW agent \in Agents, NEW f \in Fields, NEW v \in Values, Unlist(agent, f, v)
  PROVE  /\ declared' \in [Agents -> Seq(Policy)]
         /\ DOMAIN declared'[agent] = DOMAIN declared[agent]
         /\ \A i \in DOMAIN declared[agent] :
              LET p == declared[agent][i]
                  q == declared'[agent][i]
              IN  /\ q.private = p.private /\ q.doc.field = p.doc.field
                  /\ q.doc.op = p.doc.op /\ q.doc.num = p.doc.num
                  /\ ChainRule(q) = ChainRule(p) /\ StoredRule(q) = StoredRule(p)
                  /\ PublicSet(q) <=> PublicSet(p)
                  /\ \A w : w \in q.doc.members <=>
                          w \in p.doc.members /\ ~(PublicSet(p) /\ p.doc.field = f /\ w = v)
         /\ \A other \in Agents \ {agent} : declared'[other] = declared[other]
<1> DEFINE Off(p) == IF ~p.private /\ p.doc.op \in SetOps /\ p.doc.field = f
                     THEN [p EXCEPT !.doc.members = p.doc.members \ {v}] ELSE p
<1>1. /\ declared \in [Agents -> Seq(Policy)]
      /\ declared[agent] \in Seq(Policy)
      /\ \A i \in DOMAIN declared[agent] : declared[agent][i] \in Policy
  BY DEF IndInv, TypeOK
<1>2. declared' = [declared EXCEPT ![agent] = [i \in DOMAIN declared[agent] |-> Off(declared[agent][i])]]
  BY DEF Unlist
<1>3. ASSUME NEW p \in Policy
      PROVE  LET q == Off(p)
             IN  /\ q \in Policy
                 /\ q.private = p.private /\ q.doc.field = p.doc.field
                 /\ q.doc.op = p.doc.op /\ q.doc.num = p.doc.num
                 /\ ChainRule(q) = ChainRule(p) /\ StoredRule(q) = StoredRule(p)
                 /\ PublicSet(q) <=> PublicSet(p)
                 /\ \A w : w \in q.doc.members <=>
                          w \in p.doc.members /\ ~(PublicSet(p) /\ p.doc.field = f /\ w = v)
  <2>1. CASE ~PublicSet(p) \/ p.doc.field # f
    <3>1. Off(p) = p
      BY <2>1 DEF PublicSet
    <3> HIDE DEF Off
    <3> QED
      BY <2>1, <3>1
  <2>2. CASE PublicSet(p) /\ p.doc.field = f
    <3> DEFINE q == [p EXCEPT !.doc.members = p.doc.members \ {v}]
    <3>1. Off(p) = q /\ ~p.private
      BY <2>2 DEF PublicSet
    <3>2. /\ q \in Policy /\ q.private = p.private /\ q.doc.field = p.doc.field
          /\ q.doc.op = p.doc.op /\ q.doc.num = p.doc.num /\ q.doc.members = p.doc.members \ {v}
      BY DEF Policy, Doc
    <3> HIDE DEF q, Off
    <3>3. ChainRule(q) = ChainRule(p) /\ StoredRule(q) = StoredRule(p)
      BY <3>1, <3>2 DEF ChainRule, StoredRule
    <3>4. PublicSet(q) <=> PublicSet(p)
      BY <3>2 DEF PublicSet
    <3> QED
      BY <2>2, <3>1, <3>2, <3>3, <3>4
  <2> QED
    BY <2>1, <2>2
<1> HIDE DEF Off
<1>4. /\ declared'[agent] = [i \in DOMAIN declared[agent] |-> Off(declared[agent][i])]
      /\ \A other \in Agents \ {agent} : declared'[other] = declared[other]
  BY <1>1, <1>2
<1>5. declared'[agent] \in Seq(Policy)
  <2>1. DOMAIN declared[agent] = 1..Len(declared[agent]) /\ Len(declared[agent]) \in Nat
    BY <1>1
  <2>2. \A i \in DOMAIN declared[agent] : Off(declared[agent][i]) \in Policy
    BY <1>1, <1>3
  <2> QED
    BY <1>4, <2>1, <2>2
<1>6. declared' \in [Agents -> Seq(Policy)]
  BY <1>1, <1>2, <1>4, <1>5
<1>7. ASSUME NEW i \in DOMAIN declared[agent]
      PROVE  declared[agent][i] \in Policy /\ declared'[agent][i] = Off(declared[agent][i])
  BY <1>1, <1>4
<1>8. DOMAIN declared'[agent] = DOMAIN declared[agent]
  BY <1>4
<1> QED
  <2>1. ASSUME NEW i \in DOMAIN declared[agent]
        PROVE
              LET p == declared[agent][i]
                  q == declared'[agent][i]
              IN  /\ q.private = p.private /\ q.doc.field = p.doc.field
                  /\ q.doc.op = p.doc.op /\ q.doc.num = p.doc.num
                  /\ ChainRule(q) = ChainRule(p) /\ StoredRule(q) = StoredRule(p)
                  /\ PublicSet(q) <=> PublicSet(p)
                  /\ \A w : w \in q.doc.members <=>
                          w \in p.doc.members /\ ~(PublicSet(p) /\ p.doc.field = f /\ w = v)
    <3>1. declared[agent][i] \in Policy
      BY <1>7
    <3>2. declared'[agent][i] = Off(declared[agent][i])
      BY <1>7
    <3>3. PICK q : q = declared'[agent][i]
      OBVIOUS
    <3>4. q = Off(declared[agent][i])
      BY Zenon, <3>2, <3>3
    <3>5. PICK p \in Policy : p = declared[agent][i]
      BY <3>1
    <3>6. q = Off(p)
      BY Zenon, <3>4, <3>5
    <3>7. /\ q.private = p.private /\ q.doc.field = p.doc.field
          /\ q.doc.op = p.doc.op /\ q.doc.num = p.doc.num
          /\ ChainRule(q) = ChainRule(p) /\ StoredRule(q) = StoredRule(p)
          /\ PublicSet(q) <=> PublicSet(p)
          /\ \A w : w \in q.doc.members <=>
                          w \in p.doc.members /\ ~(PublicSet(p) /\ p.doc.field = f /\ w = v)
      BY Zenon, <1>3, <3>6
    <3> QED
      BY Zenon, <3>3, <3>5, <3>7
  <2> QED
    BY Zenon, <1>4, <1>6, <1>8, <2>1

\* A rule on chain, and its mirror, are well formed.
LEMMA RuleTypes ==
  LET Rule == [mode : {MODE_ONCHAIN, MODE_ATTESTED}, op : 0..8, num : Word,
               field : Fields, commitment : Doc \cup {Empty}]
  IN  \A p \in Policy : (~p.private => p.doc.num \in Word) =>
        /\ ChainRule(p) \in Rule
        /\ StoredRule(p) \in [chain : Rule, doc_cipher : Doc \cup {Empty}]
<1> DEFINE Rule == [mode : {MODE_ONCHAIN, MODE_ATTESTED}, op : 0..8, num : Word,
                    field : Fields, commitment : Doc \cup {Empty}]
<1> SUFFICES ASSUME NEW p \in Policy, ~p.private => p.doc.num \in Word
             PROVE  /\ ChainRule(p) \in Rule
                    /\ StoredRule(p) \in [chain : Rule, doc_cipher : Doc \cup {Empty}]
  OBVIOUS
<1>1. /\ p.doc \in Doc /\ p.doc.field \in Fields /\ p.doc.op \in NumericOps \cup SetOps
  BY DEF Policy, Doc
<1>2. p.doc.op \in 0..8 /\ 0 \in Word
  BY <1>1, WordAssumption DEF NumericOps, SetOps, OP_LT, OP_LE, OP_GT, OP_GE, OP_EQ, OP_NE, OP_IN,
     OP_NOT_IN, Word
<1>3. ChainRule(p) \in Rule
  BY <1>1, <1>2 DEF ChainRule
<1> HIDE DEF Rule
<1>4. StoredRule(p) \in [chain : Rule, doc_cipher : Doc \cup {Empty}]
  BY <1>1, <1>3 DEF StoredRule
<1> QED
  BY <1>3, <1>4

\* A check of a decision is executed, answered or late.
Checks(agent, decision) ==
  LET args   == BuildCheckArgs(agent, decision)
      tokens == ResultTokens(agent, args)
  IN  /\ AllPass(tokens) => aacr > 0
      /\ CheckAndMint(agent, args)
      /\ \E outcome \in {"checked", "late"} :
           last' = Audited(agent, decision, outcome, tokens, AllPass(tokens))
      /\ UNCHANGED <<agent_rules, declared>>

\* A late call is executed only when its agent has the rules it was built from, so its
\* arguments are those an audit of its decision would now send.
LEMMA LateArgs ==
  ASSUME IndInv, NEW call \in pool, LateCheck(call)
  PROVE  call.agent \in Agents /\ call.args = BuildCheckArgs(call.agent, call.decision)
<1> DEFINE rules == agent_rules[call.agent]
           n     == Len(call.args)
<1>1. /\ call.agent \in Agents
      /\ call.args = [i \in 1..n |-> CheckArg(rules[i], call.decision[rules[i].chain.field])]
  BY DEF IndInv, CallsFitTheRules
<1>2. n = Len(tenant_rules[call.agent])
  BY DEF LateCheck, Accepts
<1>3. DOMAIN rules = 1..n
  BY <1>1, <1>2, PolicyFacts
<1> QED
  BY <1>1, <1>3 DEF BuildCheckArgs

LEMMA AnsweredIsChecked ==
  ASSUME NEW agent \in Agents, NEW d \in Decisions, AuditChecked(agent, d)
  PROVE  Checks(agent, d)
  BY DEF AuditChecked, Accepts, Checks

LEMMA LateIsChecked ==
  ASSUME IndInv, NEW call \in pool, LateCheck(call)
  PROVE  call.agent \in Agents /\ Checks(call.agent, call.decision)
<1>1. call.agent \in Agents /\ call.args = BuildCheckArgs(call.agent, call.decision)
  BY LateArgs
<1> QED
  BY <1>1 DEF LateCheck, Accepts, Checks

\* A check writes one token per rule and, when every token passes, takes one AACR, which
\* is there.
LEMMA CheckFacts ==
  ASSUME IndInv, NEW agent \in Agents, NEW decision, Checks(agent, decision)
  PROVE  LET Minted == AllPass(ResultTokens(agent, BuildCheckArgs(agent, decision)))
         IN  /\ aacr \in Int /\ aacr' \in 0..Supply
             /\ aacr' = IF Minted THEN aacr - 1 ELSE aacr
             /\ UNCHANGED <<tenant_rules, sets, agent_rules, declared>>
<1> DEFINE Minted == AllPass(ResultTokens(agent, BuildCheckArgs(agent, decision)))
<1>1. /\ Minted => aacr > 0
      /\ aacr' = IF Minted THEN aacr - 1 ELSE aacr
      /\ UNCHANGED <<tenant_rules, sets, agent_rules, declared>>
  BY DEF Checks, CheckAndMint
<1>2. aacr \in 0..Supply
  BY Zenon DEF IndInv, TypeOK
<1> HIDE DEF Minted
<1>3. aacr \in Int /\ aacr' \in 0..Supply
  BY <1>1, <1>2, WordAssumption
<1> QED
  BY <1>1, <1>3 DEF Minted

\* What is in the pool can be counted.
LEMMA PoolCount ==
  ASSUME IndInv
  PROVE  /\ IsFiniteSet(pool) /\ Cardinality(pool) \in Nat /\ faults \in Nat
         /\ \A call \in pool : /\ IsFiniteSet(pool \ {call})
                               /\ Cardinality(pool \ {call}) = Cardinality(pool) - 1
<1>1. IsFiniteSet(pool) /\ faults \in 0..MaxFaults
  BY Zenon DEF IndInv, TypeOK, CallsFitTheRules
<1> QED
  BY <1>1, FS_CardinalityType, FS_RemoveElement, BoundAssumption

\* A call that is given up on joins the pool under a number of its own.
LEMMA GivenUpFacts ==
  ASSUME IndInv, NEW agent \in Agents, NEW d \in Decisions, AuditUnconfirmed(agent, d)
  PROVE  /\ faults' = faults + 1 /\ faults' \in 1..MaxFaults
         /\ IsFiniteSet(pool') /\ Cardinality(pool') = Cardinality(pool) + 1
         /\ \A call \in pool' : call \in pool \/
              /\ call.id = faults' /\ call.agent = agent
              /\ call.decision = d /\ call.args = BuildCheckArgs(agent, d)
         /\ last'.outcome = "unconfirmed"
         /\ UNCHANGED <<contract, agent_rules, declared, reported>>
<1> DEFINE call == [id |-> faults', agent |-> agent, decision |-> d, args |-> BuildCheckArgs(agent, d),
                    boxes |-> Referenced(agent, BuildCheckArgs(agent, d))]
<1>1. faults' = faults + 1 /\ faults < MaxFaults /\ faults \in 0..MaxFaults /\ MaxFaults \in Nat
  <2>1. faults \in 0..MaxFaults
    BY Zenon DEF IndInv, TypeOK
  <2> QED
    BY <2>1, BoundAssumption DEF AuditUnconfirmed
<1>2. pool' = pool \cup {call}
  BY DEF AuditUnconfirmed
<1>3. /\ call.id = faults' /\ call.agent = agent /\ call.decision = d
      /\ call.args = BuildCheckArgs(agent, d)
  OBVIOUS
<1> HIDE DEF call
<1>4. call \notin pool
  <2>1. \A c \in pool : c.id \in 1..faults
    BY DEF IndInv, CallsFitTheRules
  <2> QED
    BY <1>1, <1>3, <2>1
<1>5. IsFiniteSet(pool') /\ Cardinality(pool') = Cardinality(pool) + 1
  BY <1>2, <1>4, PoolCount, FS_AddElement
<1>6. last'.outcome = "unconfirmed" /\ UNCHANGED <<contract, agent_rules, declared, reported>>
  BY DEF AuditUnconfirmed, Audited
<1>7. faults' \in 1..MaxFaults
  BY <1>1
<1> QED
  BY <1>1, <1>2, <1>3, <1>5, <1>6, <1>7

\* An answered audit that minted is reported, and the AACR it takes is one not yet reported.
LEMMA AnsweredReport ==
  ASSUME IndInv, NEW agent \in Agents, NEW d \in Decisions, AuditChecked(agent, d)
  PROVE  reported' \in 0..Supply /\ aacr' + reported' = aacr + reported
<1> DEFINE Minted == AllPass(ResultTokens(agent, BuildCheckArgs(agent, d)))
<1>1. /\ Minted => aacr > 0
      /\ aacr' = IF Minted THEN aacr - 1 ELSE aacr
      /\ reported' = IF Minted THEN reported + 1 ELSE reported
  BY DEF AuditChecked, Accepts, CheckAndMint
<1> HIDE DEF Minted
<1>2. aacr \in 0..Supply /\ reported \in 0..Supply
  BY Zenon DEF IndInv, TypeOK
<1>3. Supply - aacr - reported >= 0
  BY PoolCount DEF IndInv, ReportsWhatWasMinted
<1> QED
  BY <1>1, <1>2, <1>3, WordAssumption

\* Only registration and removals touch the rules, their mirror, the lists and the boxes.
LEMMA AuditsKeepRules ==
  ASSUME IndInv, [Next]_vars
  PROVE  \/ \E agent \in Agents :
              \/ \E p \in Policies : Register(agent, p)
              \/ \E f \in Fields, v \in Values : Unlist(agent, f, v)
         \/ UNCHANGED <<tenant_rules, sets, agent_rules, declared>>
<1>1. ASSUME \/ \E agent \in Agents, d \in Decisions :
                  AuditChecked(agent, d) \/ AuditFails(agent, d) \/ AuditUnconfirmed(agent, d)
             \/ \E call \in pool : LateCheck(call) \/ CallDropped(call)
             \/ UNCHANGED vars
      PROVE  UNCHANGED <<tenant_rules, sets, agent_rules, declared>>
  BY <1>1 DEF AuditChecked, AuditFails, AuditUnconfirmed, LateCheck, CallDropped, CheckAndMint,
     vars, contract
<1> QED
  BY <1>1 DEF Next

\* Every step keeps the types.
LEMMA TypeStep == IndInv /\ [Next]_vars => TypeOK'
<1> DEFINE Rule   == [mode : {MODE_ONCHAIN, MODE_ATTESTED}, op : 0..8, num : Word,
                      field : Fields, commitment : Doc \cup {Empty}]
           Stored == [chain : Rule, doc_cipher : Doc \cup {Empty}]
<1> SUFFICES ASSUME IndInv, [Next]_vars PROVE TypeOK'
  OBVIOUS
<1>t. /\ tenant_rules \in [Agents -> Seq(Rule)]
      /\ agent_rules \in [Agents -> Seq(Stored)]
      /\ declared \in [Agents -> Seq(Policy)]
      /\ sets \subseteq Agents \X Fields \X Values
      /\ aacr \in 0..Supply /\ reported \in 0..Supply /\ faults \in 0..MaxFaults
  BY Zenon DEF IndInv, TypeOK
<1>g. ASSUME tenant_rules' \in [Agents -> Seq(Rule)],
             agent_rules' \in [Agents -> Seq(Stored)],
             declared' \in [Agents -> Seq(Policy)],
             sets' \subseteq Agents \X Fields \X Values,
             aacr' \in 0..Supply, reported' \in 0..Supply, faults' \in 0..MaxFaults
      PROVE  TypeOK'
  BY Zenon, <1>g DEF TypeOK
<1>r. \A p \in Policy : (~p.private => p.doc.num \in Word) => ChainRule(p) \in Rule /\ StoredRule(p) \in Stored
  BY Zenon, RuleTypes
<1> HIDE DEF Rule, Stored
<1>1. ASSUME NEW agent \in Agents, NEW p \in Policies, Register(agent, p)
      PROVE  TypeOK'
  <2>1. p \in Policy /\ ChainRule(p) \in Rule /\ StoredRule(p) \in Stored
    BY <1>1, <1>r, RegisterFacts
  <2>2. /\ Append(tenant_rules[agent], ChainRule(p)) \in Seq(Rule)
        /\ Append(agent_rules[agent], StoredRule(p)) \in Seq(Stored)
        /\ Append(declared[agent], p) \in Seq(Policy)
    BY <1>t, <2>1
  <2>3. /\ tenant_rules' = [tenant_rules EXCEPT ![agent] = Append(tenant_rules[agent], ChainRule(p))]
        /\ agent_rules' = [agent_rules EXCEPT ![agent] = Append(agent_rules[agent], StoredRule(p))]
        /\ declared' = [declared EXCEPT ![agent] = Append(declared[agent], p)]
        /\ UNCHANGED <<aacr, reported, faults>>
    BY <1>1 DEF Register, RegisterRule, calls
  <2>4. sets' \subseteq Agents \X Fields \X Values
    BY <1>t, <1>1, <2>1 DEF Register, AddToSet, Policy, Doc
  <2> QED
    BY <1>g, <1>t, <2>2, <2>3, <2>4
<1>2. ASSUME NEW agent \in Agents, NEW f \in Fields, NEW v \in Values, Unlist(agent, f, v)
      PROVE  TypeOK'
  <2>1. sets' \subseteq sets /\ UNCHANGED <<tenant_rules, aacr, agent_rules, reported, faults>>
    BY <1>2 DEF Unlist, RemoveFromSet, calls
  <2> QED
    BY <1>g, <1>t, <1>2, <2>1, UnlistFacts
<1>3. ASSUME NEW agent \in Agents, NEW d \in Decisions, AuditChecked(agent, d)
      PROVE  TypeOK'
  <2>1. aacr' \in 0..Supply /\ UNCHANGED <<tenant_rules, sets, agent_rules, declared, faults>>
    BY <1>3, AnsweredIsChecked, CheckFacts DEF AuditChecked, calls
  <2>2. reported' \in 0..Supply
    BY <1>3, AnsweredReport
  <2> QED
    BY <1>g, <1>t, <2>1, <2>2
<1>4. ASSUME NEW call \in pool, LateCheck(call)
      PROVE  TypeOK'
  <2>1. aacr' \in 0..Supply /\ UNCHANGED <<tenant_rules, sets, agent_rules, declared, faults, reported>>
    BY <1>4, LateIsChecked, CheckFacts DEF LateCheck
  <2> QED
    BY <1>g, <1>t, <2>1
<1>5. ASSUME NEW agent \in Agents, NEW d \in Decisions, AuditUnconfirmed(agent, d)
      PROVE  TypeOK'
  <2>1. faults' \in 0..MaxFaults /\ UNCHANGED <<contract, agent_rules, declared, reported>>
    BY <1>5, GivenUpFacts
  <2> QED
    BY <1>g, <1>t, <2>1 DEF contract
<1>6. ASSUME \/ \E agent \in Agents, d \in Decisions : AuditFails(agent, d)
             \/ \E call \in pool : CallDropped(call)
             \/ UNCHANGED vars
      PROVE  TypeOK'
  <2>1. UNCHANGED <<tenant_rules, sets, aacr, agent_rules, declared, reported, faults>>
    BY <1>6 DEF AuditFails, CallDropped, vars, contract, calls
  <2> QED
    BY <1>g, <1>t, <2>1
<1> QED
  BY <1>1, <1>2, <1>3, <1>4, <1>5, <1>6 DEF Next

\* What an org declared stays legal, and registration checks the threshold.
LEMMA LegalStep == IndInv /\ [Next]_vars => DeclaredAreLegal'
<1> SUFFICES ASSUME IndInv, [Next]_vars PROVE DeclaredAreLegal'
  OBVIOUS
<1>t. DeclaredAreLegal /\ \A agent \in Agents : declared[agent] \in Seq(Policy)
  BY DEF IndInv, TypeOK
<1>1. ASSUME NEW agent \in Agents, NEW p \in Policies, Register(agent, p)
      PROVE  DeclaredAreLegal'
  <2>1. \A i \in DOMAIN declared'[agent] : declared'[agent][i] = p \/
          (i \in DOMAIN declared[agent] /\ declared'[agent][i] = declared[agent][i])
    <3>1. declared'[agent] = Append(declared[agent], p) /\ declared[agent] \in Seq(Policy)
      BY <1>t, <1>1, RegisterFacts
    <3> QED
      BY <3>1
  <2>2. /\ p.doc.op \in NumericOps <=> p.doc.field \in NumFields
        /\ ~p.private => p.doc.num \in Word
        /\ \A other \in Agents \ {agent} : declared'[other] = declared[other]
    BY <1>1, RegisterFacts
  <2> QED
    BY <1>t, <2>1, <2>2 DEF DeclaredAreLegal
<1>2. ASSUME NEW agent \in Agents, NEW f \in Fields, NEW v \in Values, Unlist(agent, f, v)
      PROVE  DeclaredAreLegal'
  <2>1. /\ DOMAIN declared'[agent] = DOMAIN declared[agent]
        /\ \A i \in DOMAIN declared[agent] :
             /\ declared'[agent][i].private = declared[agent][i].private
             /\ declared'[agent][i].doc.field = declared[agent][i].doc.field
             /\ declared'[agent][i].doc.op = declared[agent][i].doc.op
             /\ declared'[agent][i].doc.num = declared[agent][i].doc.num
        /\ \A other \in Agents \ {agent} : declared'[other] = declared[other]
    BY <1>2, UnlistFacts
  <2> QED
    BY <1>t, <2>1 DEF DeclaredAreLegal
<1>3. ASSUME UNCHANGED declared
      PROVE  DeclaredAreLegal'
  BY <1>t, <1>3 DEF DeclaredAreLegal
<1> QED
  BY <1>1, <1>2, <1>3, AuditsKeepRules

\* The chain, the store and the declaration grow by the same policy; taking a value off a
\* list changes neither the rule nor its mirror.
LEMMA MirrorStep == IndInv /\ [Next]_vars => RulesAreMirrored'
<1> SUFFICES ASSUME IndInv, [Next]_vars PROVE RulesAreMirrored'
  OBVIOUS
<1>t. /\ RulesAreMirrored
      /\ \A agent \in Agents : declared[agent] \in Seq(Policy)
  BY DEF IndInv, TypeOK
<1>1. ASSUME NEW agent \in Agents, NEW p \in Policies, Register(agent, p)
      PROVE  RulesAreMirrored'
  <2>1. /\ declared'[agent] = Append(declared[agent], p)
        /\ tenant_rules'[agent] = Append(tenant_rules[agent], ChainRule(p))
        /\ agent_rules'[agent] = Append(agent_rules[agent], StoredRule(p))
        /\ \A other \in Agents \ {agent} : /\ declared'[other] = declared[other]
                                           /\ tenant_rules'[other] = tenant_rules[other]
                                           /\ agent_rules'[other] = agent_rules[other]
    BY <1>1, RegisterFacts
  <2>2. /\ declared[agent] \in Seq(Policy)
        /\ tenant_rules[agent] = [i \in DOMAIN declared[agent] |-> ChainRule(declared[agent][i])]
        /\ agent_rules[agent] = [i \in DOMAIN declared[agent] |-> StoredRule(declared[agent][i])]
    BY <1>t DEF RulesAreMirrored
  <2>3. PICK ds \in Seq(Policy) : ds = declared[agent]
    BY <2>2
  <2>4. PICK es : es = declared'[agent]
    OBVIOUS
  <2>5. /\ Len(ds) \in Nat /\ DOMAIN ds = 1..Len(ds) /\ es = Append(ds, p)
        /\ DOMAIN es = 1..Len(ds) + 1 /\ es[Len(ds) + 1] = p /\ \A i \in 1..Len(ds) : es[i] = ds[i]
    BY <2>1, <2>3, <2>4
  <2>6. Append([i \in DOMAIN ds |-> ChainRule(ds[i])], ChainRule(p)) = [i \in DOMAIN es |-> ChainRule(es[i])]
    BY <2>5
  <2>7. Append([i \in DOMAIN ds |-> StoredRule(ds[i])], StoredRule(p)) = [i \in DOMAIN es |-> StoredRule(es[i])]
    BY <2>5
  <2>8. /\ tenant_rules'[agent] = [i \in DOMAIN declared'[agent] |-> ChainRule(declared'[agent][i])]
        /\ agent_rules'[agent] = [i \in DOMAIN declared'[agent] |-> StoredRule(declared'[agent][i])]
    BY <2>1, <2>2, <2>3, <2>4, <2>6, <2>7
  <2> QED
    BY <1>t, <2>1, <2>8 DEF RulesAreMirrored
<1>2. ASSUME NEW agent \in Agents, NEW f \in Fields, NEW v \in Values, Unlist(agent, f, v)
      PROVE  RulesAreMirrored'
  <2>1. /\ DOMAIN declared'[agent] = DOMAIN declared[agent]
        /\ \A i \in DOMAIN declared[agent] :
             /\ ChainRule(declared'[agent][i]) = ChainRule(declared[agent][i])
             /\ StoredRule(declared'[agent][i]) = StoredRule(declared[agent][i])
        /\ \A other \in Agents \ {agent} : declared'[other] = declared[other]
    BY <1>2, UnlistFacts
  <2>2. UNCHANGED <<tenant_rules, agent_rules>>
    BY <1>2 DEF Unlist
  <2> QED
    BY <1>t, <2>1, <2>2 DEF RulesAreMirrored
<1>3. ASSUME UNCHANGED <<declared, tenant_rules, agent_rules>>
      PROVE  RulesAreMirrored'
  BY <1>t, <1>3 DEF RulesAreMirrored
<1> QED
  BY <1>1, <1>2, <1>3, AuditsKeepRules

\* A new public list writes the boxes of its values, and taking a value off all lists of
\* a field deletes its box.
LEMMA BoxStep == IndInv /\ [Next]_vars => BoxesAreListed'
<1> SUFFICES ASSUME IndInv, [Next]_vars PROVE BoxesAreListed'
  OBVIOUS
<1>t. /\ BoxesAreListed
      /\ \A agent \in Agents : declared[agent] \in Seq(Policy)
  BY DEF IndInv, TypeOK
<1> DEFINE Lists(p, f, v) == PublicSet(p) /\ p.doc.field = f /\ v \in p.doc.members
<1>a. \A agent \in Agents : \A f \in Fields : \A v \in Values :
        <<agent, f, v>> \in sets <=> \E i \in DOMAIN declared[agent] : Lists(declared[agent][i], f, v)
  BY Zenon, <1>t DEF BoxesAreListed
<1>g. ASSUME \A agent \in Agents : \A f \in Fields : \A v \in Values :
               <<agent, f, v>> \in sets' <=>
                 \E i \in DOMAIN declared'[agent] : Lists(declared'[agent][i], f, v)
      PROVE  BoxesAreListed'
  BY Zenon, <1>g DEF BoxesAreListed
<1>1. ASSUME NEW agent \in Agents, NEW p \in Policies, Register(agent, p)
      PROVE  BoxesAreListed'
  <2>1. /\ declared'[agent] = Append(declared[agent], p) /\ p \in Policy
        /\ \A other \in Agents \ {agent} : declared'[other] = declared[other]
    BY <1>1, RegisterFacts
  <2>2. sets' = IF PublicSet(p) THEN sets \cup {<<agent, p.doc.field, v>> : v \in p.doc.members} ELSE sets
    BY <1>1 DEF Register, AddToSet, PublicSet
  <2>3. \A other \in Agents : \A f \in Fields : \A v \in Values :
          <<other, f, v>> \in sets' <=> <<other, f, v>> \in sets \/ (other = agent /\ Lists(p, f, v))
    BY <2>2
  <2> HIDE DEF Lists
  <2>4. \A f \in Fields : \A v \in Values :
          (\E i \in DOMAIN declared'[agent] : Lists(declared'[agent][i], f, v)) <=>
            (\E i \in DOMAIN declared[agent] : Lists(declared[agent][i], f, v)) \/ Lists(p, f, v)
    <3>1. PICK ds \in Seq(Policy) : ds = declared[agent]
      BY <1>t
    <3>2. PICK es : es = declared'[agent]
      OBVIOUS
    <3>3. /\ Len(ds) \in Nat /\ DOMAIN ds = 1..Len(ds) /\ es = Append(ds, p)
          /\ DOMAIN es = 1..Len(ds) + 1 /\ es[Len(ds) + 1] = p /\ \A i \in 1..Len(ds) : es[i] = ds[i]
      BY <2>1, <3>1, <3>2
    <3>4. \A f \in Fields : \A v \in Values :
            (\E i \in DOMAIN es : Lists(es[i], f, v)) <=>
              (\E i \in DOMAIN ds : Lists(ds[i], f, v)) \/ Lists(p, f, v)
      BY <3>3
    <3> QED
      BY <3>1, <3>2, <3>4
  <2> QED
    BY <1>a, <1>g, <2>1, <2>3, <2>4
<1>2. ASSUME NEW agent \in Agents, NEW f \in Fields, NEW v \in Values, Unlist(agent, f, v)
      PROVE  BoxesAreListed'
  <2>1. /\ DOMAIN declared'[agent] = DOMAIN declared[agent]
        /\ \A other \in Agents \ {agent} : declared'[other] = declared[other]
    BY <1>2, UnlistFacts
  <2>2. \A i \in DOMAIN declared[agent] :
          /\ declared'[agent][i].doc.field = declared[agent][i].doc.field
          /\ PublicSet(declared'[agent][i]) <=> PublicSet(declared[agent][i])
          /\ \A w : w \in declared'[agent][i].doc.members <=>
               /\ w \in declared[agent][i].doc.members
               /\ ~(PublicSet(declared[agent][i]) /\ declared[agent][i].doc.field = f /\ w = v)
    <3>1. \A i \in DOMAIN declared[agent] : declared'[agent][i].doc.field = declared[agent][i].doc.field
      BY <1>2, UnlistFacts
    <3>2. \A i \in DOMAIN declared[agent] :
            PublicSet(declared'[agent][i]) <=> PublicSet(declared[agent][i])
      BY Zenon, <1>2, UnlistFacts
    <3>3. \A i \in DOMAIN declared[agent] : \A w :
            w \in declared'[agent][i].doc.members <=>
              /\ w \in declared[agent][i].doc.members
              /\ ~(PublicSet(declared[agent][i]) /\ declared[agent][i].doc.field = f /\ w = v)
      BY <1>2, UnlistFacts
    <3> QED
      BY Zenon, <3>1, <3>2, <3>3
  <2>3. sets' = sets \ {<<agent, f, v>>}
    BY <1>2 DEF Unlist, RemoveFromSet
  <2>4. \A other \in Agents : \A g \in Fields : \A w \in Values :
          <<other, g, w>> \in sets' <=> <<other, g, w>> \in sets /\ ~(other = agent /\ g = f /\ w = v)
    BY <2>3
  <2>5. \A i \in DOMAIN declared[agent] : \A g \in Fields : \A w \in Values :
          Lists(declared'[agent][i], g, w) <=> Lists(declared[agent][i], g, w) /\ ~(g = f /\ w = v)
    BY <2>2
  <2> HIDE DEF Lists
  <2> QED
    BY <1>a, <1>g, <2>1, <2>4, <2>5
<1>3. ASSUME UNCHANGED <<declared, sets>>
      PROVE  BoxesAreListed'
  <2> HIDE DEF Lists
  <2> QED
    BY <1>a, <1>g, <1>3
<1> QED
  BY <1>1, <1>2, <1>3, AuditsKeepRules

\* A rule added, or a value off a list, leaves the rules a call was built from in place.
LEMMA CallStep == IndInv /\ [Next]_vars => CallsFitTheRules'
<1> SUFFICES ASSUME IndInv, [Next]_vars PROVE CallsFitTheRules'
  OBVIOUS
<1> DEFINE Fits(call, rules, n) ==
             /\ 1..n \subseteq DOMAIN rules
             /\ call.args = [i \in 1..n |-> CheckArg(rules[i], call.decision[rules[i].chain.field])]
<1>t. /\ IsFiniteSet(pool) /\ faults \in Nat
      /\ \A call \in pool : /\ call.id \in 1..faults /\ call.agent \in Agents
                            /\ Len(call.args) \in Nat
                            /\ Fits(call, agent_rules[call.agent], Len(call.args))
  <2>1. faults \in Nat
    BY PoolCount
  <2> QED
    BY <2>1 DEF IndInv, CallsFitTheRules
<1>g. ASSUME IsFiniteSet(pool'),
             \A call \in pool' : /\ call.id \in 1..faults' /\ call.agent \in Agents
                                 /\ Len(call.args) \in Nat
                                 /\ Fits(call, agent_rules'[call.agent], Len(call.args))
      PROVE  CallsFitTheRules'
  BY <1>g DEF CallsFitTheRules
<1>1. ASSUME NEW agent \in Agents, NEW p \in Policies, Register(agent, p)
      PROVE  CallsFitTheRules'
  <2>1. /\ agent_rules'[agent] = Append(agent_rules[agent], StoredRule(p))
        /\ \A other \in Agents \ {agent} : agent_rules'[other] = agent_rules[other]
        /\ UNCHANGED <<pool, faults>>
    BY <1>1, RegisterFacts DEF Register, calls
  <2>2. /\ DOMAIN agent_rules[agent] \subseteq DOMAIN agent_rules'[agent]
        /\ \A i \in DOMAIN agent_rules[agent] : agent_rules'[agent][i] = agent_rules[agent][i]
    <3> DEFINE Stored == {StoredRule(q) : q \in Policy}
    <3>1. agent_rules[agent] = [i \in DOMAIN declared[agent] |-> StoredRule(declared[agent][i])]
      BY DEF IndInv, RulesAreMirrored
    <3>2. declared[agent] \in Seq(Policy)
      BY PolicyFacts
    <3>3. \A i \in DOMAIN declared[agent] : StoredRule(declared[agent][i]) \in Stored
      BY <3>2
    <3> HIDE DEF Stored
    <3>4. PICK rs \in Seq(Stored) : rs = agent_rules[agent]
      BY <3>1, <3>2, <3>3
    <3> QED
      BY <2>1, <3>4
  <2>3. ASSUME NEW call \in pool
        PROVE  Fits(call, agent_rules'[call.agent], Len(call.args))
    <3>1. call.agent \in Agents /\ Fits(call, agent_rules[call.agent], Len(call.args))
      BY <1>t
    <3>2. CASE call.agent = agent
      BY <2>2, <3>1, <3>2
    <3>3. CASE call.agent # agent
      BY <2>1, <3>1, <3>3
    <3> QED
      BY <3>2, <3>3
  <2> QED
    BY <1>g, <1>t, <2>1, <2>3
<1>2. ASSUME NEW agent \in Agents, NEW d \in Decisions, AuditUnconfirmed(agent, d)
      PROVE  CallsFitTheRules'
  <2> DEFINE args == BuildCheckArgs(agent, d)
  <2>1. /\ faults' = faults + 1 /\ IsFiniteSet(pool') /\ UNCHANGED agent_rules
        /\ \A call \in pool' : call \in pool \/
             (call.id = faults' /\ call.agent = agent /\ call.decision = d /\ call.args = args)
    BY <1>2, GivenUpFacts
  <2>2. /\ DOMAIN agent_rules[agent] = 1..Len(args) /\ Len(args) \in Nat
        /\ args = [i \in 1..Len(args) |->
                     CheckArg(agent_rules[agent][i], d[agent_rules[agent][i].chain.field])]
    <3>1. DOMAIN agent_rules[agent] = 1..Len(declared[agent]) /\ Len(args) = Len(declared[agent])
      BY PolicyFacts, ArgFacts
    <3>2. declared[agent] \in Seq(Policy)
      BY PolicyFacts
    <3>3. args = [i \in DOMAIN agent_rules[agent] |->
                    CheckArg(agent_rules[agent][i], d[agent_rules[agent][i].chain.field])]
      BY DEF BuildCheckArgs
    <3> QED
      BY <3>1, <3>2, <3>3
  <2> HIDE DEF args
  <2>3. ASSUME NEW call \in pool'
        PROVE  /\ call.id \in 1..faults' /\ call.agent \in Agents
               /\ Len(call.args) \in Nat
               /\ Fits(call, agent_rules'[call.agent], Len(call.args))
    BY <1>t, <2>1, <2>2, <2>3
  <2> QED
    BY <1>g, <2>1, <2>3
<1>3. ASSUME NEW call \in pool, LateCheck(call) \/ CallDropped(call)
      PROVE  CallsFitTheRules'
  <2>1. pool' = pool \ {call} /\ UNCHANGED <<agent_rules, faults>>
    BY <1>3 DEF LateCheck, CallDropped
  <2>2. IsFiniteSet(pool')
    BY <2>1, PoolCount
  <2> QED
    BY <1>g, <1>t, <2>1, <2>2
<1>4. ASSUME UNCHANGED <<agent_rules, pool, faults>>
      PROVE  CallsFitTheRules'
  BY <1>g, <1>t, <1>4
<1>5. ASSUME \/ \E agent \in Agents :
                  \/ \E f \in Fields, v \in Values : Unlist(agent, f, v)
                  \/ \E d \in Decisions : AuditChecked(agent, d) \/ AuditFails(agent, d)
             \/ UNCHANGED vars
      PROVE  UNCHANGED <<agent_rules, pool, faults>>
  BY <1>5 DEF Unlist, AuditChecked, AuditFails, vars, calls
<1> QED
  BY <1>1, <1>2, <1>3, <1>4, <1>5 DEF Next

\* An AACR that leaves is reported, or its call leaves the pool.
LEMMA ReportStep == IndInv /\ [Next]_vars => ReportsWhatWasMinted'
<1> SUFFICES ASSUME IndInv, [Next]_vars PROVE ReportsWhatWasMinted'
  OBVIOUS
<1> DEFINE size == Cardinality(pool)
           left == Cardinality(pool')
<1>t. aacr \in Int /\ reported \in Int /\ Supply \in Int /\ faults \in Int /\ size \in Int
  <2>1. aacr \in 0..Supply /\ reported \in 0..Supply /\ Supply \in Nat
    BY Zenon, WordAssumption DEF IndInv, TypeOK
  <2> QED
    BY <2>1, PoolCount
<1>b. Supply - aacr - reported >= 0 /\ Supply - aacr - reported <= faults - size
  <2>1. Supply - aacr - reported \in 0..faults - size
    BY Zenon DEF IndInv, ReportsWhatWasMinted
  <2> HIDE DEF size, left
  <2> QED
    BY <1>t, <2>1
<1>g. ASSUME aacr' \in Int, reported' \in Int, faults' \in Int, left \in Int,
             Supply - aacr' - reported' >= 0, Supply - aacr' - reported' <= faults' - left
      PROVE  ReportsWhatWasMinted'
  <2> HIDE DEF size, left
  <2>1. Supply - aacr' - reported' \in 0..faults' - left
    <3>1. \A x, n \in Int : x >= 0 /\ x <= n => x \in 0..n
      OBVIOUS
    <3>2. Supply - aacr' - reported' \in Int /\ faults' - left \in Int
      BY <1>t, <1>g
    <3> QED
      BY <1>g, <3>1, <3>2
  <2> QED
    BY Zenon, <2>1 DEF ReportsWhatWasMinted, left
<1>1. ASSUME NEW agent \in Agents, NEW d \in Decisions, AuditChecked(agent, d)
      PROVE  ReportsWhatWasMinted'
  <2>1. reported' \in 0..Supply /\ aacr' + reported' = aacr + reported
    BY <1>1, AnsweredReport
  <2>2. aacr' \in 0..Supply
    BY <1>1, AnsweredIsChecked, CheckFacts
  <2>3. left = size /\ faults' = faults
    BY <1>1 DEF AuditChecked, calls
  <2> HIDE DEF size, left
  <2>4. aacr' \in Int /\ reported' \in Int
    BY <1>t, <2>1, <2>2
  <2>5. Supply - aacr' - reported' = Supply - aacr - reported
    <3>1. PICK s, a, r, b, q \in Int : s = Supply /\ a = aacr /\ r = reported /\ b = aacr' /\ q = reported'
      BY Zenon, <1>t, <2>4
    <3>2. b + q = a + r
      BY Zenon, <2>1, <3>1
    <3>3. s - b - q = s - a - r
      BY <3>2
    <3> QED
      BY Zenon, <3>1, <3>3
  <2>6. Supply - aacr' - reported' >= 0 /\ Supply - aacr' - reported' <= faults' - left
    BY <1>b, <2>3, <2>5
  <2>7. faults' \in Int /\ left \in Int
    BY <1>t, <2>3
  <2> QED
    BY <1>g, <2>4, <2>6, <2>7
<1>2. ASSUME NEW call \in pool, LateCheck(call) \/ CallDropped(call)
      PROVE  ReportsWhatWasMinted'
  <2>1. pool' = pool \ {call} /\ reported' = reported /\ faults' = faults
    BY <1>2 DEF LateCheck, CallDropped
  <2>2. left = size - 1
    BY <2>1, PoolCount
  <2>3. aacr' = aacr \/ aacr' = aacr - 1
    <3>1. CASE LateCheck(call)
      BY <3>1, LateIsChecked, CheckFacts
    <3>2. CASE CallDropped(call)
      BY <3>2 DEF CallDropped, contract
    <3> QED
      BY <1>2, <3>1, <3>2
  <2> HIDE DEF size, left
  <2>4. /\ aacr' \in Int /\ left \in Int
        /\ Supply - aacr' - reported' >= 0 /\ Supply - aacr' - reported' <= faults' - left
    <3>1. CASE aacr' = aacr
      BY <1>t, <1>b, <2>1, <2>2, <3>1
    <3>2. CASE aacr' = aacr - 1
      BY <1>t, <1>b, <2>1, <2>2, <3>2
    <3> QED
      BY <2>3, <3>1, <3>2
  <2> QED
    BY <1>t, <1>g, <2>1, <2>4
<1>3. ASSUME NEW agent \in Agents, NEW d \in Decisions, AuditUnconfirmed(agent, d)
      PROVE  ReportsWhatWasMinted'
  <2>1. faults' = faults + 1 /\ left = size + 1 /\ UNCHANGED <<aacr, reported>>
    BY <1>3, GivenUpFacts DEF contract
  <2> HIDE DEF size, left
  <2> QED
    BY <1>t, <1>b, <1>g, <2>1
<1>4. ASSUME \/ \E agent \in Agents :
                  \/ \E p \in Policies : Register(agent, p)
                  \/ \E f \in Fields, v \in Values : Unlist(agent, f, v)
                  \/ \E d \in Decisions : AuditFails(agent, d)
             \/ UNCHANGED vars
      PROVE  UNCHANGED <<aacr, reported, pool, faults>>
  BY <1>4 DEF Register, Unlist, AuditFails, vars, contract, calls
<1>5. ASSUME UNCHANGED <<aacr, reported, pool, faults>>
      PROVE  ReportsWhatWasMinted'
  BY <1>t, <1>b, <1>g, <1>5
<1> QED
  BY <1>1, <1>2, <1>3, <1>4, <1>5 DEF Next

\* The tokens of a check are computed from what is declared when it is executed.
LEMMA CheckedTokens ==
  ASSUME IndInv, NEW agent \in Agents, NEW d, Checks(agent, d)
  PROVE  TokensTellTheTruth'
<1> DEFINE tokens == ResultTokens(agent, BuildCheckArgs(agent, d))
           ps     == declared[agent]
<1>1. \E outcome : last' = Audited(agent, d, outcome, tokens, AllPass(tokens))
  BY DEF Checks
<1>2. last'.tokens = tokens /\ last'.policies = ps /\ last'.decision = d
  BY <1>1 DEF Audited
<1>3. DOMAIN tokens = DOMAIN ps
  BY PolicyFacts DEF ResultTokens
<1>4. ASSUME NEW i \in DOMAIN ps
      PROVE  /\ tokens[i].layer = "attested" <=> ps[i].private
             /\ /\ ps[i].doc.field \in NumFields /\ d[ps[i].doc.field] # None =>
                     Whole(d[ps[i].doc.field])
                /\ ps[i].private \/ (d[ps[i].doc.field] # None /\ ~SharesSet(ps, i))
                => (tokens[i].pass <=> Meets(d, ps[i]))
  BY Zenon, TokenVerdict
<1> HIDE DEF tokens, ps
<1>5. PICK ts, qs : ts = tokens /\ qs = ps
  OBVIOUS
<1>6. last'.tokens = ts /\ last'.policies = qs
  BY <1>2, <1>5
<1>7. \A i : Readable(i)' <=>
        /\ qs[i].doc.field \in NumFields /\ d[qs[i].doc.field] # None => Whole(d[qs[i].doc.field])
        /\ qs[i].private \/ (d[qs[i].doc.field] # None /\ ~SharesSet(qs, i))
  BY Zenon, <1>2, <1>6 DEF Readable, SharesSet
<1>8. /\ DOMAIN ts = DOMAIN qs
      /\ \A i \in DOMAIN ts :
           /\ ts[i].layer = "attested" <=> qs[i].private
           /\ Readable(i)' => (ts[i].pass <=> Meets(d, qs[i]))
  BY Zenon, <1>3, <1>4, <1>5, <1>7
<1> QED
  BY Zenon, <1>2, <1>6, <1>8 DEF TokensTellTheTruth, Meets

LEMMA TokenStep == IndInv /\ [Next]_vars => TokensTellTheTruth'
<1> SUFFICES ASSUME IndInv, [Next]_vars PROVE TokensTellTheTruth'
  OBVIOUS
<1>1. ASSUME NEW agent \in Agents, NEW d \in Decisions, AuditChecked(agent, d)
      PROVE  TokensTellTheTruth'
  BY <1>1, AnsweredIsChecked, CheckedTokens
<1>2. ASSUME NEW call \in pool, LateCheck(call)
      PROVE  TokensTellTheTruth'
  BY <1>2, LateIsChecked, CheckedTokens
<1>3. ASSUME NEW agent \in Agents, NEW d \in Decisions, AuditFails(agent, d) \/ AuditUnconfirmed(agent, d)
      PROVE  TokensTellTheTruth'
  BY <1>3 DEF AuditFails, AuditUnconfirmed, Audited, TokensTellTheTruth, Executed
<1>4. ASSUME UNCHANGED last
      PROVE  TokensTellTheTruth'
  BY <1>4 DEF IndInv, TokensTellTheTruth, Executed, Readable
<1>5. ASSUME \/ \E agent \in Agents :
                  \/ \E p \in Policies : Register(agent, p)
                  \/ \E f \in Fields, v \in Values : Unlist(agent, f, v)
             \/ \E call \in pool : CallDropped(call)
             \/ UNCHANGED vars
      PROVE  UNCHANGED last
  BY <1>5 DEF Register, Unlist, CallDropped, vars
<1> QED
  BY <1>1, <1>2, <1>3, <1>4, <1>5 DEF Next

\* An audit is refused for its reports, for its boxes, or for the AACR it cannot mint; in
\* the last case its tokens pass, so no readable policy is broken.
LEMMA RefusalStep == IndInv /\ [Next]_vars => RefusalsAreExplained'
<1> SUFFICES ASSUME IndInv, [Next]_vars PROVE RefusalsAreExplained'
  OBVIOUS
<1>1. ASSUME NEW agent \in Agents, NEW d \in Decisions, AuditFails(agent, d)
      PROVE  RefusalsAreExplained'
  <2> DEFINE args   == BuildCheckArgs(agent, d)
             tokens == ResultTokens(agent, args)
             rules  == declared[agent]
             Val(i) == d[rules[i].doc.field]
             Clear(i) == /\ rules[i].doc.field \in NumFields /\ Val(i) # None => Whole(Val(i))
                         /\ rules[i].private \/ (Val(i) # None /\ ~SharesSet(rules, i))
             Reason ==
               \/ \E i \in DOMAIN rules : PublicSet(rules[i]) /\ Val(i) \in {None, Empty}
               \/ \E i \in DOMAIN rules :
                    /\ rules[i].doc.op \in NumericOps
                    /\ Val(i) # None
                    /\ Val(i) \notin Int \/ (~rules[i].private /\ IntOf(Val(i)) \notin Word)
               \/ 1 + Len(rules) + Cardinality({i \in DOMAIN rules : PublicSet(rules[i])}) > MaxBoxRefs
               \/ aacr = 0 /\ \A i \in DOMAIN rules : Clear(i) => Meets(d, rules[i])
  <2>1. Reason
    <3>0. /\ agent_rules[agent] # << >> /\ aacr \in Nat
          /\ ~ /\ Convertible(agent, d) /\ Encodable(args)
               /\ Accepts(agent, args, Referenced(agent, args))
      <4>1. aacr \in 0..Supply
        BY Zenon DEF IndInv, TypeOK
      <4> QED
        BY <1>1, <4>1, WordAssumption DEF AuditFails
    <3>1. Len(tenant_rules[agent]) > 0 /\ Len(args) = Len(tenant_rules[agent])
      <4>1. Len(tenant_rules[agent]) = Len(rules) /\ rules \in Seq(Policy)
        BY PolicyFacts
      <4>2. DOMAIN agent_rules[agent] = DOMAIN rules /\ agent_rules[agent] = [i \in DOMAIN rules |-> StoredRule(rules[i])]
        BY PolicyFacts DEF IndInv, RulesAreMirrored
      <4>3. Len(rules) # 0
        BY <3>0, <4>1, <4>2
      <4>4. Len(args) = Len(rules)
        BY ArgFacts
      <4> QED
        BY <4>1, <4>3, <4>4
    <3>2. CASE ~(Convertible(agent, d) /\ Encodable(args))
      BY <3>2, BadNumber
    <3>3. CASE ~(BoxesRead(agent, args) \subseteq Referenced(agent, args))
      <4>1. ASSUME 1 + Len(rules) + Cardinality({i \in DOMAIN rules : PublicSet(rules[i])}) <= MaxBoxRefs,
                   \A i \in DOMAIN rules : PublicSet(rules[i]) => Val(i) \notin {None, Empty}
            PROVE  FALSE
        BY <3>3, <4>1, BoxesAreThere
      <4>2. Len(rules) \in Nat /\ MaxBoxRefs \in Nat
        BY PolicyFacts, BoundAssumption
      <4>3. Cardinality({i \in DOMAIN rules : PublicSet(rules[i])}) \in Nat
        BY ListCount
      <4> QED
        BY <4>1, <4>2, <4>3
    <3>4. CASE aacr = 0 /\ AllPass(tokens)
      <4>1. DOMAIN tokens = DOMAIN rules
        BY PolicyFacts DEF ResultTokens
      <4>2. ASSUME NEW i \in DOMAIN rules, Clear(i)
            PROVE  Meets(d, rules[i])
        <5>1. tokens[i].pass
          BY <3>4, <4>1, <4>2 DEF AllPass
        <5>2. Clear(i) => (tokens[i].pass <=> Meets(d, rules[i]))
          BY Zenon, TokenVerdict
        <5> QED
          BY <4>2, <5>1, <5>2
      <4> QED
        BY <3>4, <4>2
    <3> QED
      BY <3>0, <3>1, <3>2, <3>3, <3>4 DEF Accepts
  <2>2. last'.policies = rules /\ last'.decision = d /\ UNCHANGED aacr
    BY <1>1 DEF AuditFails, Audited, contract
  <2> HIDE DEF rules
  <2>3. PICK qs : qs = rules
    OBVIOUS
  <2>4. last'.policies = qs /\ last'.decision = d
    BY <2>2, <2>3
  <2>5. \A i : /\ Readable(i)' <=> Clear(i)
               /\ Holds(i)' <=> Meets(d, rules[i])
    BY Zenon, <2>3, <2>4 DEF Readable, Holds, SharesSet, Meets
  <2> QED
    BY Zenon, <2>1, <2>2, <2>5 DEF RefusalsAreExplained
<1>2. ASSUME NEW agent \in Agents, NEW d \in Decisions, AuditChecked(agent, d) \/ AuditUnconfirmed(agent, d)
      PROVE  RefusalsAreExplained'
  BY <1>2 DEF AuditChecked, AuditUnconfirmed, Audited, RefusalsAreExplained
<1>3. ASSUME NEW call \in pool, LateCheck(call)
      PROVE  RefusalsAreExplained'
  BY <1>3 DEF LateCheck, Audited, RefusalsAreExplained
<1>4. ASSUME UNCHANGED <<last, aacr>>
      PROVE  RefusalsAreExplained'
  BY <1>4 DEF IndInv, RefusalsAreExplained, Readable, Holds
<1>5. ASSUME \/ \E agent \in Agents :
                  \/ \E p \in Policies : Register(agent, p)
                  \/ \E f \in Fields, v \in Values : Unlist(agent, f, v)
             \/ \E call \in pool : CallDropped(call)
             \/ UNCHANGED vars
      PROVE  UNCHANGED <<last, aacr>>
  BY <1>5 DEF Register, Unlist, CallDropped, vars, contract
<1> QED
  BY <1>1, <1>2, <1>3, <1>4, <1>5 DEF Next

\* No policy, no box, no audit.
LEMMA Start == Init => IndInv
<1> SUFFICES ASSUME Init PROVE IndInv
  OBVIOUS
<1> USE DEF Init, ContractInit
<1>1. TypeOK
  <2> DEFINE Rule   == [mode : {MODE_ONCHAIN, MODE_ATTESTED}, op : 0..8, num : Word,
                        field : Fields, commitment : Doc \cup {Empty}]
             Stored == [chain : Rule, doc_cipher : Doc \cup {Empty}]
  <2>1. \A S : [agent \in Agents |-> << >>] \in [Agents -> Seq(S)]
    OBVIOUS
  <2>2. /\ sets \subseteq Agents \X Fields \X Values
        /\ aacr \in 0..Supply /\ reported \in 0..Supply /\ faults \in 0..MaxFaults
    BY WordAssumption, BoundAssumption
  <2>3. /\ tenant_rules \in [Agents -> Seq(Rule)]
        /\ agent_rules \in [Agents -> Seq(Stored)]
        /\ declared \in [Agents -> Seq(Policy)]
    <3> HIDE DEF Rule, Stored
    <3> QED
      BY <2>1
  <2> QED
    BY Zenon, <2>2, <2>3 DEF TypeOK
<1>2. DeclaredAreLegal /\ BoxesAreListed
  BY DEF DeclaredAreLegal, BoxesAreListed
<1>3. RulesAreMirrored
  BY DEF RulesAreMirrored
<1>4. CallsFitTheRules
  BY FS_EmptySet DEF CallsFitTheRules
<1>5. ReportsWhatWasMinted
  BY FS_EmptySet, WordAssumption DEF ReportsWhatWasMinted
<1>6. TokensTellTheTruth /\ RefusalsAreExplained
  BY DEF TokensTellTheTruth, RefusalsAreExplained, Executed, NoAudit
<1> QED
  BY <1>1, <1>2, <1>3, <1>4, <1>5, <1>6 DEF IndInv

-----------------------------------------------------------------------------

\* The invariant holds after any registrations, removals and audits.
THEOREM Invariance == Spec => []IndInv
<1>1. IndInv /\ [Next]_vars => IndInv'
  BY TypeStep, LegalStep, MirrorStep, BoxStep, CallStep, ReportStep, TokenStep, RefusalStep DEF IndInv
<1> QED
  BY <1>1, Start, PTL DEF Spec

\* The token of a policy the org may read is the truth about the decision.
THEOREM TokensAreTrue == Spec => []TokensTellTheTruth
<1>1. IndInv => TokensTellTheTruth
  BY DEF IndInv
<1> QED
  BY <1>1, Invariance, PTL

\* Every AACR the backend reported left the contract, and every one that left unreported is
\* that of an audit it gave up on.
THEOREM ReportsAreTrue == Spec => []ReportsWhatWasMinted
<1>1. IndInv => ReportsWhatWasMinted
  BY DEF IndInv
<1> QED
  BY <1>1, Invariance, PTL

\* An audit the node answers is refused only for a reason the caller can see, whatever it
\* reports.
THEOREM RefusalsHaveReasons == Spec => []RefusalsAreExplained
<1>1. IndInv => RefusalsAreExplained
  BY DEF IndInv
<1> QED
  BY <1>1, Invariance, PTL

\* A check mints exactly when its tokens pass, and they tell the truth.
LEMMA CheckedMint ==
  ASSUME IndInv, NEW agent \in Agents, NEW d, Checks(agent, d)
  PROVE  /\ Executed'
         /\ DOMAIN last'.tokens = DOMAIN last'.policies
         /\ aacr \in Int
         /\ aacr' = IF AllPass(last'.tokens) THEN aacr - 1 ELSE aacr
         /\ TokensTellTheTruth'
<1> DEFINE tokens == ResultTokens(agent, BuildCheckArgs(agent, d))
<1>1. PICK outcome \in {"checked", "late"} :
        last' = Audited(agent, d, outcome, tokens, AllPass(tokens))
  BY DEF Checks
<1>2. last'.tokens = tokens /\ last'.policies = declared[agent] /\ last'.outcome = outcome
  BY <1>1 DEF Audited
<1>3. DOMAIN tokens = DOMAIN declared[agent]
  BY PolicyFacts DEF ResultTokens
<1>4. aacr \in Int /\ aacr' = IF AllPass(tokens) THEN aacr - 1 ELSE aacr
  BY CheckFacts
<1>5. Executed'
  BY <1>2 DEF Executed
<1> HIDE DEF tokens
<1> QED
  BY <1>2, <1>3, <1>4, <1>5, CheckedTokens

\* Every other step leaves the AACR where they are.
LEMMA MintStep ==
  ASSUME IndInv, Next
  PROVE  \/ UNCHANGED <<last, aacr>>
         \/ ~Executed' /\ UNCHANGED aacr
         \/ \E agent \in Agents : \E d : Checks(agent, d)
<1>1. ASSUME NEW agent \in Agents, NEW d \in Decisions, AuditChecked(agent, d)
      PROVE  Checks(agent, d)
  BY <1>1, AnsweredIsChecked
<1>2. ASSUME NEW call \in pool, LateCheck(call)
      PROVE  call.agent \in Agents /\ Checks(call.agent, call.decision)
  BY <1>2, LateIsChecked
<1>3. ASSUME NEW agent \in Agents, NEW d \in Decisions, AuditFails(agent, d) \/ AuditUnconfirmed(agent, d)
      PROVE  ~Executed' /\ UNCHANGED aacr
  BY <1>3 DEF AuditFails, AuditUnconfirmed, Audited, Executed, contract
<1>4. ASSUME \/ \E agent \in Agents :
                  \/ \E p \in Policies : Register(agent, p)
                  \/ \E f \in Fields, v \in Values : Unlist(agent, f, v)
             \/ \E call \in pool : CallDropped(call)
      PROVE  UNCHANGED <<last, aacr>>
  BY <1>4 DEF Register, Unlist, CallDropped, contract
<1> QED
  BY <1>1, <1>2, <1>3, <1>4 DEF Next

\* An AACR leaves the contract only with a check that deserves it, answered or late, and with
\* every one that does: the contract, the backend's evaluation and the shared tenancy together.
THEOREM ReceiptsAreDeserved == Spec => MintsAreDeserved
<1> DEFINE Deserved ==
             LET audited == DOMAIN last'.policies
                 checked == <<last, aacr>>' # <<last, aacr>> /\ Executed'
             IN  /\ aacr' # aacr => /\ checked
                                    /\ aacr' = aacr - 1
                                    /\ \A i \in audited : Readable(i)' => Holds(i)'
                 /\ checked /\ (\A i \in audited : Readable(i)' /\ Holds(i)') => aacr' = aacr - 1
<1>1. ASSUME IndInv, NEW agent \in Agents, NEW d, Checks(agent, d)
      PROVE  Deserved
  <2>1. /\ Executed'
        /\ DOMAIN last'.tokens = DOMAIN last'.policies
        /\ aacr' = IF AllPass(last'.tokens) THEN aacr - 1 ELSE aacr
        /\ TokensTellTheTruth'
    BY <1>1, CheckedMint
  <2>2. \A i \in DOMAIN last'.policies : Readable(i)' => (last'.tokens[i].pass <=> Holds(i)')
    BY Zenon, <2>1 DEF TokensTellTheTruth, Holds
  <2>3. AllPass(last'.tokens) <=> \A i \in DOMAIN last'.policies : last'.tokens[i].pass
    BY Zenon, <2>1 DEF AllPass
  <2>4. CASE AllPass(last'.tokens)
    <3>1. aacr' = aacr - 1 /\ \A i \in DOMAIN last'.policies : Readable(i)' => Holds(i)'
      BY Zenon, <2>1, <2>2, <2>3, <2>4
    <3>2. <<last, aacr>>' # <<last, aacr>> \/ aacr' = aacr
      BY Zenon
    <3> QED
      BY Zenon, <2>1, <3>1, <3>2
  <2>5. CASE ~AllPass(last'.tokens)
    <3>1. aacr' = aacr
      BY <2>1, <2>5
    <3> QED
      BY Zenon, <2>2, <2>3, <2>5, <3>1
  <2> QED
    BY <2>4, <2>5
<1>2. ASSUME UNCHANGED <<last, aacr>> \/ (~Executed' /\ UNCHANGED aacr)
      PROVE  Deserved
  BY Zenon, <1>2
<1>3. IndInv /\ [Next]_vars => [Deserved]_vars
  BY Zenon, <1>1, <1>2, MintStep
<1> HIDE DEF Deserved
<1>4. Spec => [][Deserved]_vars
  BY <1>3, Invariance, PTL DEF Spec
<1> QED
  BY <1>4 DEF Deserved, MintsAreDeserved
=============================================================================
