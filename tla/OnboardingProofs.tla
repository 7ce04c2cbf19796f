-------------------------- MODULE OnboardingProofs --------------------------
(***************************************************************************)
(* For any runs, names, policy lists, resets and crashes: the safety       *)
(* properties of Onboarding.  Each part of IndInv is preserved by every    *)
(* step that starts in IndInv (one lemma per part); the theorems follow.   *)
(***************************************************************************)
EXTENDS Onboarding, TLAPS

\* Every step keeps the types.
LEMMA TypeStep == IndInv /\ [Next]_vars => TypeOK'
<1> SUFFICES ASSUME IndInv, [Next]_vars PROVE TypeOK'
  OBVIOUS
<1> USE OnboardingAssumption, MembersAssumption DEF tables, ledger
<1>t. TypeOK
  BY DEF IndInv
<1>a. /\ pc \in [Runs -> Steps] /\ at \in [Runs -> Nat \X Nat]
      /\ orgs \in [Names -> Runs \cup {None}] /\ agents \subseteq Names \X Runs
      /\ chain \in [Runs -> Seq(Nat)] /\ crashes \in 0..MaxCrashes
  BY <1>t DEF TypeOK
<1>1. ASSUME NEW o \in Runs, \/ CheckName(o) \/ CreateOrg(o) \/ CheckOrg(o) \/ AddAgent(o)
                             \/ TxFails(o) \/ Finish(o) \/ Die(o)
      PROVE  TypeOK'
  <2>1. pc' \in [Runs -> Steps]
    BY <1>a, <1>1 DEF CheckName, CreateOrg, CheckOrg, AddAgent, TxFails, Finish, Die, Goto, Raise,
       Steps
  <2>2. crashes' \in 0..MaxCrashes
    BY <1>a, <1>1 DEF CheckName, CreateOrg, CheckOrg, AddAgent, TxFails, Finish, Die
  <2>3. orgs' \in [Names -> Runs \cup {None}]
    BY <1>a, <1>1 DEF CheckName, CreateOrg, CheckOrg, AddAgent, TxFails, Finish, Die
  <2>4. agents' \subseteq Names \X Runs
    BY <1>a, <1>1 DEF CheckName, CreateOrg, CheckOrg, AddAgent, TxFails, Finish, Die
  <2>5. UNCHANGED <<agent_rules, ledger, at, resets>>
    BY <1>1 DEF CheckName, CreateOrg, CheckOrg, AddAgent, TxFails, Finish, Die
  <2> QED
    BY <1>t, <2>1, <2>2, <2>3, <2>4, <2>5 DEF TypeOK
<1>2. ASSUME NEW n \in Names, DeleteOrg(n)
      PROVE  /\ orgs' \in [Names -> Runs \cup {None}]
             /\ agents' \subseteq agents /\ agent_rules' \subseteq agent_rules
  BY <1>a, <1>2 DEF DeleteOrg
<1>3. ASSUME NEW o \in Runs, Rollback(o)
      PROVE  TypeOK'
  <2>1. DeleteOrg(Name[o]) /\ Name[o] \in Names
    BY <1>3 DEF Rollback
  <2>2. pc' \in [Runs -> Steps] /\ UNCHANGED <<ledger, at, resets, crashes>>
    BY <1>a, <1>3 DEF Rollback, Goto, Steps
  <2> QED
    BY <1>t, <1>2, <2>1, <2>2 DEF TypeOK
<1>4. ASSUME NEW n \in Names, Reset(n)
      PROVE  TypeOK'
  <2>1. resets' \in 0..MaxResets /\ DeleteOrg(n) /\ UNCHANGED <<ledger, pc, at, crashes>>
    BY <1>t, <1>4 DEF Reset, TypeOK
  <2> QED
    BY <1>t, <1>2, <2>1 DEF TypeOK
<1>5. ASSUME NEW o \in Runs, SendTx(o)
      PROVE  TypeOK'
  <2>1. at[o][1] \in 1..Len(Members[o]) /\ at[o][1] \in Nat /\ at[o][2] \in Nat
    BY <1>a, <1>5 DEF SendTx, IndInv, AtIsInRange
  <2>2. pc' \in [Runs -> Steps]
    BY <1>a, <1>5 DEF SendTx, Goto, Raise, Steps
  <2>3. pool' \in SUBSET (pool \cup {<<o, at[o][1], at[o][2]>>})
    BY <1>5 DEF SendTx
  <2>4. UNCHANGED <<tables, chain, sets, at, resets, crashes>>
    BY <1>5 DEF SendTx
  <2>5. pool' \subseteq Runs \X Nat \X Nat /\ \A tx \in pool' : tx[2] \in 1..Len(Members[tx[1]])
    BY <1>t, <2>1, <2>3 DEF TypeOK
  <2> QED
    BY <1>t, <2>2, <2>4, <2>5 DEF TypeOK
<1>6. ASSUME NEW o \in Runs, Confirmed(o)
      PROVE  TypeOK'
  <2>1. at[o][1] \in Nat \ {0} /\ at[o][2] \in Nat
    BY <1>a DEF IndInv, AtIsInRange
  <2>2. After(o, at[o][1], at[o][2]) \in Nat \X Nat
    BY <2>1 DEF After
  <2>3. \A row \in agent_rules' : /\ DOMAIN row = {"org", "agent", "idx", "rule"}
                                 /\ row.org \in Names /\ row.agent \in Runs
                                 /\ row.idx \in Nat /\ row.rule \in Nat
    BY <1>t, <1>6, <2>1 DEF TypeOK, Confirmed, AddRule
  <2>4. /\ pc' \in [Runs -> Steps] /\ at' \in [Runs -> Nat \X Nat]
        /\ UNCHANGED <<orgs, agents, ledger, resets, crashes>>
    BY <1>a, <1>6, <2>2 DEF Confirmed, Goto, Steps
  <2> QED
    BY <1>t, <2>3, <2>4 DEF TypeOK
<1>7. ASSUME NEW tx \in pool, LandTx(tx)
      PROVE  TypeOK'
  <2>1. tx[1] \in Runs /\ tx[2] \in Nat
    BY <1>t DEF TypeOK
  <2>2. chain' \in [Runs -> Seq(Nat)]
    <3>1. Append(chain[tx[1]], tx[2]) \in Seq(Nat)
      BY <1>a, <2>1
    <3>2. \/ chain' = chain
          \/ chain' = [chain EXCEPT ![tx[1]] = Append(chain[tx[1]], tx[2])]
      BY <1>7 DEF LandTx
    <3> QED
      BY <1>a, <2>1, <3>1, <3>2
  <2>3. \A box \in sets' : box[1] \in Runs
    BY <1>t, <1>7, <2>1 DEF LandTx, TypeOK
  <2>4. pool' \subseteq pool /\ UNCHANGED <<tables, pc, at, resets, crashes>>
    BY <1>7 DEF LandTx
  <2> QED
    BY <1>t, <2>2, <2>3, <2>4 DEF TypeOK
<1>8. ASSUME NEW tx \in pool, DropTx(tx)
      PROVE  TypeOK'
  BY <1>t, <1>8 DEF DropTx, TypeOK
<1>9. CASE UNCHANGED vars
  BY <1>t, <1>9 DEF vars, TypeOK
<1> QED
  BY <1>1, <1>3, <1>4, <1>5, <1>6, <1>7, <1>8, <1>9 DEF Next

\* at moves only when a transaction is confirmed, to the next member or policy.
LEMMA AtStep == IndInv /\ [Next]_vars => AtIsInRange'
<1> SUFFICES ASSUME IndInv, [Next]_vars PROVE AtIsInRange'
  OBVIOUS
<1> USE OnboardingAssumption, MembersAssumption DEF IndInv, tables, ledger
<1>0. pc \in [Runs -> Steps] /\ at \in [Runs -> Nat \X Nat]
  BY DEF TypeOK
<1>1. ASSUME NEW o \in Runs, \/ CheckName(o) \/ CreateOrg(o) \/ CheckOrg(o) \/ AddAgent(o)
                             \/ TxFails(o) \/ Rollback(o) \/ Die(o)
      PROVE  AtIsInRange'
  BY <1>0, <1>1 DEF CheckName, CreateOrg, CheckOrg, AddAgent, TxFails, Rollback, Die, Goto, Raise,
     AtIsInRange, Early, Ended
<1>2. ASSUME NEW o \in Runs, Finish(o) \/ SendTx(o)
      PROVE  AtIsInRange'
  BY <1>0, <1>2 DEF Finish, SendTx, Goto, Raise, AtIsInRange, Early
<1>3. ASSUME NEW o \in Runs, Confirmed(o)
      PROVE  AtIsInRange'
  <2> DEFINE k == at[o][1]
             j == at[o][2]
  <2>1. k \in 1..Len(Members[o]) /\ j \in 0..Len(Members[o][k]) /\ Len(Members[o][k]) \in Nat
    BY <1>0, <1>3 DEF Confirmed, AtIsInRange
  <2>2. at' = [at EXCEPT ![o] = After(o, k, j)] /\ pc' = [pc EXCEPT ![o] = "next"]
    BY <1>3 DEF Confirmed, Goto
  <2>3. \A q \in Runs \ {o} : at'[q] = at[q] /\ pc'[q] = pc[q]
    BY <1>0, <2>2
  <2>4. pc'[o] = "next" /\ at'[o] = After(o, k, j)
    BY <1>0, <2>2
  <2>5. /\ at'[o][1] \in 1..Len(Members[o]) + 1
        /\ IF at'[o][1] \in 1..Len(Members[o]) THEN at'[o][2] \in 0..Len(Members[o][at'[o][1]])
           ELSE at'[o][2] = 0
    <3> HIDE DEF k, j
    <3>1. CASE j < Len(Members[o][k])
      BY <2>1, <2>4, <3>1 DEF After
    <3>2. CASE ~(j < Len(Members[o][k]))
      BY <2>1, <2>4, <3>2 DEF After
    <3> QED
      BY <3>1, <3>2
  <2> HIDE DEF k, j
  <2> QED
    BY <2>3, <2>4, <2>5 DEF AtIsInRange, Early
<1>4. ASSUME \/ \E tx \in pool : LandTx(tx) \/ DropTx(tx)
             \/ \E n \in Names : Reset(n)
             \/ UNCHANGED vars
      PROVE  AtIsInRange'
  BY <1>4 DEF LandTx, DropTx, Reset, vars, AtIsInRange
<1> QED
  BY <1>1, <1>2, <1>3, <1>4 DEF Next

\* What a run knows to be on chain grows by the rule whose confirmation it got.
LEMMA KnownStep ==
  ASSUME IndInv, NEW o \in Runs, Confirmed(o)
  PROVE  /\ at[o][1] \in 1..Len(Members[o]) /\ at[o][2] \in 0..Len(Members[o][at[o][1]])
         /\ at'[o] = After(o, at[o][1], at[o][2]) /\ Known(o)' = at[o][1]
         /\ \A q \in Runs \ {o} : at'[q] = at[q] /\ Known(q)' = Known(q)
<1> USE MembersAssumption
<1>1. at \in [Runs -> Nat \X Nat]
  BY DEF IndInv, TypeOK
<1>2. /\ at[o][1] \in 1..Len(Members[o]) /\ at[o][2] \in 0..Len(Members[o][at[o][1]])
      /\ at[o][2] \in Nat /\ Len(Members[o]) \in Nat /\ Len(Members[o][at[o][1]]) \in Nat
  BY <1>1 DEF Confirmed, IndInv, AtIsInRange
<1>3. at'[o] = After(o, at[o][1], at[o][2]) /\ \A q \in Runs \ {o} : at'[q] = at[q]
  BY <1>1 DEF Confirmed
<1>4. Known(o)' = at[o][1]
  BY <1>2, <1>3 DEF Known, After
<1> QED
  BY <1>2, <1>3, <1>4 DEF Known

\* A rule is sent only when the ones before it are known to have landed, so the one
\* that may land unnoticed is the one the run waits for, or ended with.
LEMMA RuleStep == IndInv /\ [Next]_vars => OneRuleAtATime'
<1> SUFFICES ASSUME IndInv, [Next]_vars PROVE OneRuleAtATime'
  OBVIOUS
<1> USE DEF tables, ledger
<1>t. /\ pc \in [Runs -> Steps] /\ at \in [Runs -> Nat \X Nat] /\ chain \in [Runs -> Seq(Nat)]
      /\ pool \subseteq Runs \X Nat \X Nat
  BY DEF IndInv, TypeOK
<1>a. /\ OneRuleAtATime
      /\ \A o \in Runs : /\ at[o][1] \in Nat \ {0} /\ at[o][2] \in Nat
                         /\ Len(chain[o]) \in Nat /\ Known(o) \in Nat
  BY <1>t DEF IndInv, AtIsInRange, Known
<1>1. ASSUME UNCHANGED <<at, chain>>, pool' \subseteq pool,
             \A o \in Runs : pc'[o] \in Settled => pc[o] \in Settled
      PROVE  OneRuleAtATime'
  BY <1>a, <1>1 DEF OneRuleAtATime, Known
<1>2. ASSUME NEW o \in Runs, \/ CheckName(o) \/ CreateOrg(o) \/ CheckOrg(o) \/ AddAgent(o)
                             \/ TxFails(o) \/ Rollback(o) \/ Finish(o) \/ Die(o)
      PROVE  OneRuleAtATime'
  <2>1. UNCHANGED <<at, chain, pool>>
    BY <1>2 DEF CheckName, CreateOrg, CheckOrg, AddAgent, TxFails, Rollback, Finish, Die
  <2>2. \A q \in Runs : pc'[q] \in Settled => pc[q] \in Settled
    BY <1>t, <1>2 DEF CheckName, CreateOrg, CheckOrg, AddAgent, TxFails, Rollback, Finish, Die,
       Goto, Raise, Settled, Early
  <2> QED
    BY <1>1, <2>1, <2>2
<1>3. ASSUME NEW o \in Runs, SendTx(o)
      PROVE  OneRuleAtATime'
  <2>1. UNCHANGED <<at, chain>> /\ pc[o] = "next" /\ \A q \in Runs \ {o} : pc'[q] = pc[q]
    BY <1>t, <1>3 DEF SendTx, Goto, Raise
  <2>2. pc'[o] \notin Settled
    BY <1>t, <1>3 DEF SendTx, Goto, Raise, Settled, Early
  <2>3. pool' \subseteq pool \cup {<<o, at[o][1], at[o][2]>>}
    BY <1>3 DEF SendTx
  <2>4. Len(chain[o]) = Known(o)
    BY <1>a, <2>1 DEF OneRuleAtATime, Settled
  <2> QED
    BY <1>a, <2>1, <2>2, <2>3, <2>4 DEF OneRuleAtATime, Known
<1>4. ASSUME NEW o \in Runs, Confirmed(o)
      PROVE  OneRuleAtATime'
  <2>1. UNCHANGED <<chain, pool>> /\ \A q \in Runs \ {o} : pc'[q] = pc[q]
    BY <1>t, <1>4 DEF Confirmed, Goto
  <2>2. Len(chain[o]) = at[o][1]
    BY <1>a, <1>4 DEF Confirmed, Landed, OneRuleAtATime, Known
  <2>3. \A tx \in pool : ~(tx[1] = o /\ tx[3] = 0)
    BY <1>a, <2>2 DEF OneRuleAtATime, Known
  <2>4. Known(o)' = at[o][1] /\ \A q \in Runs \ {o} : at'[q] = at[q] /\ Known(q)' = Known(q)
    BY <1>4, KnownStep
  <2> QED
    BY <1>a, <2>1, <2>2, <2>3, <2>4 DEF OneRuleAtATime
<1>5. ASSUME NEW tx \in pool, LandTx(tx)
      PROVE  OneRuleAtATime'
  <2>1. UNCHANGED <<at, pc>> /\ pool' = pool \ {tx} /\ tx[1] \in Runs /\ tx[2] \in Nat
    BY <1>t, <1>5 DEF LandTx
  <2>2. CASE tx[3] = 0
    <3>1. /\ tx[2] = at[tx[1]][1] /\ at[tx[1]][2] = 0 /\ Len(chain[tx[1]]) = tx[2] - 1
          /\ pc[tx[1]] \notin Settled
      BY <1>a, <2>1, <2>2 DEF OneRuleAtATime, Known
    <3>2. chain' = [chain EXCEPT ![tx[1]] = Append(chain[tx[1]], tx[2])]
      BY <1>5, <2>2 DEF LandTx
    <3>3. Len(chain'[tx[1]]) = tx[2] /\ \A q \in Runs \ {tx[1]} : chain'[q] = chain[q]
      BY <1>t, <2>1, <3>1, <3>2
    <3>4. \A ty \in pool' : ~(ty[1] = tx[1] /\ ty[3] = 0)
      <4> SUFFICES ASSUME NEW ty \in pool, ty[1] = tx[1], ty[3] = 0 PROVE ty = tx
        BY <2>1
      <4>1. ty[2] = tx[2]
        BY <1>a, <2>1, <3>1 DEF OneRuleAtATime
      <4>2. ty = <<ty[1], ty[2], ty[3]>> /\ tx = <<tx[1], tx[2], tx[3]>>
        BY <1>t
      <4> QED
        BY <2>2, <4>1, <4>2
    <3> QED
      BY <1>a, <2>1, <3>1, <3>3, <3>4 DEF OneRuleAtATime, Known
  <2>3. CASE tx[3] # 0
    BY <1>1, <1>5, <2>1, <2>3 DEF LandTx
  <2> QED
    BY <2>2, <2>3
<1>6. ASSUME \/ \E tx \in pool : DropTx(tx)
             \/ \E n \in Names : Reset(n)
             \/ UNCHANGED vars
      PROVE  OneRuleAtATime'
  BY <1>1, <1>6 DEF DropTx, Reset, vars
<1> QED
  BY <1>2, <1>3, <1>4, <1>5, <1>6 DEF Next

\* Rules are appended one by one in the declared order, and the one that add_rule
\* mirrors has landed.
LEMMA OrderStep == IndInv /\ [Next]_vars => RulesAreInOrder'
<1> SUFFICES ASSUME IndInv, [Next]_vars PROVE RulesAreInOrder'
  OBVIOUS
<1> USE OnboardingAssumption DEF tables, ledger
<1>t. /\ at \in [Runs -> Nat \X Nat] /\ chain \in [Runs -> Seq(Nat)]
      /\ pool \subseteq Runs \X Nat \X Nat
      /\ \A row \in agent_rules : row.agent \in Runs /\ row.idx \in Nat
  BY DEF IndInv, TypeOK
<1>a. /\ OneRuleAtATime /\ RulesAreInOrder
      /\ \A o \in Runs : /\ at[o][1] \in Nat \ {0} /\ at[o][2] \in Nat
                         /\ Len(chain[o]) \in Nat /\ Known(o) \in Nat
  BY <1>t DEF IndInv, AtIsInRange, Known
<1>1. ASSUME UNCHANGED <<at, chain>>, agent_rules' \subseteq agent_rules
      PROVE  RulesAreInOrder'
  BY <1>a, <1>1 DEF RulesAreInOrder, Known
<1>2. ASSUME NEW o \in Runs, \/ CheckName(o) \/ CreateOrg(o) \/ CheckOrg(o) \/ AddAgent(o)
                             \/ SendTx(o) \/ TxFails(o) \/ Rollback(o) \/ Finish(o) \/ Die(o)
      PROVE  RulesAreInOrder'
  <2>1. UNCHANGED <<at, chain>> /\ agent_rules' \subseteq agent_rules
    BY <1>2 DEF CheckName, CreateOrg, CheckOrg, AddAgent, SendTx, TxFails, Rollback, Finish, Die,
       DeleteOrg
  <2> QED
    BY <1>1, <2>1
<1>3. ASSUME NEW o \in Runs, Confirmed(o)
      PROVE  RulesAreInOrder'
  <2>1. UNCHANGED chain
    BY <1>3 DEF Confirmed
  <2>2. Known(o)' = at[o][1] /\ \A q \in Runs \ {o} : Known(q)' = Known(q)
    BY <1>3, KnownStep
  <2>3. \A q \in Runs : Known(q) <= Known(q)' /\ Known(q)' \in Nat
    BY <1>a, <2>2 DEF Known
  <2>4. \A row \in agent_rules' :
          \/ row \in agent_rules
          \/ row = [org |-> Name[o], agent |-> o, idx |-> at[o][1] - 1, rule |-> at[o][1]]
    BY <1>3 DEF Confirmed, AddRule
  <2>5. \A row \in agent_rules' : /\ row.org = Name[row.agent] /\ row.rule = row.idx + 1
                                 /\ row.rule <= Known(row.agent)'
    BY <1>t, <1>a, <2>2, <2>3, <2>4 DEF RulesAreInOrder
  <2> QED
    BY <1>a, <2>1, <2>5 DEF RulesAreInOrder
<1>4. ASSUME NEW tx \in pool, LandTx(tx)
      PROVE  RulesAreInOrder'
  <2>1. UNCHANGED <<at, agent_rules>> /\ tx[1] \in Runs /\ tx[2] \in Nat
    BY <1>t, <1>4 DEF LandTx
  <2>2. CASE tx[3] = 0
    <3>1. Len(chain[tx[1]]) = tx[2] - 1
      BY <1>a, <2>1, <2>2 DEF OneRuleAtATime, Known
    <3>2. chain' = [chain EXCEPT ![tx[1]] = Append(chain[tx[1]], tx[2])]
      BY <1>4, <2>2 DEF LandTx
    <3>3. \A q \in Runs \ {tx[1]} : chain'[q] = chain[q]
      BY <1>t, <3>2
    <3>4. \A i \in 1..Len(chain'[tx[1]]) : chain'[tx[1]][i] = i
      BY <1>t, <1>a, <2>1, <3>1, <3>2 DEF RulesAreInOrder
    <3>5. \A q \in Runs : \A i \in 1..Len(chain'[q]) : chain'[q][i] = i
      BY <1>a, <3>3, <3>4 DEF RulesAreInOrder
    <3> QED
      BY <1>a, <2>1, <3>5 DEF RulesAreInOrder, Known
  <2>3. CASE tx[3] # 0
    BY <1>1, <1>4, <2>1, <2>3 DEF LandTx
  <2> QED
    BY <2>2, <2>3
<1>5. ASSUME \/ \E tx \in pool : DropTx(tx)
             \/ \E n \in Names : Reset(n)
             \/ UNCHANGED vars
      PROVE  RulesAreInOrder'
  <2>1. UNCHANGED <<at, chain>> /\ agent_rules' \subseteq agent_rules
    BY <1>5 DEF DropTx, Reset, DeleteOrg, vars
  <2> QED
    BY <1>1, <2>1
<1> QED
  BY <1>2, <1>3, <1>4, <1>5 DEF Next

\* Members are seeded one by one, and a box is not taken away again.
LEMMA SeedStep == IndInv /\ [Next]_vars => SeededSoFar'
<1> SUFFICES ASSUME IndInv, [Next]_vars PROVE SeededSoFar'
  OBVIOUS
<1> USE MembersAssumption DEF tables, ledger
<1>t. SeededSoFar /\ \A o \in Runs : at[o][1] \in Nat \ {0} /\ at[o][2] \in Nat
  BY DEF IndInv, TypeOK, AtIsInRange
<1>1. ASSUME UNCHANGED at, sets \subseteq sets'
      PROVE  SeededSoFar'
  BY <1>t, <1>1 DEF SeededSoFar
<1>2. ASSUME NEW o \in Runs, \/ CheckName(o) \/ CreateOrg(o) \/ CheckOrg(o) \/ AddAgent(o)
                             \/ SendTx(o) \/ TxFails(o) \/ Rollback(o) \/ Finish(o) \/ Die(o)
      PROVE  UNCHANGED <<at, sets>>
  BY <1>2 DEF CheckName, CreateOrg, CheckOrg, AddAgent, SendTx, TxFails, Rollback, Finish, Die
<1>3. ASSUME NEW o \in Runs, Confirmed(o)
      PROVE  SeededSoFar'
  <2> DEFINE k == at[o][1]
             j == at[o][2]
  <2>1. /\ k \in 1..Len(Members[o]) /\ j \in 0..Len(Members[o][k]) /\ Len(Members[o][k]) \in Nat
        /\ at'[o] = After(o, k, j) /\ \A q \in Runs \ {o} : at'[q] = at[q]
    BY <1>3, KnownStep
  <2>2. UNCHANGED sets /\ (j # 0 => <<o, Members[o][k][j]>> \in sets)
    BY <1>3 DEF Confirmed, Landed
  <2>3. ASSUME NEW m \in 1..Len(Members[o]), NEW i \in 1..Len(Members[o][m]),
               m < at'[o][1] \/ (m = at'[o][1] /\ i < at'[o][2])
        PROVE  <<o, Members[o][m][i]>> \in sets
    <3> HIDE DEF k, j
    <3>0. k \in Nat /\ j \in Nat /\ m \in Nat /\ i \in Nat /\ i <= Len(Members[o][m])
      BY <2>1
    <3>1. m < k \/ (m = k /\ i < j) \/ (m = k /\ i = j)
      BY <2>1, <2>3, <3>0 DEF After
    <3>2. m < k \/ (m = k /\ i < j) => <<o, Members[o][m][i]>> \in sets
      BY <1>t DEF SeededSoFar, k, j
    <3> QED
      BY <2>2, <3>0, <3>1, <3>2
  <2> QED
    BY <1>t, <2>1, <2>2, <2>3 DEF SeededSoFar
<1>4. ASSUME NEW tx \in pool, LandTx(tx)
      PROVE  UNCHANGED at /\ sets \subseteq sets'
  BY <1>4 DEF LandTx
<1>5. ASSUME \/ \E tx \in pool : DropTx(tx)
             \/ \E n \in Names : Reset(n)
             \/ UNCHANGED vars
      PROVE  UNCHANGED <<at, sets>>
  BY <1>5 DEF DropTx, Reset, vars
<1> QED
  BY <1>1, <1>2, <1>3, <1>4, <1>5 DEF Next

\* An org row appears only by the run that inserts it, and that run goes on.
LEMMA OrgStep == IndInv /\ [Next]_vars => OrgsAreOwned'
<1> SUFFICES ASSUME IndInv, [Next]_vars PROVE OrgsAreOwned'
  OBVIOUS
<1> USE OnboardingAssumption DEF tables, ledger
<1>t. /\ OrgsAreOwned /\ pc \in [Runs -> Steps] /\ orgs \in [Names -> Runs \cup {None}]
  BY DEF IndInv, TypeOK
<1>1. ASSUME NEW o \in Runs, CreateOrg(o)
      PROVE  OrgsAreOwned'
  BY <1>t, <1>1 DEF CreateOrg, Goto, Raise, OrgsAreOwned
<1>2. ASSUME \A n \in Names : orgs'[n] \in {orgs[n], None},
             \A o \in Runs : pc'[o] \in {"check", "create", "refused"} =>
                               pc[o] \in {"check", "create", "refused"}
      PROVE  OrgsAreOwned'
  BY <1>t, <1>2 DEF OrgsAreOwned
<1>3. ASSUME NEW o \in Runs, \/ CheckName(o) \/ CheckOrg(o) \/ AddAgent(o) \/ SendTx(o)
                             \/ Confirmed(o) \/ TxFails(o) \/ Rollback(o) \/ Finish(o) \/ Die(o)
      PROVE  OrgsAreOwned'
  <2>1. \A n \in Names : orgs'[n] \in {orgs[n], None}
    BY <1>t, <1>3 DEF CheckName, CheckOrg, AddAgent, SendTx, Confirmed, TxFails, Rollback, Finish,
       Die, DeleteOrg
  <2>2. \A q \in Runs : pc'[q] \in {"check", "create", "refused"} =>
                          pc[q] \in {"check", "create", "refused"}
    BY <1>t, <1>3 DEF CheckName, CheckOrg, AddAgent, SendTx, Confirmed, TxFails, Rollback, Finish,
       Die, Goto, Raise
  <2> QED
    BY <1>2, <2>1, <2>2
<1>4. ASSUME NEW n \in Names, Reset(n)
      PROVE  OrgsAreOwned'
  BY <1>t, <1>2, <1>4 DEF Reset, DeleteOrg
<1>5. ASSUME \/ \E tx \in pool : LandTx(tx) \/ DropTx(tx)
             \/ UNCHANGED vars
      PROVE  UNCHANGED <<orgs, pc>>
  BY <1>5 DEF LandTx, DropTx, vars
<1> QED
  BY <1>1, <1>2, <1>3, <1>4, <1>5 DEF Next

\* A run that goes on has mirrored what it knows, unless its org row was deleted; and
\* then the row is never that run's again.
LEMMA MirrorStep == IndInv /\ [Next]_vars => MirroredSoFar'
<1> SUFFICES ASSUME IndInv, [Next]_vars PROVE MirroredSoFar'
  OBVIOUS
<1> USE OnboardingAssumption DEF tables, ledger
<1>t. /\ pc \in [Runs -> Steps] /\ orgs \in [Names -> Runs \cup {None}]
      /\ MirroredSoFar /\ RulesAreInOrder /\ OrgsAreOwned
      /\ \A o \in Runs : at[o][1] \in Nat \ {0} /\ at[o][2] \in Nat /\ Known(o) \in Nat
      /\ \A row \in agent_rules : row.agent \in Runs /\ row.idx \in Nat
  BY DEF IndInv, TypeOK, AtIsInRange, Known
<1> DEFINE Going(o)   == orgs[Name[o]] = o /\ pc[o] \in {"next", "wait", "done"}
           Mirrors(o) == /\ <<Name[o], o>> \in agents
                         /\ \A i \in 1..Known(o) : \E row \in agent_rules : row.agent = o /\ row.rule = i
<1>1. ASSUME UNCHANGED at, agents \subseteq agents', agent_rules \subseteq agent_rules',
             \A q \in Runs : orgs'[Name[q]] = q => orgs[Name[q]] = q,
             \A q \in Runs : pc'[q] \in {"next", "wait", "done"} => pc[q] \in {"next", "wait", "done"}
      PROVE  MirroredSoFar'
  BY <1>t, <1>1 DEF MirroredSoFar, Known
<1>2. ASSUME NEW o \in Runs, \/ CheckName(o) \/ CheckOrg(o) \/ SendTx(o) \/ TxFails(o)
                             \/ Finish(o) \/ Die(o)
      PROVE  MirroredSoFar'
  <2>1. UNCHANGED <<at, agents, agent_rules, orgs>>
    BY <1>2 DEF CheckName, CheckOrg, SendTx, TxFails, Finish, Die
  <2>2. \A q \in Runs : pc'[q] \in {"next", "wait", "done"} => pc[q] \in {"next", "wait", "done"}
    BY <1>t, <1>2 DEF CheckName, CheckOrg, SendTx, TxFails, Finish, Die, Goto, Raise
  <2> QED
    BY <1>1, <2>1, <2>2
<1>3. ASSUME NEW o \in Runs, CreateOrg(o)
      PROVE  MirroredSoFar'
  <2>1. /\ UNCHANGED <<at, agents, agent_rules>>
        /\ \A q \in Runs \ {o} : pc'[q] = pc[q] /\ (orgs'[Name[q]] = q => orgs[Name[q]] = q)
        /\ pc'[o] \notin {"next", "wait", "done"}
    BY <1>t, <1>3 DEF CreateOrg, Goto, Raise
  <2> QED
    BY <1>t, <2>1 DEF MirroredSoFar, Known
<1>4. ASSUME NEW o \in Runs, AddAgent(o)
      PROVE  MirroredSoFar'
  <2>1. /\ UNCHANGED <<at, orgs, agent_rules>> /\ agents' = agents \cup {<<Name[o], o>>}
        /\ \A q \in Runs \ {o} : pc'[q] = pc[q]
    BY <1>t, <1>4 DEF AddAgent, Goto
  <2>2. Known(o)' = 0
    BY <1>4, <2>1 DEF AddAgent, IndInv, AtIsInRange, Early, Known
  <2> QED
    BY <1>t, <2>1, <2>2 DEF MirroredSoFar, Known
<1>5. ASSUME NEW o \in Runs, Confirmed(o)
      PROVE  MirroredSoFar'
  <2> DEFINE k == at[o][1]
             new == [org |-> Name[o], agent |-> o, idx |-> k - 1, rule |-> k]
  <2>1. /\ UNCHANGED <<orgs, agents>> /\ pc[o] = "wait"
        /\ \A q \in Runs \ {o} : pc'[q] = pc[q] /\ Known(q)' = Known(q)
        /\ Known(o)' = k
    BY <1>t, <1>5, KnownStep DEF Confirmed, Goto
  <2>2. \A row \in agent_rules : row.agent # o => row \in agent_rules'
    BY <1>5 DEF Confirmed, AddRule
  <2>3. \A row \in agent_rules : row.agent = o /\ row.rule # k => row \in agent_rules'
    BY <1>t, <1>5 DEF Confirmed, AddRule, RulesAreInOrder
  <2>4. at[o][2] = 0 => new \in agent_rules' /\ Known(o) = k - 1
    BY <1>5 DEF Confirmed, AddRule, Known
  <2>5. at[o][2] # 0 => agent_rules' = agent_rules /\ Known(o) = k
    BY <1>5 DEF Confirmed, Known
  <2>6. ASSUME Going(o)
        PROVE  \A i \in 1..k : \E row \in agent_rules' : row.agent = o /\ row.rule = i
    <3>0. Mirrors(o) /\ k \in Nat
      BY <1>t, <2>6 DEF MirroredSoFar
    <3>1. CASE at[o][2] = 0
      <4> SUFFICES ASSUME NEW i \in 1..k
                   PROVE  \E row \in agent_rules' : row.agent = o /\ row.rule = i
        OBVIOUS
      <4> HIDE DEF k
      <4>1. CASE i = k
        BY <2>4, <3>1, <4>1
      <4>2. CASE i # k
        BY <2>3, <2>4, <3>0, <3>1, <4>2
      <4> QED
        BY <4>1, <4>2
    <3>2. CASE at[o][2] # 0
      BY <2>5, <3>0, <3>2
    <3> QED
      BY <3>1, <3>2
  <2> HIDE DEF k, new
  <2> SUFFICES ASSUME NEW q \in Runs, orgs'[Name[q]] = q, pc'[q] \in {"next", "wait", "done"}
               PROVE  /\ <<Name[q], q>> \in agents'
                      /\ \A i \in 1..Known(q)' : \E row \in agent_rules' : row.agent = q /\ row.rule = i
    BY DEF MirroredSoFar
  <2>7. CASE q = o
    BY <1>t, <2>1, <2>6, <2>7 DEF MirroredSoFar
  <2>8. CASE q # o
    <3>1. Mirrors(q)
      BY <1>t, <2>1, <2>8 DEF MirroredSoFar
    <3> QED
      BY <2>1, <2>2, <2>8, <3>1
  <2> QED
    BY <2>7, <2>8
<1>6. ASSUME NEW n \in Names, DeleteOrg(n), UNCHANGED at,
             \A q \in Runs : pc'[q] \in {"next", "wait", "done"} => pc[q] \in {"next", "wait", "done"}
      PROVE  MirroredSoFar'
  <2>1. ASSUME NEW q \in Runs, orgs'[Name[q]] = q
        PROVE  orgs[Name[q]] = q /\ Name[q] # n
    BY <1>t, <1>6, <2>1 DEF DeleteOrg
  <2>2. /\ \A row \in agents : row[1] # n => row \in agents'
        /\ \A row \in agent_rules : Name[row.agent] # n => row \in agent_rules'
    BY <1>t, <1>6 DEF DeleteOrg, RulesAreInOrder
  <2>3. ASSUME NEW q \in Runs, orgs'[Name[q]] = q, pc'[q] \in {"next", "wait", "done"}
        PROVE  /\ <<Name[q], q>> \in agents'
               /\ \A i \in 1..Known(q) : \E row \in agent_rules' : row.agent = q /\ row.rule = i
    <3>1. Name[q] # n /\ Mirrors(q)
      BY <1>t, <1>6, <2>1, <2>3 DEF MirroredSoFar
    <3> QED
      BY <2>2, <3>1
  <2> QED
    BY <1>6, <2>3 DEF MirroredSoFar, Known
<1>7. ASSUME NEW o \in Runs, Rollback(o)
      PROVE  MirroredSoFar'
  BY <1>t, <1>6, <1>7 DEF Rollback, Goto
<1>8. ASSUME NEW n \in Names, Reset(n)
      PROVE  MirroredSoFar'
  BY <1>6, <1>8 DEF Reset
<1>9. ASSUME \/ \E tx \in pool : LandTx(tx) \/ DropTx(tx)
             \/ UNCHANGED vars
      PROVE  MirroredSoFar'
  <2>1. UNCHANGED <<at, agents, agent_rules, orgs, pc>>
    BY <1>9 DEF LandTx, DropTx, vars
  <2> QED
    BY <1>1, <2>1
<1> QED
  BY <1>2, <1>3, <1>4, <1>5, <1>7, <1>8, <1>9 DEF Next

\* A run is active from the check of its name to its end, and MayRun lets an API run
\* become active only when no other one is.
LEMMA OneRunStep == IndInv /\ [Next]_vars => OneApiRun'
<1> SUFFICES ASSUME IndInv, [Next]_vars PROVE OneApiRun'
  OBVIOUS
<1>t. pc \in [Runs -> Steps] /\ OneApiRun /\ ApiRuns \subseteq Runs
  BY OnboardingAssumption DEF IndInv, TypeOK
<1>1. ASSUME \A q \in Runs : pc[q] \in Ended \cup {"check"} => pc'[q] \in Ended \cup {"check"}
      PROVE  OneApiRun'
  BY <1>t, <1>1 DEF OneApiRun
<1>2. ASSUME NEW o \in Runs, CheckName(o)
      PROVE  OneApiRun'
  BY <1>t, <1>2 DEF CheckName, MayRun, Goto, OneApiRun
<1>3. ASSUME NEW o \in Runs, \/ CreateOrg(o) \/ CheckOrg(o) \/ AddAgent(o) \/ SendTx(o)
                             \/ Confirmed(o) \/ TxFails(o) \/ Rollback(o) \/ Finish(o) \/ Die(o)
      PROVE  OneApiRun'
  <2>1. pc[o] \notin Ended \cup {"check"} /\ \A q \in Runs \ {o} : pc'[q] = pc[q]
    BY <1>t, <1>3 DEF CreateOrg, CheckOrg, AddAgent, SendTx, Confirmed, TxFails, Rollback, Finish,
       Die, Goto, Raise, Ended
  <2> QED
    BY <1>1, <2>1
<1>4. ASSUME \/ \E tx \in pool : LandTx(tx) \/ DropTx(tx)
             \/ \E n \in Names : Reset(n)
             \/ UNCHANGED vars
      PROVE  OneApiRun'
  <2>1. UNCHANGED pc
    BY <1>4 DEF LandTx, DropTx, Reset, vars
  <2> QED
    BY <1>1, <2>1
<1> QED
  BY <1>2, <1>3, <1>4 DEF Next

\* Once a script has run or an org was reset, that stays so.
LEMMA OnlyApiStep ==
  ASSUME IndInv, [Next]_vars, OnlyApi'
  PROVE  /\ OnlyApi
         /\ \A n \in Names : ~Reset(n)
         /\ \A o \in Runs : pc'[o] # "check" => o \in ApiRuns
<1>t. pc \in [Runs -> Steps] /\ resets \in Nat
  BY OnboardingAssumption DEF IndInv, TypeOK
<1>1. \A n \in Names : ~Reset(n)
  BY <1>t DEF Reset, OnlyApi
<1>2. UNCHANGED resets /\ \A o \in Runs : pc'[o] = "check" => pc[o] = "check"
  <2>1. ASSUME NEW o \in Runs, \/ CheckName(o) \/ CreateOrg(o) \/ CheckOrg(o) \/ AddAgent(o)
                               \/ SendTx(o) \/ Confirmed(o) \/ TxFails(o) \/ Rollback(o)
                               \/ Finish(o) \/ Die(o)
        PROVE  UNCHANGED resets /\ \A q \in Runs : pc'[q] = "check" => pc[q] = "check"
    BY <1>t, <2>1 DEF CheckName, CreateOrg, CheckOrg, AddAgent, SendTx, Confirmed, TxFails, Rollback,
       Finish, Die, Goto, Raise
  <2>2. ASSUME \/ \E tx \in pool : LandTx(tx) \/ DropTx(tx)
               \/ UNCHANGED vars
        PROVE  UNCHANGED <<resets, pc>>
    BY <2>2 DEF LandTx, DropTx, vars
  <2> QED
    BY <1>1, <2>1, <2>2 DEF Next
<1> QED
  BY <1>1, <1>2 DEF OnlyApi

\* No API run on the same name is active while one goes from its check to its insert,
\* and the rollback of one deletes its own row.
LEMMA OwnRowStep == IndInv /\ [Next]_vars => ApiOwnsItsRow'
<1> SUFFICES ASSUME IndInv, [Next]_vars, OnlyApi'
             PROVE  \A q \in Runs :
                      /\ pc'[q] = "create" => orgs'[Name[q]] = None
                      /\ pc'[q] \in {"agent", "add_agent", "next", "wait", "failing"} =>
                           orgs'[Name[q]] = q
  BY DEF ApiOwnsItsRow
<1> USE OnboardingAssumption DEF tables, ledger
<1>t. /\ pc \in [Runs -> Steps] /\ orgs \in [Names -> Runs \cup {None}] /\ OneApiRun
      /\ \A q \in Runs : pc'[q] # "check" => q \in ApiRuns
      /\ \A q \in Runs : pc[q] # "check" => q \in ApiRuns
      /\ \A n \in Names : ~Reset(n)
  BY OnlyApiStep DEF IndInv, TypeOK, OnlyApi
<1>a. \A q \in Runs :
        /\ pc[q] = "create" => orgs[Name[q]] = None
        /\ pc[q] \in {"agent", "add_agent", "next", "wait", "failing"} => orgs[Name[q]] = q
  BY OnlyApiStep DEF IndInv, ApiOwnsItsRow
<1>1. ASSUME NEW o \in Runs, CheckName(o) \/ CheckOrg(o) \/ AddAgent(o) \/ SendTx(o)
                             \/ Confirmed(o) \/ TxFails(o) \/ Finish(o) \/ Die(o)
      PROVE  /\ UNCHANGED orgs /\ \A q \in Runs \ {o} : pc'[q] = pc[q]
             /\ pc'[o] = "create" => orgs[Name[o]] = None
             /\ pc'[o] \in {"agent", "add_agent", "next", "wait", "failing"} => orgs[Name[o]] = o
  BY <1>t, <1>a, <1>1 DEF CheckName, CheckOrg, AddAgent, SendTx, Confirmed, TxFails, Finish, Die,
     Goto, Raise
<1>2. ASSUME NEW o \in Runs, CreateOrg(o)
      PROVE  \A q \in Runs :
               /\ pc'[q] = "create" => orgs'[Name[q]] = None
               /\ pc'[q] \in {"agent", "add_agent", "next", "wait", "failing"} => orgs'[Name[q]] = q
  <2>1. /\ pc[o] = "create" /\ orgs[Name[o]] = None
        /\ orgs' = [orgs EXCEPT ![Name[o]] = o] /\ pc' = [pc EXCEPT ![o] = "agent"]
    BY <1>a, <1>2 DEF CreateOrg, Goto
  <2>2. \A q \in Runs \ {o} : pc'[q] = pc[q] /\ pc[q] \in Ended \cup {"check"}
    BY <1>t, <2>1 DEF OneApiRun, Ended
  <2>3. orgs'[Name[o]] = o /\ pc'[o] = "agent"
    BY <1>t, <2>1
  <2> QED
    BY <2>2, <2>3 DEF Ended
<1>3. ASSUME NEW o \in Runs, Rollback(o)
      PROVE  \A q \in Runs :
               /\ pc'[q] = "create" => orgs'[Name[q]] = None
               /\ pc'[q] \in {"agent", "add_agent", "next", "wait", "failing"} => orgs'[Name[q]] = q
  BY <1>t, <1>a, <1>3 DEF Rollback, DeleteOrg, Goto
<1>4. ASSUME \/ \E tx \in pool : LandTx(tx) \/ DropTx(tx)
             \/ UNCHANGED vars
      PROVE  UNCHANGED <<orgs, pc>>
  BY <1>4 DEF LandTx, DropTx, vars
<1> QED
  BY <1>t, <1>a, <1>1, <1>2, <1>3, <1>4 DEF Next

\* A row is written under the org of the run that writes it, and goes with that org.
LEMMA OrphanStep == IndInv /\ [Next]_vars => NoOrphanRows'
<1> SUFFICES ASSUME IndInv, [Next]_vars, OnlyApi'
             PROVE  /\ \A row \in agents' : orgs'[row[1]] = row[2]
                    /\ \A row \in agent_rules' : orgs'[row.org] = row.agent
  BY DEF NoOrphanRows
<1> USE OnboardingAssumption DEF tables, ledger
<1>t. /\ orgs \in [Names -> Runs \cup {None}] /\ agents \subseteq Names \X Runs
      /\ \A row \in agent_rules : row.org \in Names /\ row.agent \in Runs
      /\ \A n \in Names : ~Reset(n)
  BY OnlyApiStep DEF IndInv, TypeOK
<1>a. /\ \A row \in agents : orgs[row[1]] = row[2]
      /\ \A row \in agent_rules : orgs[row.org] = row.agent
      /\ \A q \in Runs :
           /\ pc[q] = "create" => orgs[Name[q]] = None
           /\ pc[q] \in {"agent", "add_agent", "next", "wait", "failing"} => orgs[Name[q]] = q
  BY OnlyApiStep DEF IndInv, NoOrphanRows, ApiOwnsItsRow
<1>1. ASSUME NEW o \in Runs, CheckName(o) \/ CheckOrg(o) \/ SendTx(o) \/ TxFails(o)
                             \/ Finish(o) \/ Die(o)
      PROVE  UNCHANGED tables
  BY <1>1 DEF CheckName, CheckOrg, SendTx, TxFails, Finish, Die
<1>2. ASSUME NEW o \in Runs, CreateOrg(o)
      PROVE  /\ \A row \in agents' : orgs'[row[1]] = row[2]
             /\ \A row \in agent_rules' : orgs'[row.org] = row.agent
  <2>1. /\ orgs[Name[o]] = None /\ UNCHANGED <<agents, agent_rules>>
        /\ orgs' = [orgs EXCEPT ![Name[o]] = o]
    BY <1>a, <1>2 DEF CreateOrg
  <2>2. /\ \A row \in agents : row[1] # Name[o] /\ row[1] \in Names
        /\ \A row \in agent_rules : row.org # Name[o] /\ row.org \in Names
    BY <1>t, <1>a, <2>1
  <2> QED
    BY <1>t, <1>a, <2>1, <2>2
<1>3. ASSUME NEW o \in Runs, AddAgent(o) \/ Confirmed(o)
      PROVE  /\ \A row \in agents' : orgs'[row[1]] = row[2]
             /\ \A row \in agent_rules' : orgs'[row.org] = row.agent
  BY <1>a, <1>3 DEF AddAgent, Confirmed, AddRule
<1>4. ASSUME NEW o \in Runs, Rollback(o)
      PROVE  /\ \A row \in agents' : orgs'[row[1]] = row[2]
             /\ \A row \in agent_rules' : orgs'[row.org] = row.agent
  BY <1>t, <1>a, <1>4 DEF Rollback, DeleteOrg
<1>5. ASSUME \/ \E tx \in pool : LandTx(tx) \/ DropTx(tx)
             \/ UNCHANGED vars
      PROVE  UNCHANGED tables
  BY <1>5 DEF LandTx, DropTx, vars
<1> QED
  BY <1>t, <1>a, <1>1, <1>2, <1>3, <1>4, <1>5 DEF Next

\* Empty tables, an empty chain and no run started.
LEMMA Start == Init => IndInv
<1> SUFFICES ASSUME Init PROVE IndInv
  OBVIOUS
<1> USE OnboardingAssumption, MembersAssumption DEF Init
<1>1. TypeOK
  BY DEF TypeOK, Steps
<1>2. AtIsInRange
  BY DEF AtIsInRange, Early
<1>3. OneRuleAtATime /\ RulesAreInOrder
  BY DEF OneRuleAtATime, RulesAreInOrder, Known
<1>4. SeededSoFar
  BY DEF SeededSoFar
<1>5. OrgsAreOwned /\ MirroredSoFar /\ NoOrphanRows
  BY DEF OrgsAreOwned, MirroredSoFar, NoOrphanRows
<1>6. OneApiRun /\ ApiOwnsItsRow
  BY DEF OneApiRun, ApiOwnsItsRow
<1> QED
  BY <1>1, <1>2, <1>3, <1>4, <1>5, <1>6 DEF IndInv

-----------------------------------------------------------------------------

\* The invariant holds in every state of every onboarding history.
THEOREM Invariance == Spec => []IndInv
<1>1. Init => IndInv
  BY Start
<1>2. IndInv /\ [Next]_vars => IndInv'
  BY TypeStep, AtStep, RuleStep, OrderStep, SeedStep, OrgStep, MirrorStep, OneRunStep, OwnRowStep,
     OrphanStep DEF IndInv
<1> QED
  BY <1>1, <1>2, PTL DEF Spec

\* A rule in the store is on chain at the same index, whatever timed out or crashed.
THEOREM StoreFollowsChain == Spec => []StoredRulesAreOnChain
<1>1. IndInv => StoredRulesAreOnChain
  <2> SUFFICES ASSUME IndInv, NEW row \in agent_rules
               PROVE  /\ row.idx + 1 \in DOMAIN chain[row.agent]
                      /\ chain[row.agent][row.idx + 1] = row.rule
    BY DEF StoredRulesAreOnChain
  <2>1. row.agent \in Runs /\ row.idx \in Nat /\ chain[row.agent] \in Seq(Nat)
    BY DEF IndInv, TypeOK
  <2>2. row.rule = row.idx + 1 /\ row.rule <= Known(row.agent)
    BY DEF IndInv, RulesAreInOrder
  <2>3. Known(row.agent) \in Nat /\ Known(row.agent) <= Len(chain[row.agent])
    BY <2>1 DEF IndInv, TypeOK, AtIsInRange, OneRuleAtATime, Known
  <2>4. row.idx + 1 \in 1..Len(chain[row.agent])
    BY <2>1, <2>2, <2>3
  <2> QED
    BY <2>1, <2>2, <2>4 DEF IndInv, RulesAreInOrder
<1> QED
  BY <1>1, Invariance, PTL

\* An onboarding that handed out its agent id left the whole declared policy set behind.
THEOREM OnboardingIsComplete == Spec => []DoneIsComplete
<1>1. IndInv => DoneIsComplete
  <2> SUFFICES ASSUME IndInv, NEW o \in Runs, pc[o] = "done", orgs[Name[o]] = o
               PROVE  /\ <<Name[o], o>> \in agents
                      /\ chain[o] = [k \in 1..Len(Members[o]) |-> k]
                      /\ {row.idx : row \in {r \in agent_rules : r.agent = o}} = 0..Len(Members[o]) - 1
                      /\ \A k \in 1..Len(Members[o]) : \A j \in 1..Len(Members[o][k]) :
                           <<o, Members[o][k][j]>> \in sets
    BY DEF DoneIsComplete
  <2> DEFINE n == Len(Members[o])
  <2>0. n \in Nat /\ chain[o] \in Seq(Nat)
    BY MembersAssumption DEF IndInv, TypeOK
  <2>1. at[o][1] = n + 1 /\ at[o][2] = 0
    BY <2>0 DEF IndInv, AtIsInRange
  <2>2. Known(o) = n /\ Len(chain[o]) = n
    BY <2>0, <2>1 DEF Known, IndInv, OneRuleAtATime, Settled
  <2>3. \A i \in 1..n : chain[o][i] = i
    BY <2>2 DEF IndInv, RulesAreInOrder
  <2>4. chain[o] = [k \in 1..n |-> k]
    BY <2>0, <2>2, <2>3
  <2>5. /\ <<Name[o], o>> \in agents
        /\ \A i \in 1..n : \E row \in agent_rules : row.agent = o /\ row.rule = i
    BY <2>2 DEF IndInv, MirroredSoFar
  <2>6. \A row \in agent_rules : row.agent = o =>
          row.idx \in Nat /\ row.rule = row.idx + 1 /\ row.rule <= n
    BY <2>2 DEF IndInv, TypeOK, RulesAreInOrder
  <2>7. {row.idx : row \in {r \in agent_rules : r.agent = o}} = 0..n - 1
    <3> HIDE DEF n
    <3>1. ASSUME NEW i \in 0..n - 1
          PROVE  \E row \in agent_rules : row.agent = o /\ row.idx = i
      <4>1. PICK row \in agent_rules : row.agent = o /\ row.rule = i + 1
        BY <2>0, <2>5
      <4> QED
        BY <2>6, <4>1
    <3>2. \A row \in agent_rules : row.agent = o => row.idx \in 0..n - 1
      BY <2>0, <2>6
    <3> QED
      BY <3>1, <3>2
  <2>8. \A k \in 1..n : \A j \in 1..Len(Members[o][k]) : <<o, Members[o][k][j]>> \in sets
    <3> SUFFICES ASSUME NEW k \in 1..n, NEW j \in 1..Len(Members[o][k])
                 PROVE  <<o, Members[o][k][j]>> \in sets
      OBVIOUS
    <3>1. k < at[o][1]
      BY <2>0, <2>1
    <3> QED
      BY <3>1 DEF IndInv, SeededSoFar
  <2> QED
    BY <2>4, <2>5, <2>7, <2>8
<1> QED
  BY <1>1, Invariance, PTL

\* While only the API provisions, every row belongs to an org that exists.
THEOREM TablesAreClean == Spec => []NoOrphanRows
<1>1. IndInv => NoOrphanRows
  BY DEF IndInv
<1> QED
  BY <1>1, Invariance, PTL

\* While only the API provisions, the rollback that goes by the name deletes the row of
\* the run that failed, and nothing else deletes one.
THEOREM RollbackIsOwn == Spec => RollbackDeletesOwnOrg
<1>1. IndInv /\ [Next]_vars => [OnlyApi => OwnDeletion]_vars
  <2> SUFFICES ASSUME IndInv, Next, OnlyApi,
                      NEW n \in Names, orgs[n] # None, orgs'[n] = None, resets' = resets
               PROVE  pc[orgs[n]] = "failing"
    BY DEF OwnDeletion
  <2> USE OnboardingAssumption DEF tables, ledger
  <2>t. orgs \in [Names -> Runs \cup {None}] /\ resets \in Nat
    BY DEF IndInv, TypeOK
  <2>1. ASSUME NEW o \in Runs, Rollback(o)
        PROVE  pc[orgs[n]] = "failing"
    <3>1. orgs[Name[o]] = o /\ pc[o] = "failing"
      BY <2>1 DEF Rollback, IndInv, ApiOwnsItsRow
    <3>2. n = Name[o]
      BY <2>t, <2>1 DEF Rollback, DeleteOrg
    <3> QED
      BY <3>1, <3>2
  <2>2. ASSUME NEW o \in Runs, CheckName(o) \/ CreateOrg(o) \/ CheckOrg(o) \/ AddAgent(o)
                               \/ SendTx(o) \/ Confirmed(o) \/ TxFails(o) \/ Finish(o) \/ Die(o)
        PROVE  FALSE
    BY <2>t, <2>2 DEF CheckName, CreateOrg, CheckOrg, AddAgent, SendTx, Confirmed, TxFails, Finish,
       Die
  <2>3. ASSUME \/ \E tx \in pool : LandTx(tx) \/ DropTx(tx)
               \/ \E m \in Names : Reset(m)
        PROVE  FALSE
    BY <2>t, <2>3 DEF LandTx, DropTx, Reset
  <2> QED
    BY <2>1, <2>2, <2>3 DEF Next
<1> QED
  BY <1>1, Invariance, PTL DEF Spec, RollbackDeletesOwnOrg
=============================================================================
