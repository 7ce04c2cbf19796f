---------------------------- MODULE FundingProofs ----------------------------
(***************************************************************************)
(* For any terminals, contracts, amounts and faults: the safety properties *)
(* of Funding.  Actions that do alike share a lemma, that they preserve    *)
(* IndInv; the steps of a script differ only in what they send.            *)
(***************************************************************************)
EXTENDS Funding, TLAPS

\* The amounts are positive.
LEMMA Amounts ==
  /\ DeployFund \in Nat \ {0} /\ OptInFund \in Nat \ {0} /\ DefaultFund \in Nat \ {0}
  /\ SEND_AMOUNT \in Nat \ {0} /\ AACR_TOPUP \in Nat \ {0}
  /\ DEPLOYER_AACR_BUFFER \in Nat \ {0} /\ MIN_DEPLOYER_ALGO \in Nat \ {0}
  /\ POLICY_FUND_ALGO \in Nat \ {0} /\ ANCHOR_FUND_ALGO \in Nat \ {0}
  /\ Fee \in Nat \ {0} /\ OptInFee \in Nat \ {0} /\ POLICY_CHECK_FEE \in Nat \ {0}
  /\ AccountMin \in Nat /\ AssetMin \in Nat /\ AppMin \in Nat /\ BoxMin \in Nat
  /\ TotalAacr \in Nat /\ DeployerAlgo \in Nat /\ MaxMints \in Nat /\ MaxFaults \in Nat
  BY AmountsAssumption

\* The steps of each script, in order, and what they send.
LEMMA ScriptNames == DOMAIN Steps = {"deploy", "opt_in", "send", "check", "fund"}
  BY DEF Steps

LEMMA DeploySteps ==
  \A s : s = "deploy" =>
    /\ Len(Steps[s]) = 2
    /\ Steps[s][1] = "create" /\ Steps[s][2] = "fund"
    /\ StepKind[s][1] = "create" /\ StepKind[s][2] = "pay"
  BY DEF Steps, StepKind

LEMMA OptInSteps ==
  \A s : s = "opt_in" =>
    /\ Len(Steps[s]) = 2
    /\ Steps[s][1] = "fund" /\ Steps[s][2] = "opt_in"
    /\ StepKind[s][1] = "pay" /\ StepKind[s][2] = "opt_in"
  BY DEF Steps, StepKind

LEMMA FundSteps ==
  \A s : s = "fund" =>
    /\ Len(Steps[s]) = 2
    /\ Steps[s][1] = "anchor" /\ Steps[s][2] = "policy"
    /\ StepKind[s][1] = "pay" /\ StepKind[s][2] = "pay"
  BY DEF Steps, StepKind

LEMMA SendSteps ==
  \A s : s = "send" =>
    /\ Len(Steps[s]) = 4
    /\ Steps[s][1] = "take" /\ Steps[s][2] = "unfreeze" /\ Steps[s][3] = "transfer"
    /\ Steps[s][4] = "give"
    /\ StepKind[s][1] = "config" /\ StepKind[s][2] = "unfreeze" /\ StepKind[s][3] = "transfer"
    /\ StepKind[s][4] = "config"
  BY DEF Steps, StepKind

LEMMA CheckSteps ==
  \A s : s = "check" =>
    /\ Len(Steps[s]) = 5
    /\ Steps[s][1] = "read" /\ Steps[s][2] = "policy" /\ Steps[s][3] = "read"
    /\ Steps[s][4] = "anchor" /\ Steps[s][5] = "aacr"
    /\ StepKind[s][1] = "none" /\ StepKind[s][2] = "pay" /\ StepKind[s][3] = "none"
    /\ StepKind[s][4] = "pay" /\ StepKind[s][5] = "transfer"
  BY DEF Steps, StepKind

\* Where a terminal can be.
LEMMA PlaceFacts ==
  ASSUME TypeOK, NEW r \in Terminals
  PROVE  /\ script[r] \in {"none", "deploy", "opt_in", "send", "check", "fund"}
         /\ at[r] \in Nat /\ seen[r] \in Nat /\ app[r] \in deployed \cup {None}
         /\ wait[r] \in {"ready", "sent", "landed", "over"}
         /\ wait[r] = "over" <=> script[r] = "none"
         /\ wait[r] = "over" => at[r] = 0
         /\ wait[r] \in {"ready", "landed"} => tx[r] = None
         /\ script[r] # "none" => at[r] \in 1..Len(Steps[script[r]])
         /\ script[r] \in {"deploy", "opt_in", "fund"} => at[r] \in {1, 2}
         /\ script[r] = "send" => at[r] \in {1, 2, 3, 4}
         /\ script[r] = "check" => at[r] \in {1, 2, 3, 4, 5}
<1>1. /\ script[r] \in {"none", "deploy", "opt_in", "send", "check", "fund"}
      /\ at[r] \in Nat /\ seen[r] \in Nat /\ app[r] \in deployed \cup {None}
      /\ wait[r] \in {"ready", "sent", "landed", "over"}
  <2>1. /\ script \in [Terminals -> DOMAIN Steps \cup {"none"}]
        /\ at \in [Terminals -> Nat] /\ app \in [Terminals -> deployed \cup {None}]
        /\ seen \in [Terminals -> Nat]
        /\ wait \in [Terminals -> {"ready", "sent", "landed", "over"}]
    BY DEF TypeOK
  <2>2. DOMAIN Steps = {"deploy", "opt_in", "send", "check", "fund"}
    BY ScriptNames
  <2> QED
    BY <2>1, <2>2
<1>2. /\ IF wait[r] = "over" THEN script[r] = "none" /\ at[r] = 0
         ELSE script[r] # "none" /\ at[r] \in 1..Len(Steps[script[r]])
      /\ wait[r] \in {"ready", "landed"} => tx[r] = None
  BY DEF TypeOK
<1>3. script[r] # "none" => at[r] \in 1..Len(Steps[script[r]])
  BY <1>2
<1>4. script[r] \in {"deploy", "opt_in", "fund"} => Len(Steps[script[r]]) = 2
  BY DeploySteps, OptInSteps, FundSteps
<1>5. script[r] = "send" => Len(Steps[script[r]]) = 4
  BY SendSteps
<1>6. script[r] = "check" => Len(Steps[script[r]]) = 5
  BY CheckSteps
<1>7. /\ script[r] \in {"deploy", "opt_in", "fund"} => at[r] \in {1, 2}
      /\ script[r] = "send" => at[r] \in {1, 2, 3, 4}
      /\ script[r] = "check" => at[r] \in {1, 2, 3, 4, 5}
  <2>1. \A m \in Nat : /\ m \in 1..2 => m \in {1, 2}
                       /\ m \in 1..4 => m \in {1, 2, 3, 4}
                       /\ m \in 1..5 => m \in {1, 2, 3, 4, 5}
    OBVIOUS
  <2> QED
    BY <1>1, <1>3, <1>4, <1>5, <1>6, <2>1
<1> QED
  BY <1>1, <1>2, <1>3, <1>7

\* A script that is at a step has nothing in the pool, and the step tells its place.
LEMMA AtFacts ==
  ASSUME TypeOK, NEW r \in Terminals, NEW s, NEW step, At(r, s, step)
  PROVE  wait[r] = "ready" /\ script[r] = s /\ tx[r] = None /\ Steps[s][at[r]] = step
  BY PlaceFacts DEF At

LEMMA AtDeploy ==
  ASSUME TypeOK, NEW r \in Terminals
  PROVE  /\ At(r, "deploy", "create") => at[r] = 1
         /\ At(r, "deploy", "fund") => at[r] = 2
  BY PlaceFacts, DeploySteps DEF At

LEMMA AtOptIn ==
  ASSUME TypeOK, NEW r \in Terminals
  PROVE  /\ At(r, "opt_in", "fund") => at[r] = 1
         /\ At(r, "opt_in", "opt_in") => at[r] = 2
  BY PlaceFacts, OptInSteps DEF At

LEMMA AtSend ==
  ASSUME TypeOK, NEW r \in Terminals
  PROVE  /\ At(r, "send", "take") => at[r] = 1
         /\ At(r, "send", "unfreeze") => at[r] = 2
         /\ At(r, "send", "transfer") => at[r] = 3
         /\ At(r, "send", "give") => at[r] = 4
  BY PlaceFacts, SendSteps DEF At

LEMMA AtCheck ==
  ASSUME TypeOK, NEW r \in Terminals
  PROVE  /\ At(r, "check", "read") => at[r] \in {1, 3}
         /\ At(r, "check", "policy") => at[r] = 2
         /\ At(r, "check", "anchor") => at[r] = 4
         /\ At(r, "check", "aacr") => at[r] = 5
  BY PlaceFacts, CheckSteps DEF At

LEMMA AtFund ==
  ASSUME TypeOK, NEW r \in Terminals
  PROVE  /\ At(r, "fund", "anchor") => at[r] = 1
         /\ At(r, "fund", "policy") => at[r] = 2
  BY PlaceFacts, FundSteps DEF At

-----------------------------------------------------------------------------
(* The shapes of a step *)

\* Transaction t is one that terminal r's script may send now.
MaySend(r, t) ==
  /\ wait[r] = "ready" /\ script[r] # "none"
  /\ Legal(t) /\ t.kind = StepKind[script[r]][at[r]]
  /\ t.kind = "config" => script[r] = "send"
  /\ script[r] = "send" => /\ t.to = IF at[r] = 1 THEN Deployer ELSE app[r]
                           /\ t.kind = "transfer" => t.amount = SEND_AMOUNT
  /\ script[r] = "check" =>
       /\ at[r] \in {2, 4} => seen[r] - t.amount >= MIN_DEPLOYER_ALGO
       /\ at[r] = 5 => t.amount <= held[Deployer] - DEPLOYER_AACR_BUFFER

\* A step that a script leaves out.
MaySkip(r) ==
  /\ wait[r] = "ready"
  /\ \/ script[r] = "opt_in" /\ at[r] = 1
     \/ script[r] = "check" /\ at[r] \in {2, 4, 5}

\* The fields of a transaction.
LEMMA TxFields ==
  \A kind, to, amount : /\ Tx(kind, to, amount).kind = kind
                        /\ Tx(kind, to, amount).to = to
                        /\ Tx(kind, to, amount).amount = amount
  BY DEF Tx

\* What a script sends is legal, follows its order and, in demo_check, is covered.
LEMMA GoesShape ==
  ASSUME IndInv, NEW r \in Terminals, Goes(r)
  PROVE  \/ \E t : MaySend(r, t) /\ Sends(r, t)
         \/ MaySkip(r) /\ Skips(r)
         \/ ReadBalance(r)
         \/ Confirmed(r)
<1>t. TypeOK
  BY DEF IndInv
<1>a. \A s, step : At(r, s, step) => wait[r] = "ready" /\ script[r] = s /\ tx[r] = None
  BY <1>t, AtFacts
<1>k. script[r] # "none" /\ script[r] # "deploy" => app[r] \in deployed
  BY DEF IndInv, InOrder, AppIsKnown
<1>1. CASE CreateApp(r)
  <2>1. MaySend(r, Tx("create", None, 0))
    BY <1>t, <1>a, <1>1, AtFacts, AtDeploy, DeploySteps, Amounts, TxFields DEF CreateApp, MaySend, Legal
  <2> QED
    BY <1>1, <2>1 DEF CreateApp
<1>2. CASE FundApp(r)
  <2>1. app[r] \in deployed
    BY <1>t, <1>a, <1>2, AtFacts, AtDeploy DEF FundApp, IndInv, InOrder, AppIsKnown, Passed
  <2>2. MaySend(r, Tx("pay", app[r], DeployFund))
    BY <1>t, <1>a, <1>2, <2>1, AtFacts, AtDeploy, DeploySteps, Amounts, TxFields DEF FundApp, MaySend, Legal
  <2> QED
    BY <1>2, <2>2 DEF FundApp
<1>3. CASE FundOptIn(r)
  <2>1. At(r, "opt_in", "fund") /\ at[r] = 1
    BY <1>t, <1>3, AtFacts, AtOptIn DEF FundOptIn
  <2>2. MaySend(r, Tx("pay", app[r], OptInFund))
    BY <1>a, <1>k, <2>1, OptInSteps, Amounts, TxFields DEF MaySend, Legal
  <2>3. MaySkip(r)
    BY <1>a, <2>1 DEF MaySkip
  <2> QED
    BY <1>3, <2>2, <2>3 DEF FundOptIn
<1>4. CASE OptIn(r)
  <2>1. MaySend(r, Tx("opt_in", app[r], 0))
    BY <1>t, <1>a, <1>k, <1>4, AtFacts, AtOptIn, OptInSteps, Amounts, TxFields DEF OptIn, MaySend, Legal
  <2> QED
    BY <1>4, <2>1 DEF OptIn
<1>5. CASE TakeAuthority(r)
  <2>1. MaySend(r, Tx("config", Deployer, 0))
    BY <1>t, <1>a, <1>k, <1>5, AtFacts, AtSend, SendSteps, Amounts, TxFields DEF TakeAuthority, MaySend, Legal
  <2> QED
    BY <1>5, <2>1 DEF TakeAuthority
<1>6. CASE Unfreeze(r)
  <2>1. MaySend(r, Tx("unfreeze", app[r], 0))
    BY <1>t, <1>a, <1>k, <1>6, AtFacts, AtSend, SendSteps, Amounts, TxFields DEF Unfreeze, MaySend, Legal
  <2> QED
    BY <1>6, <2>1 DEF Unfreeze
<1>7. CASE SendAacr(r)
  <2>1. MaySend(r, Tx("transfer", app[r], SEND_AMOUNT))
    BY <1>t, <1>a, <1>k, <1>7, AtFacts, AtSend, SendSteps, Amounts, TxFields DEF SendAacr, MaySend, Legal
  <2> QED
    BY <1>7, <2>1 DEF SendAacr
<1>8. CASE GiveAuthority(r)
  <2>1. MaySend(r, Tx("config", app[r], 0))
    BY <1>t, <1>a, <1>k, <1>8, AtFacts, AtSend, SendSteps, Amounts, TxFields DEF GiveAuthority, MaySend, Legal
  <2> QED
    BY <1>8, <2>1 DEF GiveAuthority
<1>9. CASE FundAnchor(r)
  <2>1. MaySend(r, Tx("pay", Anchor, DefaultFund))
    BY <1>t, <1>a, <1>k, <1>9, AtFacts, AtFund, FundSteps, Amounts, TxFields DEF FundAnchor, MaySend, Legal
  <2> QED
    BY <1>9, <2>1 DEF FundAnchor
<1>10. CASE FundPolicy(r)
  <2>1. MaySend(r, Tx("pay", app[r], DefaultFund))
    BY <1>t, <1>a, <1>k, <1>10, AtFacts, AtFund, FundSteps, Amounts, TxFields DEF FundPolicy, MaySend, Legal
  <2> QED
    BY <1>10, <2>1 DEF FundPolicy
<1>11. ASSUME NEW step, NEW account, NEW amount \in Nat, account \in {app[r], Anchor},
              step = "policy" \/ step = "anchor", CheckContractAlgo(r, step, account, amount)
       PROVE  (\E t : MaySend(r, t) /\ Sends(r, t)) \/ (MaySkip(r) /\ Skips(r))
  <2>1. At(r, "check", step) /\ at[r] \in {2, 4}
    BY <1>t, <1>11, AtFacts, AtCheck DEF CheckContractAlgo
  <2>2. CASE Skips(r)
    BY <1>a, <2>1, <2>2 DEF MaySkip
  <2>3. CASE ~Skips(r)
    <3>1. ~(algo[account] - needed[account] >= MIN_HEADROOM \/ seen[r] - amount < MIN_DEPLOYER_ALGO)
      BY <1>11, <2>3 DEF CheckContractAlgo
    <3>2. Sends(r, Tx("pay", account, amount))
      BY <1>11, <3>1 DEF CheckContractAlgo
    <3>3. seen[r] - amount >= MIN_DEPLOYER_ALGO
      <4>1. seen[r] \in Nat
        BY <1>t, PlaceFacts
      <4> QED
        BY <1>11, <3>1, <4>1, Amounts
    <3>4. MaySend(r, Tx("pay", account, amount))
      BY <1>a, <1>k, <1>11, <2>1, <3>3, CheckSteps, Amounts, TxFields DEF MaySend, Legal
    <3> QED
      BY <3>2, <3>4
  <2> QED
    BY <2>2, <2>3
<1>12. CASE CheckPolicyAacr(r)
  <2> DEFINE amount == Least(AACR_TOPUP, held[Deployer] - DEPLOYER_AACR_BUFFER)
  <2>1. At(r, "check", "aacr") /\ at[r] = 5
    BY <1>t, <1>12, AtFacts, AtCheck DEF CheckPolicyAacr
  <2>2. CASE Skips(r)
    BY <1>a, <2>1, <2>2 DEF MaySkip
  <2>3. CASE ~Skips(r)
    <3>1. Sends(r, Tx("transfer", app[r], amount)) /\ ~(amount <= 0)
      BY <1>12, <2>3 DEF CheckPolicyAacr
    <3>2. held[Deployer] \in Nat
      BY <1>t DEF TypeOK
    <3>3. amount \in Nat /\ amount <= held[Deployer] - DEPLOYER_AACR_BUFFER
      BY <3>1, <3>2, Amounts DEF Least
    <3> HIDE DEF amount
    <3>4. MaySend(r, Tx("transfer", app[r], amount))
      BY <1>a, <1>k, <2>1, <3>3, CheckSteps, Amounts, TxFields DEF MaySend, Legal
    <3> QED
      BY <3>1, <3>4
  <2> QED
    BY <2>2, <2>3
<1>13. CASE \/ CheckContractAlgo(r, "policy", app[r], POLICY_FUND_ALGO)
            \/ CheckContractAlgo(r, "anchor", Anchor, ANCHOR_FUND_ALGO)
  BY <1>11, <1>13, Amounts
<1>14. CASE ReadBalance(r) \/ Confirmed(r)
  BY <1>14
<1> QED
  BY <1>1, <1>2, <1>3, <1>4, <1>5, <1>6, <1>7, <1>8, <1>9, <1>10, <1>12, <1>13, <1>14 DEF Goes

-----------------------------------------------------------------------------
(* What a step leaves alone *)

\* Nothing changes at terminal q.
SameAt(q) ==
  /\ script'[q] = script[q] /\ at'[q] = at[q] /\ app'[q] = app[q]
  /\ seen'[q] = seen[q] /\ wait'[q] = wait[q] /\ tx'[q] = tx[q]

\* What the ledger gains it keeps: the AACR of a contract is spent on receipts only.
LedgerGrows ==
  /\ deployed \subseteq deployed' /\ unfrozen \subseteq unfrozen'
  /\ \A a \in Apps : held[a] # None =>
       held'[a] # None /\ held'[a] + minted'[a] >= held[a] + minted[a]

\* The deployer's balances and the authority are as a running script relies on: what a
\* demo_check under way misses of its ALGO has gone into fees.
DeployerIsLeftAlone ==
  /\ authority' = authority
  /\ held'[Deployer] >= held[Deployer]
  /\ (\E r \in Terminals : script[r] = "check") =>
       algo'[Deployer] + spent' = algo[Deployer] + spent

\* The parts of the type invariant that concern a terminal's place and balances.
LEMMA TypeFacts ==
  ASSUME TypeOK
  PROVE  /\ deployed \subseteq Apps /\ unfrozen \subseteq deployed
         /\ \A a \in Apps \cup {Deployer, Anchor} : algo[a] \in Nat /\ needed[a] \in Nat
         /\ spent \in Nat
         /\ \A a \in Apps \cup {Deployer} : held[a] \in Nat \cup {None}
         /\ held[Deployer] \in Nat
         /\ \A a \in Apps : minted[a] \in Nat
         /\ None \notin Nat /\ None \notin Apps /\ None # Deployer
         /\ Deployer \notin Apps /\ Anchor \notin Apps
<1>1. /\ deployed \subseteq Apps /\ unfrozen \subseteq deployed
      /\ algo \in [Apps \cup {Deployer, Anchor} -> Nat]
      /\ needed \in [Apps \cup {Deployer, Anchor} -> Nat] /\ spent \in Nat
      /\ held \in [Apps \cup {Deployer} -> Nat \cup {None}] /\ held[Deployer] # None
      /\ minted \in [Apps -> 0..MaxMints]
  BY DEF TypeOK
<1>2. \A m \in 0..MaxMints : m \in Nat
  BY Amounts
<1> QED
  BY <1>1, <1>2, NamesAssumption

\* A step leaves a terminal that it does not touch in order.
LEMMA OthersKeep ==
  ASSUME IndInv, TypeOK', LedgerGrows, patient' = patient, NEW q \in Terminals, SameAt(q),
         patient /\ script[q] # "none" => DeployerIsLeftAlone
  PROVE  InOrder(q)'
<1>t. TypeOK /\ InOrder(q)
  BY DEF IndInv
<1>p. \A i : Passed(q, i)' <=> Passed(q, i)
  BY DEF SameAt, Passed
<1>s. /\ script'[q] = script[q] /\ at'[q] = at[q] /\ app'[q] = app[q]
      /\ seen'[q] = seen[q] /\ wait'[q] = wait[q] /\ tx'[q] = tx[q] /\ patient' = patient
  BY DEF SameAt
<1>d. deployed \subseteq deployed' /\ unfrozen \subseteq unfrozen' /\ deployed \subseteq Apps
  BY <1>t, TypeFacts DEF LedgerGrows
<1>1. TxIsLegal(q)'
  BY <1>t, <1>s, <1>d DEF InOrder, TxIsLegal, Legal
<1>2. AppIsKnown(q)'
  BY <1>t, <1>s, <1>d, <1>p DEF InOrder, AppIsKnown
<1>3. SendHasEffect(q)'
  <2> SUFFICES ASSUME script[q] = "send"
               PROVE  SendHasEffect(q)'
    BY <1>s DEF SendHasEffect
  <2>1. SendHasEffect(q) /\ app[q] \in Apps
    BY <1>t, <1>d DEF InOrder, AppIsKnown
  <2>2. held[app[q]] # None => /\ held'[app[q]] # None
                               /\ held'[app[q]] + minted'[app[q]] >= held[app[q]] + minted[app[q]]
    BY <2>1 DEF LedgerGrows
  <2>3. /\ held[app[q]] \in Nat \cup {None} /\ held'[app[q]] \in Nat \cup {None}
        /\ minted[app[q]] \in Nat /\ minted'[app[q]] \in Nat /\ SEND_AMOUNT \in Nat
    <3>1. held'[app[q]] \in Nat \cup {None} /\ minted'[app[q]] \in 0..MaxMints
      BY <2>1 DEF TypeOK
    <3> QED
      BY <1>t, <2>1, <3>1, TypeFacts, Amounts
  <2>4. patient => authority' = authority
    BY DEF DeployerIsLeftAlone
  <2>5. /\ tx[q] # None => /\ tx[q].to = IF at[q] = 1 THEN Deployer ELSE app[q]
                           /\ tx[q].kind = "transfer" => tx[q].amount = SEND_AMOUNT
        /\ Passed(q, 2) => app[q] \in unfrozen
        /\ Passed(q, 3) => held[app[q]] # None /\ held[app[q]] + minted[app[q]] >= SEND_AMOUNT
        /\ patient /\ Passed(q, 1) => authority = IF Passed(q, 4) THEN app[q] ELSE Deployer
    BY <2>1 DEF SendHasEffect
  <2>6. Passed(q, 3)' => /\ held'[app'[q]] # None
                         /\ held'[app'[q]] + minted'[app'[q]] >= SEND_AMOUNT
    <3>1. held[app[q]] # None /\ held[app[q]] \in Nat \cup {None} => held[app[q]] \in Nat
      OBVIOUS
    <3>2. held'[app[q]] # None /\ held'[app[q]] \in Nat \cup {None} => held'[app[q]] \in Nat
      OBVIOUS
    <3> QED
      BY <1>p, <1>s, <2>2, <2>3, <2>5, <3>1, <3>2
  <2>7. Passed(q, 2)' => app'[q] \in unfrozen'
    BY <1>p, <1>s, <1>d, <2>5
  <2>8. patient' /\ Passed(q, 1)' => authority' = IF Passed(q, 4)' THEN app'[q] ELSE Deployer
    BY <1>p, <1>s, <2>4, <2>5
  <2>9. tx'[q] # None => /\ tx'[q].to = IF at'[q] = 1 THEN Deployer ELSE app'[q]
                         /\ tx'[q].kind = "transfer" => tx'[q].amount = SEND_AMOUNT
    BY <1>s, <2>5
  <2> QED
    BY <2>6, <2>7, <2>8, <2>9 DEF SendHasEffect
<1>4. TopUpIsCovered(q)'
  <2> SUFFICES ASSUME patient, script[q] = "check"
               PROVE  TopUpIsCovered(q)'
    BY <1>s DEF TopUpIsCovered
  <2>1. TopUpIsCovered(q)
    BY <1>t DEF InOrder
  <2>2. /\ algo'[Deployer] + spent' = algo[Deployer] + spent
        /\ held'[Deployer] >= held[Deployer]
    BY DEF DeployerIsLeftAlone
  <2>3. /\ at[q] \in {1, 3} => wait[q] = "ready"
        /\ at[q] \in {2, 4} /\ wait[q] # "landed" =>
             /\ seen[q] = algo[Deployer] + spent
             /\ tx[q] # None => seen[q] - tx[q].amount >= MIN_DEPLOYER_ALGO
    BY <2>1 DEF TopUpIsCovered
  <2>4. at[q] = 5 /\ tx[q] # None => tx'[q].amount <= held'[Deployer] - DEPLOYER_AACR_BUFFER
    <3> SUFFICES ASSUME at[q] = 5, tx[q] # None
                 PROVE  tx[q].amount <= held'[Deployer] - DEPLOYER_AACR_BUFFER
      BY <1>s
    <3>1. tx[q].amount <= held[Deployer] - DEPLOYER_AACR_BUFFER
      BY <2>1 DEF TopUpIsCovered
    <3>2. held[Deployer] \in Nat /\ held'[Deployer] \in Nat
      <4>1. held'[Deployer] \in Nat \cup {None} /\ held'[Deployer] # None
        BY DEF TypeOK
      <4> QED
        BY <1>t, <4>1, TypeFacts
    <3>3. tx[q].amount \in Int
      <4>1. Legal(tx[q]) /\ tx[q].kind = "transfer"
        BY <1>t, <2>1, PlaceFacts, CheckSteps DEF InOrder, TxIsLegal
      <4> QED
        BY <4>1 DEF Legal
    <3> HIDE DEF SameAt, LedgerGrows
    <3> QED
      BY <2>2, <3>1, <3>2, <3>3, Amounts
  <2> QED
    BY <1>s, <2>2, <2>3, <2>4 DEF TopUpIsCovered
<1> QED
  BY <1>1, <1>2, <1>3, <1>4 DEF InOrder

\* With patience the script or transaction under way is the only one.
LEMMA OneScriptKept ==
  ASSUME OneScript, patient' = patient, NEW r \in Terminals, ~Idle(r),
         \A q \in Terminals : q # r => SameAt(q)
  PROVE  OneScript'
BY DEF OneScript, Idle, SameAt

\* A contract that was called ready stays so: the script that called it so is over, and
\* only that script takes the authority away.
LEMMA ReadyKept ==
  ASSUME IndInv, TypeOK', LedgerGrows, patient' = patient, ready' \in {ready, None},
         ready # None /\ patient =>
           /\ authority' = authority
           /\ \A r \in Terminals : /\ script'[r] # "send"
                                   /\ tx'[r] # None => tx'[r].kind # "config"
  PROVE  ReadyIsReady' /\ ReadyIsLeftAlone'
<1> SUFFICES ASSUME ready # None, ready' = ready
             PROVE  ReadyIsReady' /\ ReadyIsLeftAlone'
  BY DEF ReadyIsReady, ReadyIsLeftAlone
<1>t. TypeOK /\ ReadyIsReady /\ ReadyIsLeftAlone
  BY DEF IndInv
<1>1. ready \in deployed /\ ready \in Apps
  <2>1. ready \in deployed \cup {None}
    BY <1>t DEF TypeOK
  <2> QED
    BY <1>t, <2>1, TypeFacts
<1>2. /\ ready \in unfrozen /\ held[ready] + minted[ready] >= SEND_AMOUNT
      /\ patient => authority = ready
      /\ held[ready] # None
  BY <1>t DEF ReadyIsReady, ReadyIsLeftAlone
<1>3. ready \in unfrozen' /\ held'[ready] # None
  BY <1>1, <1>2 DEF LedgerGrows
<1>4. held'[ready] + minted'[ready] >= SEND_AMOUNT
  <2>1. held'[ready] + minted'[ready] >= held[ready] + minted[ready]
    BY <1>1, <1>2 DEF LedgerGrows
  <2>2. held[ready] \in Nat /\ minted[ready] \in Nat
    BY <1>t, <1>1, <1>2, TypeFacts
  <2>3. held'[ready] \in Nat \cup {None} /\ minted'[ready] \in 0..MaxMints
    BY <1>1 DEF TypeOK
  <2>4. held'[ready] \in Nat /\ minted'[ready] \in Nat
    BY <1>3, <2>3, Amounts
  <2> QED
    BY <1>2, <2>1, <2>2, <2>4, Amounts
<1> QED
  BY <1>2, <1>3, <1>4 DEF ReadyIsReady, ReadyIsLeftAlone

\* A step that touches no account.
LEMMA LedgerIsKept ==
  ASSUME TypeOK, UNCHANGED <<ledger, minted>>
  PROVE  LedgerGrows /\ DeployerIsLeftAlone
<1>1. \A a \in Apps : held[a] # None => held[a] \in Nat /\ minted[a] \in Nat
  BY TypeFacts
<1>2. held[Deployer] \in Nat
  BY TypeFacts
<1> QED
  BY <1>1, <1>2 DEF ledger, holdings, LedgerGrows, DeployerIsLeftAlone

-----------------------------------------------------------------------------
(* The steps of a script *)

\* A script starts.
LEMMA StartKeeps ==
  ASSUME IndInv, NEW r \in Terminals, NEW s \in DOMAIN Steps, Start(r, s)
  PROVE  IndInv'
<1>t. TypeOK
  BY DEF IndInv
<1>s. /\ script' = [script EXCEPT ![r] = s] /\ at' = [at EXCEPT ![r] = 1]
      /\ app' = [app EXCEPT ![r] = IF s = "deploy" THEN None ELSE policyApp]
      /\ wait' = [wait EXCEPT ![r] = "ready"]
      /\ UNCHANGED <<ledger, minted, policyApp, seen, tx, patient, faults>>
      /\ wait[r] = "over" /\ tx[r] = None /\ (patient => Quiet)
      /\ s # "deploy" => policyApp # None
      /\ ready' = IF s = "send" THEN None ELSE ready
  BY DEF Start
<1>n. s \in {"deploy", "opt_in", "send", "check", "fund"} /\ s # "none"
  BY ScriptNames
<1>l. 1 \in 1..Len(Steps[s])
  BY <1>n, DeploySteps, OptInSteps, FundSteps, SendSteps, CheckSteps
<1>k. /\ deployed' = deployed /\ policyApp \in deployed \cup {None}
  BY <1>t, <1>s DEF ledger, holdings, TypeOK
<1>0. TypeOK'
  <2>1. /\ script' \in [Terminals -> DOMAIN Steps \cup {"none"}]
        /\ at' \in [Terminals -> Nat] /\ app' \in [Terminals -> deployed \cup {None}]
        /\ wait' \in [Terminals -> {"ready", "sent", "landed", "over"}]
    BY <1>t, <1>s, <1>k DEF TypeOK
  <2>2. \A q \in Terminals :
          /\ IF wait'[q] = "over" THEN script'[q] = "none" /\ at'[q] = 0
             ELSE script'[q] # "none" /\ at'[q] \in 1..Len(Steps[script'[q]])
          /\ wait'[q] \in {"ready", "landed"} => tx'[q] = None
    BY <1>t, <1>s, <1>n, <1>l DEF TypeOK
  <2>3. ready' \in deployed \cup {None}
    BY <1>t, <1>s DEF TypeOK
  <2> QED
    BY <1>t, <1>s, <1>k, <2>1, <2>2, <2>3 DEF TypeOK, ledger, holdings
<1>g. LedgerGrows /\ DeployerIsLeftAlone
  BY <1>t, <1>s, LedgerIsKept
<1>1. ASSUME NEW q \in Terminals
      PROVE  InOrder(q)'
  <2>1. CASE q # r
    <3>1. SameAt(q)
      BY <1>t, <1>s, <2>1 DEF SameAt, TypeOK
    <3> QED
      BY <1>0, <1>g, <1>s, <3>1, OthersKeep
  <2>2. CASE q = r
    <3>1. /\ script'[q] = s /\ at'[q] = 1 /\ wait'[q] = "ready" /\ tx'[q] = None
          /\ app'[q] = IF s = "deploy" THEN None ELSE policyApp
      BY <1>t, <1>s, <2>2 DEF TypeOK
    <3>2. \A i \in Nat \ {0} : ~Passed(q, i)'
      BY <3>1 DEF Passed
    <3>3. AppIsKnown(q)'
      BY <1>s, <1>k, <3>1, <3>2 DEF AppIsKnown
    <3>4. SendHasEffect(q)'
      BY <3>1, <3>2 DEF SendHasEffect
    <3>5. TxIsLegal(q)' /\ TopUpIsCovered(q)'
      BY <3>1 DEF TxIsLegal, TopUpIsCovered
    <3> QED
      BY <3>3, <3>4, <3>5 DEF InOrder
  <2> QED
    BY <2>1, <2>2
<1>2. OneScript'
  <2>1. patient => \A q \in Terminals : q # r => wait'[q] = "over" /\ tx'[q] = None
    BY <1>t, <1>s DEF Quiet, TypeOK
  <2> QED
    BY <1>s, <2>1 DEF OneScript, Idle
<1>3. ReadyIsReady' /\ ReadyIsLeftAlone'
  <2>1. CASE s = "send"
    BY <1>s, <2>1 DEF ReadyIsReady, ReadyIsLeftAlone
  <2>2. CASE s # "send"
    <3>1. ready # None /\ patient => \A q \in Terminals :
            script'[q] # "send" /\ (tx'[q] # None => tx'[q].kind # "config")
      BY <1>t, <1>s, <2>2 DEF IndInv, ReadyIsLeftAlone, TypeOK
    <3> QED
      BY <1>0, <1>g, <1>s, <3>1, ReadyKept DEF DeployerIsLeftAlone
  <2> QED
    BY <2>1, <2>2
<1> QED
  BY <1>0, <1>1, <1>2, <1>3 DEF IndInv

\* A script sends a transaction.
LEMMA SendKeeps ==
  ASSUME IndInv, NEW r \in Terminals, NEW t, MaySend(r, t), Sends(r, t)
  PROVE  IndInv'
<1>t. TypeOK /\ InOrder(r)
  BY DEF IndInv
<1>s. /\ tx' = [tx EXCEPT ![r] = t] /\ wait' = [wait EXCEPT ![r] = "sent"]
      /\ UNCHANGED <<ledger, minted, policyApp, script, at, app, seen, ready, patient, faults>>
      /\ wait[r] = "ready" /\ script[r] # "none"
  BY DEF Sends, MaySend
<1>k. deployed' = deployed
  BY <1>s DEF ledger, holdings
<1>0. TypeOK'
  <2>1. wait' \in [Terminals -> {"ready", "sent", "landed", "over"}] /\ DOMAIN tx' = Terminals
    BY <1>t, <1>s DEF TypeOK
  <2>2. \A q \in Terminals :
          /\ IF wait'[q] = "over" THEN script'[q] = "none" /\ at'[q] = 0
             ELSE script'[q] # "none" /\ at'[q] \in 1..Len(Steps[script'[q]])
          /\ wait'[q] \in {"ready", "landed"} => tx'[q] = None
    BY <1>t, <1>s DEF TypeOK
  <2> QED
    BY <1>t, <1>s, <2>1, <2>2 DEF TypeOK, ledger, holdings
<1>g. LedgerGrows /\ DeployerIsLeftAlone
  BY <1>t, <1>s, LedgerIsKept
<1>1. ASSUME NEW q \in Terminals
      PROVE  InOrder(q)'
  <2>1. CASE q # r
    <3>1. SameAt(q)
      BY <1>t, <1>s, <2>1 DEF SameAt, TypeOK
    <3> QED
      BY <1>0, <1>g, <1>s, <3>1, OthersKeep
  <2>2. CASE q = r
    <3>1. /\ script'[r] = script[r] /\ at'[r] = at[r] /\ app'[r] = app[r] /\ seen'[r] = seen[r]
          /\ wait'[r] = "sent" /\ tx'[r] = t /\ patient' = patient
      BY <1>t, <1>s DEF TypeOK
    <3>2. \A i : Passed(r, i)' <=> Passed(r, i)
      BY <1>s, <3>1 DEF Passed
    <3>3. TxIsLegal(r)'
      BY <1>k, <3>1 DEF TxIsLegal, MaySend, Legal
    <3>4. AppIsKnown(r)'
      BY <1>t, <1>k, <3>1, <3>2 DEF InOrder, AppIsKnown
    <3>5. SendHasEffect(r)'
      <4>1. script[r] = "send" => /\ t.to = IF at[r] = 1 THEN Deployer ELSE app[r]
                                  /\ t.kind = "transfer" => t.amount = SEND_AMOUNT
        BY DEF MaySend
      <4>2. script[r] = "send" =>
              /\ Passed(r, 2) => app[r] \in unfrozen
              /\ Passed(r, 3) => /\ held[app[r]] # None
                                 /\ held[app[r]] + minted[app[r]] >= SEND_AMOUNT
              /\ patient /\ Passed(r, 1) => authority = IF Passed(r, 4) THEN app[r] ELSE Deployer
        BY <1>t DEF InOrder, SendHasEffect
      <4>3. held' = held /\ minted' = minted /\ unfrozen' = unfrozen /\ authority' = authority
        BY <1>s DEF ledger, holdings
      <4> QED
        BY <3>1, <3>2, <4>1, <4>2, <4>3 DEF SendHasEffect
    <3>6. TopUpIsCovered(r)'
      <4> SUFFICES ASSUME patient, script[r] = "check"
                   PROVE  TopUpIsCovered(r)'
        BY <3>1 DEF TopUpIsCovered
      <4>1. at[r] \in {2, 4} => seen[r] = algo[Deployer] + spent
        BY <1>t, <1>s DEF InOrder, TopUpIsCovered
      <4>3. at[r] \notin {1, 3}
        BY CheckSteps DEF MaySend, Legal
      <4>2. /\ at[r] \in {2, 4} => seen[r] - t.amount >= MIN_DEPLOYER_ALGO
            /\ at[r] = 5 => t.amount <= held[Deployer] - DEPLOYER_AACR_BUFFER
        BY DEF MaySend
      <4>4. algo' = algo /\ held' = held /\ spent' = spent
        BY <1>s DEF ledger, holdings
      <4> QED
        BY <3>1, <4>1, <4>2, <4>3, <4>4 DEF TopUpIsCovered
    <3> QED
      BY <2>2, <3>3, <3>4, <3>5, <3>6 DEF InOrder
  <2> QED
    BY <2>1, <2>2
<1>2. OneScript'
  <2>1. \A q \in Terminals : q # r => SameAt(q)
    BY <1>t, <1>s DEF SameAt, TypeOK
  <2>2. ~Idle(r)
    BY <1>s DEF Idle
  <2> QED
    BY <1>s, <2>1, <2>2, OneScriptKept DEF IndInv
<1>3. ReadyIsReady' /\ ReadyIsLeftAlone'
  <2>1. ready # None /\ patient => \A q \in Terminals :
          script'[q] # "send" /\ (tx'[q] # None => tx'[q].kind # "config")
    BY <1>t, <1>s DEF IndInv, ReadyIsLeftAlone, TypeOK, MaySend
  <2> QED
    BY <1>0, <1>g, <1>s, <2>1, ReadyKept DEF DeployerIsLeftAlone
<1> QED
  BY <1>0, <1>1, <1>2, <1>3 DEF IndInv

\* A script goes on to its next step, or ends after its last: after a step it left out,
\* or one whose transaction landed.
LEMMA AdvanceKeeps ==
  ASSUME IndInv, NEW r \in Terminals, Advance(r),
         MaySkip(r) \/ wait[r] = "landed",
         UNCHANGED <<ledger, minted, tx, patient, faults>>,
         policyApp' \in deployed \cup {None}, ready' \in deployed \cup {None}
  PROVE  /\ TypeOK' /\ OneScript' /\ \A q \in Terminals : InOrder(q)'
         /\ \A q \in Terminals : script'[q] = script[q] \/ script'[q] = "none"
<1> DEFINE Ended == /\ script'[r] = "none" /\ at'[r] = 0 /\ wait'[r] = "over"
           Next1 == /\ at[r] # Len(Steps[script[r]])
                    /\ script'[r] = script[r] /\ at'[r] = at[r] + 1 /\ wait'[r] = "ready"
                    /\ app'[r] = app[r] /\ seen'[r] = seen[r]
<1>t. TypeOK /\ InOrder(r)
  BY DEF IndInv
<1>n. /\ wait[r] \in {"ready", "landed"} /\ script[r] # "none" /\ tx[r] = None
      /\ at[r] \in Nat /\ at[r] \in 1..Len(Steps[script[r]])
      /\ tx' = tx /\ patient' = patient
  BY <1>t, PlaceFacts DEF MaySkip
<1>k. deployed' = deployed
  BY DEF ledger, holdings
<1>1. /\ script' \in [Terminals -> DOMAIN Steps \cup {"none"}]
      /\ at' \in [Terminals -> Nat] /\ app' \in [Terminals -> deployed \cup {None}]
      /\ seen' \in [Terminals -> Nat]
      /\ wait' \in [Terminals -> {"ready", "sent", "landed", "over"}]
  <2>1. CASE Ends(r)
    BY <1>t, <2>1 DEF TypeOK, Ends
  <2>2. CASE ~Ends(r)
    <3>1. /\ at' = [at EXCEPT ![r] = @ + 1] /\ wait' = [wait EXCEPT ![r] = "ready"]
          /\ script' = script /\ app' = app /\ seen' = seen
      BY <2>2 DEF Advance
    <3>2. /\ script \in [Terminals -> DOMAIN Steps \cup {"none"}]
          /\ at \in [Terminals -> Nat] /\ app \in [Terminals -> deployed \cup {None}]
          /\ seen \in [Terminals -> Nat]
          /\ wait \in [Terminals -> {"ready", "sent", "landed", "over"}]
      BY <1>t DEF TypeOK
    <3>3. at' \in [Terminals -> Nat] /\ wait' \in [Terminals -> {"ready", "sent", "landed", "over"}]
      BY <3>1, <3>2
    <3> QED
      BY <3>1, <3>2, <3>3
  <2> QED
    BY <2>1, <2>2
<1>2. \A q \in Terminals : q # r => SameAt(q)
  BY <1>t DEF TypeOK, Ends, Advance, SameAt
<1>3. Ended \/ Next1
  BY <1>t DEF TypeOK, Ends, Advance
<1>4. TypeOK'
  <2>1. ASSUME NEW q \in Terminals
        PROVE  /\ IF wait'[q] = "over" THEN script'[q] = "none" /\ at'[q] = 0
                  ELSE script'[q] # "none" /\ at'[q] \in 1..Len(Steps[script'[q]])
               /\ wait'[q] \in {"ready", "landed"} => tx'[q] = None
    <3>1. CASE q # r
      BY <1>t, <1>2, <3>1 DEF TypeOK, SameAt
    <3>2. CASE q = r /\ Ended
      BY <3>2
    <3>3. CASE q = r /\ Next1
      <4>1. script[r] \in {"deploy", "opt_in", "send", "check", "fund"}
        BY <1>t, <1>n, PlaceFacts
      <4>2. Len(Steps[script[r]]) \in Nat
        BY <4>1, DeploySteps, OptInSteps, FundSteps, SendSteps, CheckSteps
      <4>3. at[r] + 1 \in 1..Len(Steps[script[r]])
        BY <1>n, <3>3, <4>2
      <4> QED
        BY <1>n, <3>3, <4>3
    <3> QED
      BY <1>3, <3>1, <3>2, <3>3
  <2> QED
    BY <1>t, <1>k, <1>1, <2>1 DEF TypeOK, ledger, holdings
<1>5. OneScript'
  BY <1>n, <1>2, OneScriptKept DEF IndInv, Idle
<1>g. LedgerGrows /\ DeployerIsLeftAlone
  BY <1>t, LedgerIsKept
<1>6. ASSUME Next1
      PROVE  InOrder(r)'
  <2>1. script[r] = "send" \/ script[r] = "deploy" => wait[r] = "landed"
    BY DEF MaySkip
  <2>2. \A i \in Nat : wait[r] = "landed" => (Passed(r, i)' <=> Passed(r, i))
    BY <1>n, <1>6 DEF Passed
  <2>3. TxIsLegal(r)'
    BY <1>n DEF TxIsLegal
  <2>4. AppIsKnown(r)'
    BY <1>t, <1>k, <1>n, <1>6, <2>1, <2>2 DEF InOrder, AppIsKnown
  <2>5. SendHasEffect(r)'
    <3> SUFFICES ASSUME script[r] = "send"
                 PROVE  SendHasEffect(r)'
      BY <1>6 DEF SendHasEffect
    <3>1. /\ Passed(r, 2) => app[r] \in unfrozen
          /\ Passed(r, 3) => /\ held[app[r]] # None
                             /\ held[app[r]] + minted[app[r]] >= SEND_AMOUNT
          /\ patient /\ Passed(r, 1) => authority = IF Passed(r, 4) THEN app[r] ELSE Deployer
      BY <1>t DEF InOrder, SendHasEffect
    <3>2. held' = held /\ minted' = minted /\ unfrozen' = unfrozen /\ authority' = authority
      BY DEF ledger, holdings
    <3>3. \A i \in {1, 2, 3, 4} : Passed(r, i)' <=> Passed(r, i)
      BY <2>1, <2>2
    <3> QED
      BY <1>n, <1>6, <3>1, <3>2, <3>3 DEF SendHasEffect
  <2>6. TopUpIsCovered(r)'
    <3> SUFFICES ASSUME patient, script[r] = "check"
                 PROVE  TopUpIsCovered(r)'
      BY <1>n, <1>6 DEF TopUpIsCovered
    <3>1. at[r] \in {2, 4, 5}
      BY <1>t, <1>n, PlaceFacts DEF InOrder, TopUpIsCovered, MaySkip
    <3>2. at'[r] \notin {2, 4}
      BY <1>6, <3>1
    <3> QED
      BY <1>n, <1>6, <3>2 DEF TopUpIsCovered
  <2> QED
    BY <2>3, <2>4, <2>5, <2>6 DEF InOrder
<1>7. ASSUME Ended
      PROVE  InOrder(r)'
  BY <1>n, <1>7 DEF InOrder, TxIsLegal, AppIsKnown, SendHasEffect, TopUpIsCovered
<1>8. \A q \in Terminals : q # r => InOrder(q)'
  BY <1>2, <1>4, <1>g, <1>n, OthersKeep
<1> QED
  BY <1>2, <1>3, <1>4, <1>5, <1>6, <1>7, <1>8 DEF SameAt

\* A script leaves a step out.
LEMMA SkipKeeps ==
  ASSUME IndInv, NEW r \in Terminals, MaySkip(r), Skips(r)
  PROVE  IndInv'
<1>t. TypeOK
  BY DEF IndInv
<1>s. Advance(r) /\ UNCHANGED <<ledger, minted, policyApp, tx, ready, patient, faults>>
  BY DEF Skips
<1>1. policyApp' \in deployed \cup {None} /\ ready' \in deployed \cup {None}
  BY <1>t, <1>s DEF TypeOK
<1>2. /\ TypeOK' /\ OneScript' /\ \A q \in Terminals : InOrder(q)'
      /\ \A q \in Terminals : script'[q] = script[q] \/ script'[q] = "none"
  BY <1>s, <1>1, AdvanceKeeps
<1>3. LedgerGrows /\ DeployerIsLeftAlone
  BY <1>t, <1>s, LedgerIsKept
<1>4. ready # None /\ patient => \A q \in Terminals :
        script'[q] # "send" /\ (tx'[q] # None => tx'[q].kind # "config")
  BY <1>s, <1>2 DEF IndInv, ReadyIsLeftAlone
<1>5. ReadyIsReady' /\ ReadyIsLeftAlone'
  BY <1>s, <1>2, <1>3, <1>4, ReadyKept DEF DeployerIsLeftAlone
<1> QED
  BY <1>2, <1>5 DEF IndInv

\* A script hears that its transaction landed: deploy_phase2 has its contract, which goes
\* into .env, and send_aacr_to_policy at its end a contract that is ready.
LEMMA ConfirmKeeps ==
  ASSUME IndInv, NEW r \in Terminals, Confirmed(r)
  PROVE  IndInv'
<1>t. TypeOK /\ InOrder(r)
  BY DEF IndInv
<1>s. /\ wait[r] = "landed" /\ Advance(r)
      /\ policyApp' = IF script[r] = "deploy" /\ at[r] = 1 THEN app[r] ELSE policyApp
      /\ ready' = IF script[r] = "send" /\ at[r] = 4 THEN app[r] ELSE ready
      /\ UNCHANGED <<ledger, minted, tx, patient, faults>>
  BY DEF Confirmed
<1>n. script[r] # "none" /\ tx[r] = None
  BY <1>t, <1>s, PlaceFacts
<1>k. script[r] # "deploy" \/ at[r] = 1 => app[r] \in deployed
  BY <1>t, <1>s, <1>n DEF InOrder, AppIsKnown, Passed
<1>1. policyApp' \in deployed \cup {None} /\ ready' \in deployed \cup {None}
  BY <1>t, <1>s, <1>k DEF TypeOK
<1>2. /\ TypeOK' /\ OneScript' /\ \A q \in Terminals : InOrder(q)'
      /\ \A q \in Terminals : script'[q] = script[q] \/ script'[q] = "none"
  BY <1>s, <1>1, AdvanceKeeps
<1>3. LedgerGrows /\ DeployerIsLeftAlone
  BY <1>t, <1>s, LedgerIsKept
<1>4. ASSUME ~(script[r] = "send" /\ at[r] = 4)
      PROVE  ReadyIsReady' /\ ReadyIsLeftAlone'
  <2>1. ready' = ready
    BY <1>s, <1>4
  <2>2. ready # None /\ patient => \A q \in Terminals :
          script'[q] # "send" /\ (tx'[q] # None => tx'[q].kind # "config")
    BY <1>s, <1>2 DEF IndInv, ReadyIsLeftAlone
  <2> QED
    BY <1>s, <1>2, <1>3, <2>1, <2>2, ReadyKept DEF DeployerIsLeftAlone
<1>5. ASSUME script[r] = "send" /\ at[r] = 4
      PROVE  ReadyIsReady' /\ ReadyIsLeftAlone'
  <2>1. /\ ready' = app[r]
        /\ held' = held /\ minted' = minted /\ unfrozen' = unfrozen /\ authority' = authority
    BY <1>s, <1>5 DEF ledger, holdings
  <2>2. Passed(r, 1) /\ Passed(r, 2) /\ Passed(r, 3) /\ Passed(r, 4)
    BY <1>s, <1>5 DEF Passed
  <2>3. /\ app[r] \in unfrozen /\ held[app[r]] # None
        /\ held[app[r]] + minted[app[r]] >= SEND_AMOUNT
        /\ patient => authority = app[r]
    BY <1>t, <1>5, <2>2 DEF InOrder, SendHasEffect
  <2>4. ASSUME patient, NEW q \in Terminals
        PROVE  script'[q] # "send" /\ tx'[q] = None
    <3>1. CASE q # r
      <4>1. wait[q] = "over" /\ tx[q] = None
        BY <1>s, <2>4, <3>1 DEF IndInv, OneScript, Idle
      <4> QED
        BY <1>t, <1>s, <1>2, <4>1, PlaceFacts
    <3>2. CASE q = r
      <4>1. at[r] = Len(Steps[script[r]])
        BY <1>5, SendSteps
      <4>2. script' = [script EXCEPT ![r] = "none"]
        BY <1>s, <4>1 DEF Advance, Ends
      <4> QED
        BY <1>t, <1>s, <1>n, <3>2, <4>2 DEF TypeOK
    <3> QED
      BY <3>1, <3>2
  <2>5. ReadyIsReady'
    BY <1>s, <2>1, <2>3 DEF ReadyIsReady
  <2>6. ReadyIsLeftAlone'
    BY <1>s, <2>1, <2>3, <2>4 DEF ReadyIsLeftAlone
  <2> QED
    BY <2>5, <2>6
<1> QED
  BY <1>2, <1>4, <1>5 DEF IndInv

\* demo_check reads the deployer's balance.
LEMMA ReadKeeps ==
  ASSUME IndInv, NEW r \in Terminals, ReadBalance(r)
  PROVE  IndInv'
<1>t. TypeOK /\ InOrder(r)
  BY DEF IndInv
<1>s. /\ seen' = [seen EXCEPT ![r] = algo[Deployer]] /\ at' = [at EXCEPT ![r] = @ + 1]
      /\ spent' = 0
      /\ UNCHANGED <<holdings, minted, policyApp, script, app, wait, tx, ready, patient, faults>>
      /\ At(r, "check", "read")
  BY DEF ReadBalance
<1>n. wait[r] = "ready" /\ script[r] = "check" /\ tx[r] = None /\ at[r] \in {1, 3}
  BY <1>t, <1>s, AtFacts, AtCheck
<1>b. algo[Deployer] \in Nat /\ at[r] + 1 \in 1..5 /\ at[r] + 1 \in Nat
  BY <1>t, <1>n, TypeFacts
<1>k. deployed' = deployed /\ algo' = algo /\ held' = held /\ unfrozen' = unfrozen
      /\ authority' = authority /\ minted' = minted
  BY <1>s DEF holdings
<1>0. TypeOK'
  <2>1. seen' \in [Terminals -> Nat]
    BY <1>t, <1>s, <1>b DEF TypeOK
  <2>2. at' \in [Terminals -> Nat]
    BY <1>t, <1>s, <1>b DEF TypeOK
  <2>3. \A q \in Terminals :
          /\ IF wait'[q] = "over" THEN script'[q] = "none" /\ at'[q] = 0
             ELSE script'[q] # "none" /\ at'[q] \in 1..Len(Steps[script'[q]])
          /\ wait'[q] \in {"ready", "landed"} => tx'[q] = None
    BY <1>t, <1>s, <1>n, <1>b, CheckSteps DEF TypeOK
  <2> QED
    BY <1>t, <1>s, <2>1, <2>2, <2>3 DEF TypeOK, ledger, holdings
<1>g. LedgerGrows
  <2>1. \A c \in Apps : held[c] # None => held[c] \in Nat /\ minted[c] \in Nat
    BY <1>t, TypeFacts
  <2> QED
    BY <1>k, <2>1 DEF LedgerGrows
<1>1. \A q \in Terminals : q # r => SameAt(q)
  BY <1>t, <1>s DEF SameAt, TypeOK
<1>2. \A q \in Terminals : q # r => InOrder(q)'
  <2>1. \A q \in Terminals : q # r /\ patient => script[q] = "none"
    BY <1>t, <1>n, PlaceFacts DEF IndInv, OneScript, Idle
  <2> QED
    BY <1>0, <1>1, <1>g, <1>s, <2>1, OthersKeep
<1>3. InOrder(r)'
  <2>1. /\ script'[r] = "check" /\ at'[r] \in {2, 4} /\ wait'[r] = "ready" /\ tx'[r] = None
        /\ app'[r] = app[r] /\ seen'[r] = algo[Deployer]
    BY <1>t, <1>s, <1>n DEF TypeOK
  <2>2. AppIsKnown(r)'
    BY <1>t, <1>k, <1>n, <2>1 DEF InOrder, AppIsKnown
  <2>3. TxIsLegal(r)' /\ SendHasEffect(r)'
    BY <2>1 DEF TxIsLegal, SendHasEffect
  <2>4. TopUpIsCovered(r)'
    BY <1>b, <1>k, <1>s, <2>1 DEF TopUpIsCovered
  <2> QED
    BY <2>2, <2>3, <2>4 DEF InOrder
<1>4. OneScript'
  BY <1>n, <1>s, <1>1, OneScriptKept DEF IndInv, Idle
<1>5. ReadyIsReady' /\ ReadyIsLeftAlone'
  <2>1. ready # None /\ patient => \A q \in Terminals :
          script'[q] # "send" /\ (tx'[q] # None => tx'[q].kind # "config")
    BY <1>s DEF IndInv, ReadyIsLeftAlone
  <2> QED
    BY <1>0, <1>g, <1>k, <1>s, <2>1, ReadyKept
<1> QED
  BY <1>0, <1>2, <1>3, <1>4, <1>5 DEF IndInv

\* A script gives up; its transaction stays in the pool.
LEMMA GiveUpKeeps ==
  ASSUME IndInv, NEW r \in Terminals, GiveUp(r)
  PROVE  IndInv'
<1>t. TypeOK /\ InOrder(r)
  BY DEF IndInv
<1>s. /\ wait[r] = "sent"
      /\ script' = [script EXCEPT ![r] = "none"] /\ at' = [at EXCEPT ![r] = 0]
      /\ app' = [app EXCEPT ![r] = None] /\ seen' = [seen EXCEPT ![r] = 0]
      /\ wait' = [wait EXCEPT ![r] = "over"]
      /\ UNCHANGED <<ledger, minted, policyApp, tx, ready, patient>>
      /\ faults' = faults \/ (faults < MaxFaults /\ faults' = faults + 1)
  BY DEF GiveUp, Ends
<1>k. deployed' = deployed
  BY <1>s DEF ledger, holdings
<1>0. TypeOK'
  <2>1. faults' \in 0..MaxFaults
    <3>1. faults \in 0..MaxFaults
      BY <1>t DEF TypeOK
    <3> QED
      BY <1>s, <3>1, Amounts
  <2>2. /\ script' \in [Terminals -> DOMAIN Steps \cup {"none"}]
        /\ at' \in [Terminals -> Nat] /\ app' \in [Terminals -> deployed \cup {None}]
        /\ seen' \in [Terminals -> Nat]
        /\ wait' \in [Terminals -> {"ready", "sent", "landed", "over"}]
    BY <1>t, <1>s DEF TypeOK
  <2>3. \A q \in Terminals :
          /\ IF wait'[q] = "over" THEN script'[q] = "none" /\ at'[q] = 0
             ELSE script'[q] # "none" /\ at'[q] \in 1..Len(Steps[script'[q]])
          /\ wait'[q] \in {"ready", "landed"} => tx'[q] = None
    BY <1>t, <1>s DEF TypeOK
  <2> QED
    BY <1>t, <1>s, <2>1, <2>2, <2>3 DEF TypeOK, ledger, holdings
<1>g. LedgerGrows /\ DeployerIsLeftAlone
  BY <1>t, <1>s, LedgerIsKept
<1>1. \A q \in Terminals : q # r => SameAt(q)
  BY <1>t, <1>s DEF SameAt, TypeOK
<1>2. \A q \in Terminals : q # r => InOrder(q)'
  BY <1>0, <1>1, <1>g, <1>s, OthersKeep
<1>3. InOrder(r)'
  <2>1. script'[r] = "none" /\ wait'[r] = "over" /\ tx'[r] = tx[r]
    BY <1>t, <1>s DEF TypeOK
  <2>2. TxIsLegal(r)'
    BY <1>t, <1>k, <2>1 DEF InOrder, TxIsLegal, Legal
  <2>3. AppIsKnown(r)' /\ SendHasEffect(r)' /\ TopUpIsCovered(r)'
    BY <2>1 DEF AppIsKnown, SendHasEffect, TopUpIsCovered
  <2> QED
    BY <2>2, <2>3 DEF InOrder
<1>4. OneScript'
  BY <1>s, <1>1, OneScriptKept DEF IndInv, Idle
<1>5. ReadyIsReady' /\ ReadyIsLeftAlone'
  <2>1. ready # None /\ patient => \A q \in Terminals :
          script'[q] # "send" /\ (tx'[q] # None => tx'[q].kind # "config")
    BY <1>t, <1>s DEF IndInv, ReadyIsLeftAlone, TypeOK
  <2> QED
    BY <1>0, <1>g, <1>s, <2>1, ReadyKept DEF DeployerIsLeftAlone
<1> QED
  BY <1>0, <1>2, <1>3, <1>4, <1>5 DEF IndInv

-----------------------------------------------------------------------------
(* The chain *)

\* Whose transaction is in the pool waits for it at the step that sent it, or is over.
LEMMA InPool ==
  ASSUME IndInv, NEW r \in Terminals, tx[r] # None
  PROVE  /\ wait[r] \in {"sent", "over"} /\ Legal(tx[r])
         /\ script[r] = "none" <=> wait[r] = "over"
         /\ script[r] = "deploy" => /\ tx[r].kind \in {"create", "pay"}
                                    /\ tx[r].kind = "create" <=> at[r] = 1
         /\ script[r] # "deploy" /\ tx[r].kind = "create" => script[r] = "none"
         /\ script[r] = "send" =>
              /\ tx[r].kind \in {"config", "unfreeze", "transfer"}
              /\ tx[r].kind = "config" => at[r] \in {1, 4}
              /\ tx[r].kind = "unfreeze" => at[r] = 2
              /\ tx[r].kind = "transfer" => at[r] = 3
         /\ script[r] = "check" => /\ at[r] \in {2, 4, 5} /\ tx[r].kind \in {"pay", "transfer"}
                                   /\ tx[r].kind = "pay" <=> at[r] \in {2, 4}
<1>1. TypeOK /\ InOrder(r)
  BY DEF IndInv
<1>2. wait[r] \in {"sent", "over"} /\ (script[r] = "none" <=> wait[r] = "over")
  BY <1>1, PlaceFacts
<1>3. Legal(tx[r]) /\ (wait[r] = "sent" => tx[r].kind = StepKind[script[r]][at[r]])
  BY <1>1 DEF InOrder, TxIsLegal
<1>4. tx[r].kind \in {"create", "pay", "opt_in", "config", "unfreeze", "transfer"}
  BY <1>3 DEF Legal
<1>5. script[r] = "deploy" => /\ tx[r].kind \in {"create", "pay"}
                              /\ tx[r].kind = "create" <=> at[r] = 1
  BY <1>1, <1>2, <1>3, PlaceFacts, DeploySteps
<1>6. script[r] = "send" =>
        /\ tx[r].kind \in {"config", "unfreeze", "transfer"}
        /\ tx[r].kind = "config" => at[r] \in {1, 4}
        /\ tx[r].kind = "unfreeze" => at[r] = 2
        /\ tx[r].kind = "transfer" => at[r] = 3
  BY <1>1, <1>2, <1>3, PlaceFacts, SendSteps
<1>7. script[r] = "check" => /\ at[r] \in {2, 4, 5} /\ tx[r].kind \in {"pay", "transfer"}
                             /\ tx[r].kind = "pay" <=> at[r] \in {2, 4}
  BY <1>1, <1>2, <1>3, <1>4, PlaceFacts, CheckSteps
<1>8. script[r] \in {"opt_in", "fund"} => tx[r].kind # "create"
  BY <1>1, <1>2, <1>3, PlaceFacts, OptInSteps, FundSteps
<1> QED
  BY <1>1, <1>2, <1>3, <1>5, <1>6, <1>7, <1>8, PlaceFacts

\* A transaction lands: what is left to show is what it does to the ledger, and to the
\* script that sent it.
LEMMA LandKeeps ==
  ASSUME IndInv, NEW r \in Terminals, NEW kind, Lands(r, kind),
         deployed' \subseteq Apps, unfrozen' \subseteq deployed',
         algo' \in [Apps \cup {Deployer, Anchor} -> Nat],
         needed' \in [Apps \cup {Deployer, Anchor} -> Nat],
         held' \in [Apps \cup {Deployer} -> Nat \cup {None}], held'[Deployer] # None,
         authority' \in deployed' \cup {Deployer},
         LedgerGrows, kind # "config" => authority' = authority,
         app' \in [Terminals -> deployed' \cup {None}],
         \A q \in Terminals : q # r => app'[q] = app[q],
         AppIsKnown(r)', SendHasEffect(r)'
  PROVE  IndInv'
<1>t. TypeOK /\ OneScript
  BY DEF IndInv
<1>s. /\ tx[r] # None /\ tx[r].kind = kind
      /\ tx' = [tx EXCEPT ![r] = None]
      /\ wait' = [wait EXCEPT ![r] = IF @ = "sent" THEN "landed" ELSE @]
      /\ UNCHANGED <<minted, policyApp, script, at, seen, ready, patient, faults>>
  BY DEF Lands
<1>n. /\ wait[r] \in {"sent", "over"} /\ (script[r] = "none" <=> wait[r] = "over")
      /\ script[r] = "check" => /\ at[r] \in {2, 4, 5}
  BY <1>s, InPool
<1>0. TypeOK'
  <2>1. wait' \in [Terminals -> {"ready", "sent", "landed", "over"}] /\ DOMAIN tx' = Terminals
    BY <1>t, <1>s DEF TypeOK
  <2>2. \A q \in Terminals :
          /\ IF wait'[q] = "over" THEN script'[q] = "none" /\ at'[q] = 0
             ELSE script'[q] # "none" /\ at'[q] \in 1..Len(Steps[script'[q]])
          /\ wait'[q] \in {"ready", "landed"} => tx'[q] = None
    BY <1>t, <1>s, <1>n DEF TypeOK
  <2>3. policyApp' \in deployed' \cup {None} /\ ready' \in deployed' \cup {None}
    BY <1>t, <1>s DEF TypeOK, LedgerGrows
  <2>4. spent' \in Nat
    <3>1. spent \in Nat /\ FeeOf(tx[r]) \in Nat
      BY <1>t, Amounts DEF TypeOK, FeeOf
    <3>2. Charge(FeeOf(tx[r]))
      BY DEF Lands
    <3> QED
      BY <3>1, <3>2 DEF Charge
  <2> QED
    BY <1>t, <1>s, <2>1, <2>2, <2>3, <2>4 DEF TypeOK
<1>1. \A q \in Terminals : q # r => SameAt(q)
  BY <1>t, <1>s DEF SameAt, TypeOK
<1>2. \A q \in Terminals : q # r /\ patient => script[q] = "none"
  BY <1>t, <1>s, PlaceFacts DEF OneScript, Idle
<1>3. \A q \in Terminals : q # r => InOrder(q)'
  BY <1>0, <1>1, <1>2, <1>s, OthersKeep
<1>4. InOrder(r)'
  <2>1. /\ tx'[r] = None /\ script'[r] = script[r] /\ at'[r] = at[r]
        /\ script[r] # "none" => wait'[r] = "landed"
    BY <1>t, <1>s, <1>n DEF TypeOK
  <2>2. TxIsLegal(r)' /\ TopUpIsCovered(r)'
    BY <1>n, <2>1 DEF TxIsLegal, TopUpIsCovered
  <2> QED
    BY <2>2 DEF InOrder
<1>5. OneScript'
  BY <1>t, <1>s, <1>1, OneScriptKept DEF Idle
<1>6. ReadyIsReady' /\ ReadyIsLeftAlone'
  <2>1. ready # None /\ patient =>
          /\ authority' = authority
          /\ \A q \in Terminals :
               script'[q] # "send" /\ (tx'[q] # None => tx'[q].kind # "config")
    BY <1>t, <1>s DEF IndInv, ReadyIsLeftAlone, TypeOK
  <2> QED
    BY <1>0, <1>s, <2>1, ReadyKept
<1> QED
  BY <1>0, <1>3, <1>4, <1>5, <1>6 DEF IndInv

\* Which steps the script has had once its transaction landed.
LEMMA PassedNow ==
  ASSUME IndInv, NEW r \in Terminals, NEW kind, Lands(r, kind)
  PROVE  /\ script'[r] = script[r] /\ at'[r] = at[r] /\ at[r] \in Nat /\ tx'[r] = None
         /\ minted' = minted /\ patient' = patient
         /\ tx[r] # None /\ tx[r].kind = kind /\ Valid(tx[r])
         /\ script[r] # "none" =>
              \A i \in Nat : Passed(r, i)' <=> (i = at[r] \/ Passed(r, i))
<1>1. TypeOK
  BY DEF IndInv
<1>2. /\ tx[r] # None /\ tx[r].kind = kind /\ Valid(tx[r])
      /\ tx' = [tx EXCEPT ![r] = None]
      /\ wait' = [wait EXCEPT ![r] = IF @ = "sent" THEN "landed" ELSE @]
      /\ UNCHANGED <<minted, policyApp, script, at, seen, ready, patient, faults>>
  BY DEF Lands
<1>3. script[r] # "none" => wait[r] = "sent" /\ wait'[r] = "landed"
  BY <1>1, <1>2, InPool DEF TypeOK
<1>4. at[r] \in Nat /\ tx'[r] = None
  BY <1>1, <1>2, PlaceFacts DEF TypeOK
<1> QED
  BY <1>2, <1>3, <1>4 DEF Passed

\* The deployer can pay what the ledger accepts.
LEMMA FeeIsPaid ==
  ASSUME TypeOK, NEW fee \in Nat, PaysFee(fee), algo[Deployer] >= fee
  PROVE  algo' \in [Apps \cup {Deployer, Anchor} -> Nat] /\ algo'[Deployer] = algo[Deployer] - fee
<1>1. algo \in [Apps \cup {Deployer, Anchor} -> Nat]
  BY DEF TypeOK
<1>2. algo[Deployer] - fee \in Nat
  BY <1>1
<1> QED
  BY <1>1, <1>2 DEF PaysFee

LEMMA ValidIsPaidFor ==
  ASSUME TypeOK, NEW t, Legal(t), Valid(t)
  PROVE  /\ t.kind = "create" => algo[Deployer] >= Fee
         /\ t.kind = "pay" => algo[Deployer] >= t.amount + Fee
         /\ t.kind = "opt_in" => algo[Deployer] >= OptInFee
         /\ t.kind \in {"config", "unfreeze", "transfer"} => algo[Deployer] >= Fee
<1>1. algo[Deployer] \in Nat /\ needed[Deployer] \in Nat
  BY TypeFacts
<1>2. \A m \in Nat : Affords(m) => algo[Deployer] >= m
  BY <1>1 DEF Affords
<1>3. CASE t.kind = "create"
  <2>1. Affords(Fee + AppMin) /\ Fee + AppMin \in Nat
    BY <1>3, Amounts DEF Valid
  <2>2. algo[Deployer] >= Fee + AppMin
    BY <1>2, <2>1
  <2> QED
    BY <1>1, <1>3, <2>2, Amounts
<1>4. CASE t.kind = "pay"
  <2>1. Affords(t.amount + Fee) /\ t.amount + Fee \in Nat
    BY <1>4, Amounts DEF Valid, Legal
  <2> QED
    BY <1>2, <1>4, <2>1
<1>5. CASE t.kind = "opt_in"
  <2>1. Affords(OptInFee)
    BY <1>5 DEF Valid
  <2> QED
    BY <1>2, <1>5, <2>1, Amounts
<1>6. CASE t.kind \in {"config", "unfreeze", "transfer"}
  <2>1. Affords(Fee)
    BY <1>6 DEF Valid
  <2> QED
    BY <1>2, <1>6, <2>1, Amounts
<1> QED
  BY <1>3, <1>4, <1>5, <1>6 DEF Legal

\* What lands for a fee only is paid for out of what the deployer has.
LEMMA LandingIsPaidFor ==
  ASSUME IndInv, NEW r \in Terminals,
         NEW kind \in {"create", "opt_in", "config", "unfreeze", "transfer"},
         Lands(r, kind), NEW fee, fee = IF kind = "opt_in" THEN OptInFee ELSE Fee,
         PaysFee(fee)
  PROVE  algo' \in [Apps \cup {Deployer, Anchor} -> Nat]
<1>1. TypeOK
  BY DEF IndInv
<1>2. tx[r] # None /\ tx[r].kind = kind /\ Valid(tx[r])
  BY PassedNow
<1>3. Legal(tx[r])
  BY <1>2, InPool
<1>4. fee \in Nat /\ algo[Deployer] >= fee
  BY <1>1, <1>2, <1>3, ValidIsPaidFor, Amounts
<1> QED
  BY <1>1, <1>4, FeeIsPaid

\* A script knows its contract as before, unless it was the one just created.
LEMMA AppStaysKnown ==
  ASSUME IndInv, NEW r \in Terminals, NEW kind, Lands(r, kind), kind # "create",
         app' = app, deployed \subseteq deployed'
  PROVE  /\ AppIsKnown(r)' /\ app' \in [Terminals -> deployed' \cup {None}]
         /\ \A q \in Terminals : q # r => app'[q] = app[q]
<1>1. TypeOK /\ InOrder(r)
  BY DEF IndInv
<1>2. script[r] = "deploy" /\ Passed(r, 1)' => Passed(r, 1)
  BY PassedNow, InPool
<1>3. AppIsKnown(r)'
  BY <1>1, <1>2, PassedNow DEF InOrder, AppIsKnown
<1> QED
  BY <1>1, <1>3 DEF TypeOK

LEMMA CreateKeeps ==
  ASSUME IndInv, NEW r \in Terminals, NEW a \in Apps, LandCreate(r, a)
  PROVE  IndInv'
<1>t. TypeOK
  BY DEF IndInv
<1>s. /\ Lands(r, "create") /\ PaysFee(Fee) /\ deployed' = deployed \cup {a}
      /\ app' = [app EXCEPT ![r] = IF wait[r] = "sent" THEN a ELSE None]
      /\ needed' = [needed EXCEPT ![Deployer] = @ + AppMin]
      /\ UNCHANGED <<held, unfrozen, authority>> /\ minted' = minted
  BY DEF LandCreate, Lands
<1>f. algo' \in [Apps \cup {Deployer, Anchor} -> Nat]
  BY <1>s, LandingIsPaidFor
<1>b. needed' \in [Apps \cup {Deployer, Anchor} -> Nat]
  <2>1. needed \in [Apps \cup {Deployer, Anchor} -> Nat]
    BY <1>t DEF TypeOK
  <2>2. needed[Deployer] + AppMin \in Nat
    BY <2>1, Amounts
  <2> QED
    BY <1>s, <2>1, <2>2
<1>1. LedgerGrows
  <2>1. \A c \in Apps : held[c] # None => held[c] \in Nat /\ minted[c] \in Nat
    BY <1>t, TypeFacts
  <2> QED
    BY <1>s, <2>1 DEF LedgerGrows
<1>2. /\ app' \in [Terminals -> deployed' \cup {None}]
      /\ \A q \in Terminals : q # r => app'[q] = app[q]
      /\ app'[r] = IF wait[r] = "sent" THEN a ELSE None
  BY <1>t, <1>s DEF TypeOK
<1>3. AppIsKnown(r)' /\ SendHasEffect(r)'
  BY <1>s, <1>2, PassedNow, InPool DEF AppIsKnown, SendHasEffect
<1>4. /\ deployed' \subseteq Apps /\ unfrozen' \subseteq deployed'
      /\ held' \in [Apps \cup {Deployer} -> Nat \cup {None}] /\ held'[Deployer] # None
      /\ authority' \in deployed' \cup {Deployer}
  BY <1>t, <1>s DEF TypeOK
<1> QED
  BY <1>s, <1>f, <1>b, <1>1, <1>2, <1>3, <1>4, LandKeeps

LEMMA PaymentKeeps ==
  ASSUME IndInv, NEW r \in Terminals, LandPayment(r)
  PROVE  IndInv'
<1>t. TypeOK
  BY DEF IndInv
<1> DEFINE to == tx[r].to
           amount == tx[r].amount
<1>s. /\ Lands(r, "pay")
      /\ algo' = [algo EXCEPT ![Deployer] = @ - (amount + Fee), ![to] = @ + amount]
      /\ UNCHANGED <<deployed, needed, held, unfrozen, authority, app>> /\ minted' = minted
  BY DEF LandPayment, Lands
<1>n. /\ tx[r].kind = "pay" /\ to \in deployed \cup {Anchor} /\ amount \in Nat
      /\ algo[Deployer] >= amount + Fee
      /\ script[r] # "send"
  <2>1. tx[r].kind = "pay" /\ Valid(tx[r]) /\ Legal(tx[r]) /\ script[r] # "send"
    BY <1>s, PassedNow, InPool
  <2>2. to \in deployed \cup {Anchor} /\ amount \in Nat
    BY <2>1 DEF Legal
  <2>3. algo[Deployer] >= amount + Fee
    BY <1>t, <2>1, ValidIsPaidFor
  <2> QED
    BY <2>1, <2>2, <2>3
<1> HIDE DEF to, amount
<1>1. LedgerGrows
  <2>1. \A c \in Apps : held[c] # None => held[c] \in Nat /\ minted[c] \in Nat
    BY <1>t, TypeFacts
  <2> QED
    BY <1>s, <2>1 DEF LedgerGrows
<1>2. algo' \in [Apps \cup {Deployer, Anchor} -> Nat]
  <2>1. algo \in [Apps \cup {Deployer, Anchor} -> Nat]
    BY <1>t DEF TypeOK
  <2>2. to \in Apps \cup {Anchor} /\ to # Deployer
    BY <1>t, <1>n, TypeFacts, NamesAssumption
  <2>3. algo[Deployer] - (amount + Fee) \in Nat /\ algo[to] + amount \in Nat
    BY <1>n, <2>1, <2>2, Amounts
  <2> QED
    BY <1>s, <2>1, <2>2, <2>3
<1>3. SendHasEffect(r)'
  BY <1>s, <1>n, PassedNow DEF SendHasEffect
<1>4. /\ deployed' \subseteq Apps /\ unfrozen' \subseteq deployed'
      /\ needed' \in [Apps \cup {Deployer, Anchor} -> Nat]
      /\ held' \in [Apps \cup {Deployer} -> Nat \cup {None}] /\ held'[Deployer] # None
      /\ authority' \in deployed' \cup {Deployer}
  BY <1>t, <1>s DEF TypeOK
<1> QED
  BY <1>s, <1>1, <1>2, <1>3, <1>4, AppStaysKnown, LandKeeps

LEMMA OptInKeeps ==
  ASSUME IndInv, NEW r \in Terminals, LandOptIn(r)
  PROVE  IndInv'
<1>t. TypeOK
  BY DEF IndInv
<1> DEFINE to == tx[r].to
<1>s. /\ Lands(r, "opt_in") /\ PaysFee(OptInFee)
      /\ needed' = [needed EXCEPT ![to] = IF held[to] = None THEN @ + AssetMin ELSE @]
      /\ held' = [held EXCEPT ![to] = IF @ = None THEN 0 ELSE @]
      /\ UNCHANGED <<deployed, unfrozen, authority, app>> /\ minted' = minted
  BY DEF LandOptIn, Lands
<1>n. tx[r].kind = "opt_in" /\ to \in deployed /\ script[r] # "send"
  BY <1>s, PassedNow, InPool DEF Legal
<1> HIDE DEF to
<1>f. algo' \in [Apps \cup {Deployer, Anchor} -> Nat]
  BY <1>s, LandingIsPaidFor
<1>b. needed' \in [Apps \cup {Deployer, Anchor} -> Nat]
  <2>1. needed \in [Apps \cup {Deployer, Anchor} -> Nat]
    BY <1>t DEF TypeOK
  <2>2. to \in Apps /\ needed[to] \in Nat /\ needed[to] + AssetMin \in Nat
    BY <1>t, <1>n, TypeFacts, Amounts
  <2> QED
    BY <1>s, <2>1, <2>2
<1>h. held \in [Apps \cup {Deployer} -> Nat \cup {None}] /\ held[Deployer] # None
  BY <1>t DEF TypeOK
<1>1. LedgerGrows
  <2>1. \A c \in Apps : held[c] # None => held'[c] = held[c]
    BY <1>s, <1>h
  <2>2. \A c \in Apps : held[c] # None => held[c] \in Nat /\ minted[c] \in Nat
    BY <1>t, TypeFacts
  <2> QED
    BY <1>s, <2>1, <2>2 DEF LedgerGrows
<1>2. held' \in [Apps \cup {Deployer} -> Nat \cup {None}] /\ held'[Deployer] # None
  BY <1>s, <1>h
<1>3. SendHasEffect(r)'
  BY <1>s, <1>n, PassedNow DEF SendHasEffect
<1>4. /\ deployed' \subseteq Apps /\ unfrozen' \subseteq deployed'
      /\ authority' \in deployed' \cup {Deployer}
  BY <1>t, <1>s DEF TypeOK
<1> QED
  BY <1>s, <1>f, <1>b, <1>1, <1>2, <1>3, <1>4, AppStaysKnown, LandKeeps

LEMMA ConfigKeeps ==
  ASSUME IndInv, NEW r \in Terminals, LandConfig(r)
  PROVE  IndInv'
<1>t. TypeOK /\ InOrder(r)
  BY DEF IndInv
<1>s. /\ Lands(r, "config") /\ PaysFee(Fee) /\ authority' = tx[r].to
      /\ UNCHANGED <<deployed, needed, held, unfrozen, app>> /\ minted' = minted
  BY DEF LandConfig, Lands
<1>n. /\ tx[r] # None /\ tx[r].kind = "config" /\ tx[r].to \in deployed \cup {Deployer}
      /\ script[r] = "send" => at[r] \in {1, 4}
  <2>1. Legal(tx[r]) /\ tx[r] # None /\ tx[r].kind = "config"
    BY <1>s, PassedNow, InPool
  <2> QED
    BY <2>1, InPool DEF Legal
<1>f. algo' \in [Apps \cup {Deployer, Anchor} -> Nat]
  BY <1>s, LandingIsPaidFor
<1>1. LedgerGrows
  <2>1. \A c \in Apps : held[c] # None => held[c] \in Nat /\ minted[c] \in Nat
    BY <1>t, TypeFacts
  <2> QED
    BY <1>s, <2>1 DEF LedgerGrows
<1>2. SendHasEffect(r)'
  <2> SUFFICES ASSUME script[r] = "send"
               PROVE  SendHasEffect(r)'
    BY <1>s, PassedNow DEF SendHasEffect
  <2>1. \A i \in {1, 2, 3, 4} : Passed(r, i)' <=> (i = at[r] \/ Passed(r, i))
    BY <1>s, PassedNow
  <2>2. /\ tx[r].to = IF at[r] = 1 THEN Deployer ELSE app[r]
        /\ Passed(r, 2) => app[r] \in unfrozen
        /\ Passed(r, 3) => /\ held[app[r]] # None
                           /\ held[app[r]] + minted[app[r]] >= SEND_AMOUNT
    BY <1>t, <1>n DEF InOrder, SendHasEffect
  <2>3. tx'[r] = None /\ script'[r] = script[r] /\ at'[r] = at[r] /\ at[r] \in {1, 4}
    BY <1>s, <1>n, PassedNow
  <2>4. Passed(r, 4)' <=> at[r] = 4
    BY <2>1, <2>3 DEF Passed
  <2>5. (Passed(r, 2)' => Passed(r, 2)) /\ (Passed(r, 3)' => Passed(r, 3))
    BY <2>1, <2>3
  <2> QED
    BY <1>s, <2>2, <2>3, <2>4, <2>5 DEF SendHasEffect
<1>3. /\ deployed' \subseteq Apps /\ unfrozen' \subseteq deployed'
      /\ needed' \in [Apps \cup {Deployer, Anchor} -> Nat]
      /\ held' \in [Apps \cup {Deployer} -> Nat \cup {None}] /\ held'[Deployer] # None
      /\ authority' \in deployed' \cup {Deployer}
  BY <1>t, <1>s, <1>n DEF TypeOK
<1> QED
  BY <1>s, <1>f, <1>1, <1>2, <1>3, AppStaysKnown, LandKeeps

LEMMA UnfreezeKeeps ==
  ASSUME IndInv, NEW r \in Terminals, LandUnfreeze(r)
  PROVE  IndInv'
<1>t. TypeOK /\ InOrder(r)
  BY DEF IndInv
<1>s. /\ Lands(r, "unfreeze") /\ PaysFee(Fee) /\ unfrozen' = unfrozen \cup {tx[r].to}
      /\ UNCHANGED <<deployed, needed, held, authority, app>> /\ minted' = minted
  BY DEF LandUnfreeze, Lands
<1>n. /\ tx[r] # None /\ tx[r].kind = "unfreeze" /\ tx[r].to \in deployed
      /\ script[r] = "send" => at[r] = 2
  <2>1. Legal(tx[r]) /\ tx[r] # None /\ tx[r].kind = "unfreeze"
    BY <1>s, PassedNow, InPool
  <2> QED
    BY <2>1, InPool DEF Legal
<1>f. algo' \in [Apps \cup {Deployer, Anchor} -> Nat]
  BY <1>s, LandingIsPaidFor
<1>1. LedgerGrows
  <2>1. \A c \in Apps : held[c] # None => held[c] \in Nat /\ minted[c] \in Nat
    BY <1>t, TypeFacts
  <2> QED
    BY <1>s, <2>1 DEF LedgerGrows
<1>2. SendHasEffect(r)'
  <2> SUFFICES ASSUME script[r] = "send"
               PROVE  SendHasEffect(r)'
    BY <1>s, PassedNow DEF SendHasEffect
  <2>1. \A i \in {1, 2, 3, 4} : Passed(r, i)' <=> (i = at[r] \/ Passed(r, i))
    BY <1>s, PassedNow
  <2>2. /\ tx[r].to = app[r]
        /\ patient /\ Passed(r, 1) => authority = IF Passed(r, 4) THEN app[r] ELSE Deployer
    BY <1>t, <1>n DEF InOrder, SendHasEffect
  <2>3. tx'[r] = None /\ script'[r] = script[r] /\ at'[r] = at[r] /\ at[r] = 2
    BY <1>s, <1>n, PassedNow
  <2>4. Passed(r, 1) /\ ~Passed(r, 3)' /\ ~Passed(r, 4)' /\ ~Passed(r, 4)
    BY <2>1, <2>3 DEF Passed
  <2>5. patient' = patient
    BY <1>s, PassedNow
  <2> QED
    BY <1>s, <2>2, <2>3, <2>4, <2>5 DEF SendHasEffect
<1>3. /\ deployed' \subseteq Apps /\ unfrozen' \subseteq deployed'
      /\ needed' \in [Apps \cup {Deployer, Anchor} -> Nat]
      /\ held' \in [Apps \cup {Deployer} -> Nat \cup {None}] /\ held'[Deployer] # None
      /\ authority' \in deployed' \cup {Deployer}
  BY <1>t, <1>s, <1>n DEF TypeOK
<1> QED
  BY <1>s, <1>f, <1>1, <1>2, <1>3, AppStaysKnown, LandKeeps

LEMMA TransferKeeps ==
  ASSUME IndInv, NEW r \in Terminals, LandTransfer(r)
  PROVE  IndInv'
<1>t. TypeOK /\ InOrder(r)
  BY DEF IndInv
<1> DEFINE to == tx[r].to
           amount == tx[r].amount
<1>s. /\ Lands(r, "transfer") /\ PaysFee(Fee)
      /\ held' = [held EXCEPT ![Deployer] = @ - amount, ![to] = @ + amount]
      /\ UNCHANGED <<deployed, needed, unfrozen, authority, app>> /\ minted' = minted
  BY DEF LandTransfer, Lands
<1>n. /\ tx[r] # None /\ tx[r].kind = "transfer" /\ to \in deployed /\ amount \in Nat
      /\ held[to] # None /\ to \in unfrozen /\ held[Deployer] >= amount
      /\ script[r] = "send" => at[r] = 3
  <2>1. Legal(tx[r]) /\ Valid(tx[r]) /\ tx[r] # None /\ tx[r].kind = "transfer"
    BY <1>s, PassedNow, InPool
  <2>2. to \in deployed /\ amount \in Nat
    BY <2>1 DEF Legal
  <2>3. held[to] # None /\ to \in unfrozen /\ held[Deployer] >= amount
    BY <2>1 DEF Valid
  <2> QED
    BY <2>1, <2>2, <2>3, InPool
<1>h. /\ held \in [Apps \cup {Deployer} -> Nat \cup {None}] /\ held[Deployer] \in Nat
      /\ to \in Apps /\ to # Deployer /\ held[to] \in Nat /\ None \notin Nat
  BY <1>t, <1>n, TypeFacts DEF TypeOK
<1>b. \E m, n \in Nat : /\ m = held[Deployer] - amount /\ n = held[to] + amount
                        /\ held' = [held EXCEPT ![Deployer] = m, ![to] = n]
  <2>1. held[Deployer] - amount \in Nat /\ held[to] + amount \in Nat
    BY <1>n, <1>h
  <2>2. [held EXCEPT ![Deployer] = @ - amount, ![to] = @ + amount]
          = [held EXCEPT ![Deployer] = held[Deployer] - amount, ![to] = held[to] + amount]
    BY <1>h
  <2> QED
    BY <1>s, <2>1, <2>2
<1>v. PICK m, n \in Nat : /\ m = held[Deployer] - amount /\ n = held[to] + amount
                          /\ held' = [held EXCEPT ![Deployer] = m, ![to] = n]
  BY <1>b
<1>e. /\ held' \in [Apps \cup {Deployer} -> Nat \cup {None}] /\ held'[Deployer] = m
      /\ held'[to] = n /\ \A c \in Apps : c # to => held'[c] = held[c]
  <2>1. Deployer \notin Apps
    BY <1>t, TypeFacts
  <2> QED
    BY <1>h, <1>v, <2>1
<1>k. (patient /\ Passed(r, 1) /\ script[r] = "send" =>
         authority = IF Passed(r, 4) THEN app[r] ELSE Deployer)
      /\ (script[r] = "send" => /\ to = IF at[r] = 1 THEN Deployer ELSE app[r]
                                /\ amount = SEND_AMOUNT
                                /\ Passed(r, 2) => app[r] \in unfrozen)
  BY <1>t, <1>n DEF InOrder, SendHasEffect
<1> HIDE DEF to, amount
<1>f. algo' \in [Apps \cup {Deployer, Anchor} -> Nat]
  BY <1>s, LandingIsPaidFor
<1>1. LedgerGrows
  <2>1. \A c \in Apps : held[c] # None => held[c] \in Nat /\ minted[c] \in Nat
    BY <1>t, TypeFacts
  <2>2. minted[to] \in Nat /\ n + minted[to] >= held[to] + minted[to]
    BY <1>h, <1>n, <1>v, <2>1
  <2>3. held'[to] # None
    BY <1>e, <1>h
  <2> QED
    BY <1>s, <1>e, <2>1, <2>2, <2>3 DEF LedgerGrows
<1>2. SendHasEffect(r)'
  <2> SUFFICES ASSUME script[r] = "send"
               PROVE  SendHasEffect(r)'
    BY <1>s, PassedNow DEF SendHasEffect
  <2>1. \A i \in {1, 2, 3, 4} : Passed(r, i)' <=> (i = at[r] \/ Passed(r, i))
    BY <1>s, PassedNow
  <2>3. tx'[r] = None /\ script'[r] = script[r] /\ at'[r] = at[r] /\ at[r] = 3
    BY <1>s, <1>n, PassedNow
  <2>4. Passed(r, 1) /\ Passed(r, 2) /\ ~Passed(r, 4)' /\ ~Passed(r, 4)
    BY <2>1, <2>3 DEF Passed
  <2>5. patient' = patient
    BY <1>s, PassedNow
  <2>6. held'[to] # None /\ held'[to] + minted[to] >= SEND_AMOUNT /\ to = app[r]
    <3>1. amount = SEND_AMOUNT /\ minted[to] \in Nat
      BY <1>t, <1>k, <1>h, TypeFacts
    <3>2. n >= SEND_AMOUNT
      BY <1>v, <1>h, <3>1, Amounts
    <3>3. n + minted[to] >= SEND_AMOUNT
      BY <3>1, <3>2, Amounts
    <3> QED
      BY <1>e, <1>h, <1>k, <2>3, <3>3
  <2> QED
    BY <1>s, <1>k, <2>3, <2>4, <2>5, <2>6 DEF SendHasEffect
<1>3. /\ deployed' \subseteq Apps /\ unfrozen' \subseteq deployed'
      /\ needed' \in [Apps \cup {Deployer, Anchor} -> Nat]
      /\ held'[Deployer] # None
      /\ authority' \in deployed' \cup {Deployer}
  BY <1>t, <1>s, <1>e, <1>h DEF TypeOK
<1> QED
  BY <1>s, <1>e, <1>f, <1>1, <1>2, <1>3, AppStaysKnown, LandKeeps

\* A transaction expires.
LEMMA ExpireKeeps ==
  ASSUME IndInv, NEW r \in Terminals, Expire(r)
  PROVE  IndInv'
<1>t. TypeOK /\ InOrder(r)
  BY DEF IndInv
<1>s. /\ tx[r] # None /\ tx' = [tx EXCEPT ![r] = None]
      /\ UNCHANGED <<ledger, minted, policyApp, script, at, app, seen, wait, ready, patient>>
      /\ faults' = faults \/ (faults < MaxFaults /\ faults' = faults + 1)
  BY DEF Expire
<1>k. /\ deployed' = deployed /\ algo' = algo /\ held' = held /\ unfrozen' = unfrozen
      /\ authority' = authority /\ minted' = minted /\ needed' = needed /\ spent' = spent
  BY <1>s DEF ledger, holdings
<1>0. TypeOK'
  <2>1. faults' \in 0..MaxFaults
    <3>1. faults \in 0..MaxFaults
      BY <1>t DEF TypeOK
    <3> QED
      BY <1>s, <3>1, Amounts
  <2>2. DOMAIN tx' = Terminals /\ \A q \in Terminals : tx'[q] \in {tx[q], None}
    BY <1>t, <1>s DEF TypeOK
  <2>3. \A q \in Terminals :
          /\ IF wait'[q] = "over" THEN script'[q] = "none" /\ at'[q] = 0
             ELSE script'[q] # "none" /\ at'[q] \in 1..Len(Steps[script'[q]])
          /\ wait'[q] \in {"ready", "landed"} => tx'[q] = None
    BY <1>t, <1>s, <2>2 DEF TypeOK
  <2> QED
    BY <1>t, <1>s, <1>k, <2>1, <2>2, <2>3 DEF TypeOK
<1>g. LedgerGrows /\ DeployerIsLeftAlone
  BY <1>t, <1>s, LedgerIsKept
<1>1. \A q \in Terminals : q # r => SameAt(q)
  BY <1>t, <1>s DEF SameAt, TypeOK
<1>2. \A q \in Terminals : q # r => InOrder(q)'
  BY <1>0, <1>1, <1>g, <1>s, OthersKeep
<1>3. InOrder(r)'
  <2>1. /\ script' = script /\ at' = at /\ app' = app /\ seen' = seen /\ wait' = wait
        /\ tx'[r] = None /\ patient' = patient
    BY <1>t, <1>s DEF TypeOK
  <2>2. \A i : Passed(r, i)' <=> Passed(r, i)
    BY <2>1 DEF Passed
  <2>3. TxIsLegal(r)'
    BY <2>1 DEF TxIsLegal
  <2>4. AppIsKnown(r)'
    BY <1>t, <1>k, <2>1, <2>2 DEF InOrder, AppIsKnown
  <2>5. SendHasEffect(r)'
    BY <1>t, <1>k, <2>1, <2>2 DEF InOrder, SendHasEffect
  <2>6. TopUpIsCovered(r)'
    BY <1>t, <1>k, <2>1 DEF InOrder, TopUpIsCovered
  <2> QED
    BY <2>3, <2>4, <2>5, <2>6 DEF InOrder
<1>4. OneScript'
  BY <1>s, <1>1, OneScriptKept DEF IndInv, Idle
<1>5. ReadyIsReady' /\ ReadyIsLeftAlone'
  <2>1. ready # None /\ patient => \A q \in Terminals :
          script'[q] # "send" /\ (tx'[q] # None => tx'[q].kind # "config")
    BY <1>t, <1>s DEF IndInv, ReadyIsLeftAlone, TypeOK
  <2> QED
    BY <1>0, <1>g, <1>s, <2>1, ReadyKept DEF DeployerIsLeftAlone
<1> QED
  BY <1>0, <1>2, <1>3, <1>4, <1>5 DEF IndInv

\* The contracts go on working while the scripts run.
LEMMA WorkKeeps ==
  ASSUME IndInv, TypeOK', LedgerGrows, DeployerIsLeftAlone,
         UNCHANGED <<terminals, ready, patient>>
  PROVE  IndInv'
<1>1. \A q \in Terminals : SameAt(q)
  BY DEF SameAt, terminals
<1>2. \A q \in Terminals : InOrder(q)'
  BY <1>1, OthersKeep
<1>3. OneScript'
  BY DEF IndInv, OneScript, Idle, terminals
<1>4. ReadyIsReady' /\ ReadyIsLeftAlone'
  <2>1. ready # None /\ patient => \A q \in Terminals :
          script'[q] # "send" /\ (tx'[q] # None => tx'[q].kind # "config")
    BY DEF IndInv, ReadyIsLeftAlone, terminals
  <2> QED
    BY <2>1, ReadyKept DEF DeployerIsLeftAlone
<1> QED
  BY <1>2, <1>3, <1>4 DEF IndInv

\* A fee the service pays is one a demo_check under way knows of.
LEMMA ServiceFee ==
  ASSUME TypeOK, NEW fee \in Nat, ServicePays(fee)
  PROVE  /\ algo' \in [Apps \cup {Deployer, Anchor} -> Nat] /\ spent' \in Nat
         /\ (\E r \in Terminals : script[r] = "check") =>
              algo'[Deployer] + spent' = algo[Deployer] + spent
<1>1. algo[Deployer] \in Nat /\ needed[Deployer] \in Nat /\ spent \in Nat
  BY TypeFacts
<1>2. PaysFee(fee) /\ algo[Deployer] >= fee
  BY <1>1 DEF ServicePays, Affords
<1>3. algo' \in [Apps \cup {Deployer, Anchor} -> Nat] /\ algo'[Deployer] = algo[Deployer] - fee
  BY <1>2, FeeIsPaid
<1>4. spent' = IF \E r \in Terminals : script[r] = "check" THEN spent + fee ELSE 0
  BY DEF ServicePays, Charge
<1> QED
  BY <1>1, <1>3, <1>4

LEMMA MintKeeps ==
  ASSUME IndInv, NEW a \in Apps, Mint(a)
  PROVE  IndInv'
<1>t. TypeOK
  BY DEF IndInv
<1>s. /\ held[a] \notin {None, 0} /\ minted[a] < MaxMints
      /\ ServicePays(POLICY_CHECK_FEE)
      /\ minted' = [minted EXCEPT ![a] = @ + 1]
      /\ held' = [held EXCEPT ![a] = @ - 1, ![Deployer] = @ + 1]
      /\ UNCHANGED <<deployed, needed, unfrozen, authority, policyApp, terminals,
                     ready, patient, faults>>
  BY DEF Mint
<1>h. /\ held \in [Apps \cup {Deployer} -> Nat \cup {None}] /\ held[Deployer] \in Nat
      /\ minted \in [Apps -> 0..MaxMints]
      /\ a # Deployer /\ held[a] \in Nat \ {0} /\ minted[a] \in 0..MaxMints
      /\ None \notin Nat /\ Deployer \notin Apps
  BY <1>t, <1>s, TypeFacts DEF TypeOK
<1>v. PICK m, n \in Nat : /\ m = held[a] - 1 /\ n = held[Deployer] + 1
                          /\ held' = [held EXCEPT ![a] = m, ![Deployer] = n]
  <2>1. held[a] - 1 \in Nat /\ held[Deployer] + 1 \in Nat
    BY <1>h
  <2>2. [held EXCEPT ![a] = @ - 1, ![Deployer] = @ + 1]
          = [held EXCEPT ![a] = held[a] - 1, ![Deployer] = held[Deployer] + 1]
    BY <1>h
  <2> QED
    BY <1>s, <2>1, <2>2
<1>e. /\ held' \in [Apps \cup {Deployer} -> Nat \cup {None}] /\ held'[Deployer] = n
      /\ held'[a] = m /\ \A c \in Apps : c # a => held'[c] = held[c]
  BY <1>h, <1>v
<1>m. /\ minted' \in [Apps -> 0..MaxMints] /\ minted'[a] = minted[a] + 1
      /\ \A c \in Apps : c # a => minted'[c] = minted[c]
  <2>1. minted[a] + 1 \in 0..MaxMints
    BY <1>s, <1>h, Amounts
  <2> QED
    BY <1>s, <1>h, <2>1
<1>f. /\ algo' \in [Apps \cup {Deployer, Anchor} -> Nat] /\ spent' \in Nat
      /\ (\E r \in Terminals : script[r] = "check") =>
           algo'[Deployer] + spent' = algo[Deployer] + spent
  BY <1>t, <1>s, ServiceFee, Amounts
<1>1. TypeOK'
  BY <1>t, <1>s, <1>e, <1>f, <1>m, <1>h DEF TypeOK, terminals
<1>2. LedgerGrows
  <2>1. \A c \in Apps : held[c] # None => held[c] \in Nat /\ minted[c] \in Nat
    BY <1>t, TypeFacts
  <2>2. m + (minted[a] + 1) >= held[a] + minted[a] /\ m # None
    BY <1>h, <1>v, <2>1
  <2> QED
    BY <1>s, <1>e, <1>m, <2>1, <2>2 DEF LedgerGrows
<1>3. DeployerIsLeftAlone
  BY <1>s, <1>h, <1>e, <1>f, <1>v DEF DeployerIsLeftAlone
<1> QED
  BY <1>s, <1>1, <1>2, <1>3, WorkKeeps

LEMMA CheckOnlyKeeps ==
  ASSUME IndInv, NEW a \in Apps, CheckOnly(a)
  PROVE  IndInv'
<1>t. TypeOK /\ held[Deployer] \in Nat
  BY TypeFacts DEF IndInv
<1>s. /\ ServicePays(POLICY_CHECK_FEE)
      /\ UNCHANGED <<deployed, needed, held, unfrozen, authority, minted, policyApp, terminals,
                     ready, patient, faults>>
  BY DEF CheckOnly
<1>f. /\ algo' \in [Apps \cup {Deployer, Anchor} -> Nat] /\ spent' \in Nat
      /\ (\E r \in Terminals : script[r] = "check") =>
           algo'[Deployer] + spent' = algo[Deployer] + spent
  BY <1>t, <1>s, ServiceFee, Amounts
<1>1. TypeOK'
  BY <1>t, <1>s, <1>f DEF TypeOK, terminals
<1>2. LedgerGrows
  <2>1. \A c \in Apps : held[c] # None => held[c] \in Nat /\ minted[c] \in Nat
    BY <1>t, TypeFacts
  <2> QED
    BY <1>s, <2>1 DEF LedgerGrows
<1>3. DeployerIsLeftAlone
  BY <1>t, <1>s, <1>f DEF DeployerIsLeftAlone
<1> QED
  BY <1>s, <1>1, <1>2, <1>3, WorkKeeps

LEMMA BoxKeeps ==
  ASSUME IndInv, NEW account \in Apps \cup {Anchor}, StoreBox(account)
  PROVE  IndInv'
<1>t. TypeOK /\ held[Deployer] \in Nat
  BY TypeFacts DEF IndInv
<1>s. /\ ServicePays(Fee)
      /\ needed' = [needed EXCEPT ![account] = @ + BoxMin]
      /\ UNCHANGED <<deployed, held, unfrozen, authority, minted, policyApp, terminals,
                     ready, patient, faults>>
  BY DEF StoreBox
<1>f. /\ algo' \in [Apps \cup {Deployer, Anchor} -> Nat] /\ spent' \in Nat
      /\ (\E r \in Terminals : script[r] = "check") =>
           algo'[Deployer] + spent' = algo[Deployer] + spent
  BY <1>t, <1>s, ServiceFee, Amounts
<1>b. needed' \in [Apps \cup {Deployer, Anchor} -> Nat]
  <2>1. needed \in [Apps \cup {Deployer, Anchor} -> Nat] /\ needed[account] + BoxMin \in Nat
    BY <1>t, TypeFacts, Amounts DEF TypeOK
  <2> QED
    BY <1>s, <2>1
<1>1. TypeOK'
  BY <1>t, <1>s, <1>f, <1>b DEF TypeOK, terminals
<1>2. LedgerGrows
  <2>1. \A c \in Apps : held[c] # None => held[c] \in Nat /\ minted[c] \in Nat
    BY <1>t, TypeFacts
  <2> QED
    BY <1>s, <2>1 DEF LedgerGrows
<1>3. DeployerIsLeftAlone
  BY <1>t, <1>s, <1>f DEF DeployerIsLeftAlone
<1> QED
  BY <1>s, <1>1, <1>2, <1>3, WorkKeeps

-----------------------------------------------------------------------------
(* The theorems *)

LEMMA InitHolds == Init => IndInv
<1> SUFFICES ASSUME Init PROVE IndInv
  OBVIOUS
<1>1. TypeOK
  <2>1. algo \in [Apps \cup {Deployer, Anchor} -> Nat]
    BY Amounts DEF Init
  <2>5. needed \in [Apps \cup {Deployer, Anchor} -> Nat] /\ spent \in Nat
    BY Amounts DEF Init
  <2>2. held \in [Apps \cup {Deployer} -> Nat \cup {None}] /\ held[Deployer] # None
    BY Amounts, NamesAssumption DEF Init
  <2>3. /\ minted \in [Apps -> 0..MaxMints] /\ faults \in 0..MaxFaults
    BY Amounts DEF Init
  <2>4. /\ script \in [Terminals -> DOMAIN Steps \cup {"none"}]
        /\ at \in [Terminals -> Nat] /\ app \in [Terminals -> deployed \cup {None}]
        /\ seen \in [Terminals -> Nat]
        /\ wait \in [Terminals -> {"ready", "sent", "landed", "over"}]
    BY DEF Init
  <2> QED
    BY <2>1, <2>2, <2>3, <2>4, <2>5 DEF Init, TypeOK
<1>2. ASSUME NEW r \in Terminals
      PROVE  InOrder(r)
  <2>1. script[r] = "none" /\ tx[r] = None
    BY Zenon DEF Init
  <2>2. TxIsLegal(r) /\ AppIsKnown(r)
    BY <2>1 DEF TxIsLegal, AppIsKnown
  <2>3. SendHasEffect(r) /\ TopUpIsCovered(r)
    BY <2>1 DEF SendHasEffect, TopUpIsCovered
  <2> QED
    BY <2>2, <2>3 DEF InOrder
<1>3. OneScript /\ ReadyIsLeftAlone /\ ReadyIsReady
  BY DEF Init, OneScript, Idle, ReadyIsLeftAlone, ReadyIsReady
<1> QED
  BY <1>1, <1>2, <1>3 DEF IndInv

LEMMA StepHolds == IndInv /\ [Next]_vars => IndInv'
<1> SUFFICES ASSUME IndInv, [Next]_vars PROVE IndInv'
  OBVIOUS
<1>1. ASSUME NEW r \in Terminals, NEW s \in DOMAIN Steps, Start(r, s)
      PROVE  IndInv'
  BY <1>1, StartKeeps
<1>2. ASSUME NEW r \in Terminals, Goes(r)
      PROVE  IndInv'
  BY <1>2, GoesShape, SendKeeps, SkipKeeps, ReadKeeps, ConfirmKeeps
<1>3. ASSUME NEW r \in Terminals, GiveUp(r)
      PROVE  IndInv'
  BY <1>3, GiveUpKeeps
<1>4. ASSUME NEW r \in Terminals, Ledger(r)
      PROVE  IndInv'
  BY <1>4, CreateKeeps, PaymentKeeps, OptInKeeps, ConfigKeeps, UnfreezeKeeps, TransferKeeps
     DEF Ledger
<1>5. ASSUME NEW r \in Terminals, Expire(r)
      PROVE  IndInv'
  BY <1>5, ExpireKeeps
<1>6. ASSUME NEW a \in Apps, Mint(a) \/ CheckOnly(a)
      PROVE  IndInv'
  BY <1>6, MintKeeps, CheckOnlyKeeps
<1>7. ASSUME NEW account \in Apps \cup {Anchor}, StoreBox(account)
      PROVE  IndInv'
  BY <1>7, BoxKeeps
<1>8. CASE UNCHANGED vars
  <2>1. UNCHANGED <<ledger, minted, policyApp, terminals, ready, patient, faults>>
    BY <1>8 DEF vars
  <2>2. TypeOK
    BY DEF IndInv
  <2>3. TypeOK'
    BY <2>1, <2>2 DEF TypeOK, ledger, holdings, terminals
  <2>4. LedgerGrows /\ DeployerIsLeftAlone
    BY <2>1, <2>2, LedgerIsKept
  <2> QED
    BY <2>1, <2>3, <2>4, WorkKeeps
<1> QED
  BY <1>1, <1>2, <1>3, <1>4, <1>5, <1>6, <1>7, <1>8 DEF Next

\* The inductive invariant holds in every reachable state: what is in the pool was sent
\* by a script in its order, and what send_aacr_to_policy has done shows on the ledger.
THEOREM Invariance == Spec => []IndInv
BY InitHolds, StepHolds, PTL DEF Spec

\* A contract that send_aacr_to_policy calls ready has got its AACR, is not frozen and,
\* when scripts do not overlap, holds the freeze authority.
THEOREM ReadyCanMint == Spec => []ReadyIsReady
<1>1. IndInv => ReadyIsReady
  BY DEF IndInv
<1> QED
  BY <1>1, Invariance, PTL

\* When scripts do not overlap the ledger accepts every step of send_aacr_to_policy,
\* whatever earlier runs left behind.
THEOREM SendCanBeRerun == Spec => []RerunIsAccepted
<1>1. IndInv => RerunIsAccepted
  <2> SUFFICES ASSUME IndInv, NEW r \in Terminals, patient, script[r] = "send", tx[r] # None,
                      held[app[r]] # None, Affords(Fee),
                      tx[r].kind = "transfer" => held[Deployer] >= SEND_AMOUNT
               PROVE  Valid(tx[r])
    BY DEF RerunIsAccepted
  <2>1. TypeOK /\ InOrder(r)
    BY DEF IndInv
  <2>2. /\ tx[r].kind \in {"config", "unfreeze", "transfer"}
        /\ tx[r].kind = "unfreeze" => at[r] = 2
        /\ tx[r].kind = "transfer" => at[r] = 3
    BY InPool
  <2>3. /\ tx[r].to = IF at[r] = 1 THEN Deployer ELSE app[r]
        /\ tx[r].kind = "transfer" => tx[r].amount = SEND_AMOUNT
        /\ Passed(r, 2) => app[r] \in unfrozen
        /\ patient /\ Passed(r, 1) => authority = IF Passed(r, 4) THEN app[r] ELSE Deployer
    BY <2>1 DEF InOrder, SendHasEffect
  <2>4. CASE tx[r].kind = "config"
    BY <2>4 DEF Valid
  <2>5. CASE tx[r].kind = "unfreeze"
    <3>1. Passed(r, 1) /\ ~Passed(r, 4)
      BY <2>2, <2>5 DEF Passed
    <3>2. authority = Deployer /\ held[tx[r].to] # None
      BY <2>2, <2>3, <2>5, <3>1
    <3> QED
      BY <2>5, <3>2 DEF Valid
  <2>6. CASE tx[r].kind = "transfer"
    <3>1. Passed(r, 2)
      BY <2>2, <2>6 DEF Passed
    <3>2. /\ held[tx[r].to] # None /\ tx[r].to \in unfrozen
          /\ held[Deployer] >= tx[r].amount
      BY <2>2, <2>3, <2>6, <3>1
    <3> QED
      BY <2>6, <3>2 DEF Valid
  <2> QED
    BY <2>2, <2>4, <2>5, <2>6
<1> QED
  BY <1>1, Invariance, PTL

\* Only the ledger lets a script know that its transaction landed.
LEMMA LandsByLedger ==
  ASSUME IndInv, [Next]_vars, NEW r \in Terminals, wait[r] # "landed", wait'[r] = "landed"
  PROVE  Ledger(r)
<1>t. wait \in [Terminals -> {"ready", "sent", "landed", "over"}]
  BY DEF IndInv, TypeOK
<1>1. ASSUME NEW q \in Terminals, NEW w \in {"ready", "sent", "over"},
             wait' = [wait EXCEPT ![q] = w]
      PROVE  FALSE
  BY <1>t, <1>1
<1>2. ASSUME wait' = wait
      PROVE  FALSE
  BY <1>2
<1>3. ASSUME NEW q \in Terminals, Advance(q)
      PROVE  FALSE
  BY <1>1, <1>3 DEF Advance, Ends
<1>4. ASSUME NEW q \in Terminals, NEW s \in DOMAIN Steps, Start(q, s)
      PROVE  FALSE
  BY <1>1, <1>4 DEF Start
<1>5. ASSUME NEW q \in Terminals, Goes(q)
      PROVE  FALSE
  BY <1>1, <1>2, <1>3, <1>5, GoesShape DEF Sends, Skips, ReadBalance, Confirmed
<1>6. ASSUME NEW q \in Terminals, GiveUp(q) \/ Expire(q)
      PROVE  FALSE
  BY <1>1, <1>2, <1>6 DEF GiveUp, Ends, Expire
<1>7. ASSUME NEW q \in Terminals, Ledger(q)
      PROVE  q = r
  <2>1. wait' = [wait EXCEPT ![q] = IF @ = "sent" THEN "landed" ELSE @]
    BY <1>7 DEF Ledger, LandCreate, LandPayment, LandOptIn, LandConfig, LandUnfreeze,
                LandTransfer, Lands
  <2> QED
    BY <1>t, <2>1
<1>8. ASSUME \/ UNCHANGED vars
             \/ \E a \in Apps : Mint(a) \/ CheckOnly(a)
             \/ \E account \in Apps \cup {Anchor} : StoreBox(account)
      PROVE  FALSE
  BY <1>2, <1>8 DEF Mint, CheckOnly, StoreBox, terminals, vars
<1> QED
  BY <1>4, <1>5, <1>6, <1>7, <1>8 DEF Next

\* When scripts do not overlap, demo_check's top-ups leave the deployer its floor of AACR,
\* and its floor of ALGO but for the fees paid since the balance was read, although each
\* top-up changes what the next one may spend.
THEOREM FloorsAreKept == Spec => TopUpsKeepFloors
<1>1. ASSUME IndInv, [Next]_vars, NEW r \in Terminals,
             patient, script[r] = "check", tx[r] # None, wait'[r] = "landed"
      PROVE  /\ tx[r].kind = "pay" => algo'[Deployer] + spent' >= MIN_DEPLOYER_ALGO
             /\ tx[r].kind = "transfer" => held'[Deployer] >= DEPLOYER_AACR_BUFFER
  <2>1. TypeOK /\ InOrder(r)
    BY <1>1 DEF IndInv
  <2>2. /\ wait[r] = "sent" /\ Legal(tx[r])
        /\ at[r] \in {2, 4, 5}
        /\ tx[r].kind = "pay" <=> at[r] \in {2, 4}
    BY <1>1, InPool
  <2>3. Ledger(r)
    BY <1>1, <2>2, LandsByLedger
  <2>4. /\ at[r] \in {2, 4} => /\ seen[r] = algo[Deployer] + spent
                               /\ seen[r] - tx[r].amount >= MIN_DEPLOYER_ALGO
        /\ at[r] = 5 => tx[r].amount <= held[Deployer] - DEPLOYER_AACR_BUFFER
    BY <1>1, <2>1, <2>2 DEF InOrder, TopUpIsCovered
  <2>5. /\ algo \in [Apps \cup {Deployer, Anchor} -> Nat]
        /\ held \in [Apps \cup {Deployer} -> Nat \cup {None}] /\ held[Deployer] \in Nat
        /\ deployed \subseteq Apps /\ Deployer \notin Apps /\ Deployer # Anchor
    BY <2>1, TypeFacts, NamesAssumption DEF TypeOK
  <2>6. CASE tx[r].kind = "pay"
    <3>1. LandPayment(r)
      BY <2>3, <2>6 DEF Ledger, LandCreate, LandOptIn, LandConfig, LandUnfreeze, LandTransfer,
                        Lands
    <3>2. algo' = [algo EXCEPT ![Deployer] = @ - (tx[r].amount + Fee),
                                ![tx[r].to] = @ + tx[r].amount]
      BY <3>1 DEF LandPayment
    <3>3. tx[r].to # Deployer
      BY <2>2, <2>5, <2>6 DEF Legal
    <3>4. algo'[Deployer] = algo[Deployer] - (tx[r].amount + Fee)
      BY <2>5, <3>2, <3>3
    <3>5. spent' = spent + Fee
      BY <1>1, <2>6, <3>1 DEF LandPayment, Lands, Charge, FeeOf
    <3>6. /\ tx[r].amount \in Nat /\ algo[Deployer] \in Nat /\ spent \in Nat
          /\ algo[Deployer] + spent - tx[r].amount >= MIN_DEPLOYER_ALGO
      BY <2>1, <2>2, <2>4, <2>6, TypeFacts DEF Legal
    <3>7. algo'[Deployer] + spent' >= MIN_DEPLOYER_ALGO
      BY <3>4, <3>5, <3>6, Amounts
    <3> QED
      BY <2>6, <3>7
  <2>7. CASE tx[r].kind = "transfer"
    <3>1. LandTransfer(r)
      BY <2>3, <2>7 DEF Ledger, LandCreate, LandOptIn, LandConfig, LandUnfreeze, LandPayment,
                        Lands
    <3>2. held' = [held EXCEPT ![Deployer] = @ - tx[r].amount, ![tx[r].to] = @ + tx[r].amount]
      BY <3>1 DEF LandTransfer
    <3>3. tx[r].to # Deployer /\ tx[r].amount \in Nat
      BY <2>2, <2>5, <2>7 DEF Legal
    <3>4. held'[Deployer] = held[Deployer] - tx[r].amount
      BY <2>5, <3>2, <3>3
    <3>5. tx[r].amount <= held[Deployer] - DEPLOYER_AACR_BUFFER
      BY <2>2, <2>4, <2>7
    <3> QED
      BY <2>5, <2>7, <3>3, <3>4, <3>5, Amounts
  <2> QED
    BY <2>6, <2>7
<1>2. IndInv /\ [Next]_vars =>
        [\A r \in Terminals :
           patient /\ script[r] = "check" /\ tx[r] # None /\ wait'[r] = "landed" =>
             /\ tx[r].kind = "pay" => algo'[Deployer] + spent' >= MIN_DEPLOYER_ALGO
             /\ tx[r].kind = "transfer" => held'[Deployer] >= DEPLOYER_AACR_BUFFER]_vars
  BY <1>1
<1> QED
  BY <1>2, Invariance, PTL DEF Spec, TopUpsKeepFloors
=============================================================================
