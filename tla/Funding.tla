------------------------------ MODULE Funding ------------------------------
(***************************************************************************)
(* Where the AACR and the ALGO of the contracts come from: the deployment  *)
(* and funding scripts (create_asa, deploy_phase2, opt_in_asa_phase2,      *)
(* send_aacr_to_policy, fund_anchor and demo_check of scripts/), run from  *)
(* the operator's terminals with the deployer's key.                       *)
(*                                                                         *)
(* Each script is a fixed list of steps.  A step sends one transaction and *)
(* waits four rounds for it.  If the wait ends without a confirmation the  *)
(* script is over, but its transaction may land until it expires - while   *)
(* the operator runs the script again, or another one.  The account state  *)
(* a script reads is the state before whatever is still in the pool.       *)
(*                                                                         *)
(* External, modelled from its use: the ledger's rules for each kind of    *)
(* transaction, and default_frozen (every account but the creator's is     *)
(* frozen when it opts in).                                                *)
(*                                                                         *)
(* The deployer pays the fee of every transaction, its scripts' and the    *)
(* audit service's.  An account's ALGO counts its minimum balance, which   *)
(* the ledger lets nobody spend.  Left out are the clawback address, which *)
(* no code uses, and the set-up of the AuditContract of an earlier phase   *)
(* (update_asa).  After its top-ups demo_check only reads: it ends there.  *)
(***************************************************************************)
EXTENDS Integers, Sequences

CONSTANTS
  Terminals,       \* where scripts run; one script at a time in each
  Apps,            \* the policy contracts that can be deployed
  Deployer, Anchor,    \* the deployer's and the anchor contract's account
  None

CONSTANTS          \* the scripts' thresholds and amounts, in small numbers
  TotalAacr, SEND_AMOUNT, AACR_TOPUP, DEPLOYER_AACR_BUFFER, MIN_POLICY_AACR,
  DeployerAlgo, MIN_DEPLOYER_ALGO, MIN_HEADROOM, POLICY_FUND_ALGO, ANCHOR_FUND_ALGO,
  DeployFloor, DeployFund, OptInFloor, OptInFund, DefaultFund,
  Fee, OptInFee, POLICY_CHECK_FEE

CONSTANTS          \* the ledger's minimum balances: of an account, and for what it holds
  AccountMin, AssetMin, AppMin, BoxMin

CONSTANTS MaxMints, MaxFaults    \* bounds: receipts; waits and transactions lost

ASSUME AmountsAssumption ==
  /\ {TotalAacr, DeployerAlgo, MaxMints, MaxFaults} \subseteq Nat
  /\ {SEND_AMOUNT, AACR_TOPUP, DEPLOYER_AACR_BUFFER, MIN_POLICY_AACR, MIN_DEPLOYER_ALGO,
      MIN_HEADROOM, POLICY_FUND_ALGO, ANCHOR_FUND_ALGO, DeployFloor, DeployFund,
      OptInFloor, OptInFund, DefaultFund, Fee, OptInFee, POLICY_CHECK_FEE,
      AccountMin, AssetMin, AppMin, BoxMin} \subseteq Nat \ {0}
ASSUME NamesAssumption == /\ Deployer # Anchor
                          /\ {Deployer, Anchor, None} \cap Apps = {}
                          /\ None \notin {Deployer, Anchor} \cup Nat

VARIABLES
  deployed,        \* the policy contracts on chain
  algo,            \* ALGO of each account
  needed,          \* its minimum balance
  spent,           \* what the deployer has paid in fees since the last demo_check that
                   \* is under way read its balance
  held,            \* AACR of each account, None before it opted in
  unfrozen,        \* the contract accounts that are not frozen for AACR
  authority,       \* the AACR's freeze address
  minted,          \* receipts each contract handed out
  policyApp,       \* POLICY_APP_ID in .env
  script,          \* per terminal, the script that runs or ran last
  at,              \* per terminal, the step it is at
  app,             \* per terminal, POLICY_APP_ID as the script read it
  seen,            \* per terminal, the deployer's balance as demo_check read it
  wait,            \* per terminal: "ready" to go on, "sent", "landed" or "over"
  tx,              \* per terminal, its transaction in the pool, or None
  ready,           \* the contract send_aacr_to_policy last called ready, or None
  patient,         \* the operator runs a script only when nothing is in flight
  faults           \* so far (bound)

holdings  == <<deployed, algo, needed, held, unfrozen, authority>>
ledger    == <<holdings, spent>>
terminals == <<script, at, app, seen, wait, tx>>
vars      == <<ledger, minted, policyApp, terminals, ready, patient, faults>>

Steps ==
  [deploy |-> <<"create", "fund">>,
   opt_in |-> <<"fund", "opt_in">>,
   send   |-> <<"take", "unfreeze", "transfer", "give">>,
   check  |-> <<"read", "policy", "read", "anchor", "aacr">>,
   fund   |-> <<"anchor", "policy">>]

Tx(kind, to, amount) == [kind |-> kind, to |-> to, amount |-> amount]

Least(m, n) == IF m < n THEN m ELSE n

\* Terminal r runs script s, has come to step i of it and waits for nothing.
At(r, s, step) == /\ wait[r] = "ready"
                  /\ script[r] = s /\ Steps[s][at[r]] = step

Sends(r, t) ==
  /\ tx' = [tx EXCEPT ![r] = t]
  /\ wait' = [wait EXCEPT ![r] = "sent"]
  /\ UNCHANGED <<ledger, minted, policyApp, script, at, app, seen, ready, patient, faults>>

\* The script is over, and with it all it knew.
Ends(r) ==
  /\ script' = [script EXCEPT ![r] = "none"]
  /\ at' = [at EXCEPT ![r] = 0]
  /\ app' = [app EXCEPT ![r] = None]
  /\ seen' = [seen EXCEPT ![r] = 0]
  /\ wait' = [wait EXCEPT ![r] = "over"]

Advance(r) ==
  IF at[r] = Len(Steps[script[r]]) THEN Ends(r)
  ELSE /\ at' = [at EXCEPT ![r] = @ + 1]
       /\ wait' = [wait EXCEPT ![r] = "ready"]
       /\ UNCHANGED <<script, app, seen>>

Skips(r) ==
  /\ Advance(r)
  /\ UNCHANGED <<ledger, minted, policyApp, tx, ready, patient, faults>>

-----------------------------------------------------------------------------
(* The scripts *)

Quiet == \A r \in Terminals : wait[r] = "over" /\ tx[r] = None

\* A script starts; all but deploy_phase2 need POLICY_APP_ID.
Start(r, s) ==
  /\ wait[r] = "over" /\ tx[r] = None
  /\ patient => Quiet
  /\ s # "deploy" => policyApp # None
  /\ s = "deploy" => algo[Deployer] >= DeployFloor
  /\ script' = [script EXCEPT ![r] = s]
  /\ at' = [at EXCEPT ![r] = 1]
  /\ app' = [app EXCEPT ![r] = IF s = "deploy" THEN None ELSE policyApp]
  /\ wait' = [wait EXCEPT ![r] = "ready"]
  /\ ready' = IF s = "send" THEN None ELSE ready
  /\ UNCHANGED <<ledger, minted, policyApp, seen, tx, patient, faults>>

\* deploy_phase2: create the contract, then fund it.
CreateApp(r) == At(r, "deploy", "create") /\ Sends(r, Tx("create", None, 0))
FundApp(r)   == At(r, "deploy", "fund") /\ Sends(r, Tx("pay", app[r], DeployFund))

\* opt_in_asa_phase2: fund the contract if its balance is low, then opt_in_asa().  What
\* of the balance its boxes bind is not looked at.
FundOptIn(r) ==
  /\ At(r, "opt_in", "fund")
  /\ IF algo[app[r]] >= OptInFloor THEN Skips(r) ELSE Sends(r, Tx("pay", app[r], OptInFund))
OptIn(r) == At(r, "opt_in", "opt_in") /\ Sends(r, Tx("opt_in", app[r], 0))

\* send_aacr_to_policy.
TakeAuthorityMutant(r) ==
  /\ At(r, "send", "take")
  /\ IF authority = Deployer THEN Sends(r, Tx("config", Deployer, 0)) ELSE Skips(r)
TakeAuthority(r) == At(r, "send", "take") /\ Sends(r, Tx("config", Deployer, 0))
Unfreeze(r)      == At(r, "send", "unfreeze") /\ Sends(r, Tx("unfreeze", app[r], 0))
SendAacr(r)      == At(r, "send", "transfer") /\ Sends(r, Tx("transfer", app[r], SEND_AMOUNT))
GiveAuthority(r) == At(r, "send", "give") /\ Sends(r, Tx("config", app[r], 0))

\* fund_anchor: both contracts, whatever they have.
FundAnchor(r) == At(r, "fund", "anchor") /\ Sends(r, Tx("pay", Anchor, DefaultFund))
FundPolicy(r) == At(r, "fund", "policy") /\ Sends(r, Tx("pay", app[r], DefaultFund))

\* demo_check reads the deployer's balance, and reads it again after the policy
\* contract's top-up ...
ReadBalanceMutant(r) ==
  /\ At(r, "check", "read")
  /\ seen' = [seen EXCEPT ![r] = IF at[r] = 1 THEN algo[Deployer] ELSE @]
  /\ at' = [at EXCEPT ![r] = @ + 1]
  /\ spent' = 0
  /\ UNCHANGED <<holdings, minted, policyApp, script, app, wait, tx, ready, patient, faults>>

ReadBalance(r) ==
  /\ At(r, "check", "read")
  /\ seen' = [seen EXCEPT ![r] = algo[Deployer]]
  /\ at' = [at EXCEPT ![r] = @ + 1]
  /\ spent' = 0
  /\ UNCHANGED <<holdings, minted, policyApp, script, app, wait, tx, ready, patient, faults>>

\* ... tops a contract up that is short of ALGO, if the amount, without its fee, leaves
\* the deployer its floor ...
CheckContractAlgo(r, step, account, amount) ==
  /\ At(r, "check", step)
  /\ IF algo[account] - needed[account] >= MIN_HEADROOM \/ seen[r] - amount < MIN_DEPLOYER_ALGO
     THEN Skips(r)
     ELSE Sends(r, Tx("pay", account, amount))

\* ... and the policy contract's AACR, down to the deployer's own buffer, whatever ALGO
\* is left for the fee.
CheckPolicyAacrMutant(r) ==
  LET canSend == Least(AACR_TOPUP, held[Deployer])
  IN  /\ At(r, "check", "aacr")
      /\ IF held[app[r]] = None \/ held[app[r]] >= MIN_POLICY_AACR \/ canSend <= 0
         THEN Skips(r)
         ELSE Sends(r, Tx("transfer", app[r], canSend))

CheckPolicyAacr(r) ==
  LET canSend == Least(AACR_TOPUP, held[Deployer] - DEPLOYER_AACR_BUFFER)
  IN  /\ At(r, "check", "aacr")
      /\ IF held[app[r]] = None \/ held[app[r]] >= MIN_POLICY_AACR \/ canSend <= 0
         THEN Skips(r)
         ELSE Sends(r, Tx("transfer", app[r], canSend))

\* wait_for_confirmation returns.  deploy_phase2 writes .env; send_aacr_to_policy
\* ends with "ready".
ConfirmedMutant(r) ==
  /\ wait[r] = "landed" \/ (wait[r] = "sent" /\ script[r] = "send")
  /\ Advance(r)
  /\ policyApp' = IF script[r] = "deploy" /\ at[r] = 1 THEN app[r] ELSE policyApp
  /\ ready' = IF script[r] = "send" /\ at[r] = 4 THEN app[r] ELSE ready
  /\ UNCHANGED <<ledger, minted, tx, patient, faults>>

Confirmed(r) ==
  /\ wait[r] = "landed"
  /\ Advance(r)
  /\ policyApp' = IF script[r] = "deploy" /\ at[r] = 1 THEN app[r] ELSE policyApp
  /\ ready' = IF script[r] = "send" /\ at[r] = 4 THEN app[r] ELSE ready
  /\ UNCHANGED <<ledger, minted, tx, patient, faults>>

\* Fees come from the deployer; the one of opt_in_asa pays for the inner transaction.
FeeOf(t) == IF t.kind = "opt_in" THEN OptInFee ELSE Fee

Affords(amount) == algo[Deployer] - amount >= needed[Deployer]

\* The ledger's rules.
Valid(t) ==
  CASE t.kind = "create"   -> deployed # Apps /\ Affords(Fee + AppMin)
    [] t.kind = "pay"      -> /\ Affords(t.amount + Fee)
                              /\ algo[t.to] + t.amount >= needed[t.to]
    [] t.kind = "opt_in"   -> /\ Affords(OptInFee)
                              /\ held[t.to] = None => algo[t.to] >= needed[t.to] + AssetMin
    [] t.kind = "config"   -> Affords(Fee)
    [] t.kind = "unfreeze" -> authority = Deployer /\ held[t.to] # None /\ Affords(Fee)
    [] t.kind = "transfer" -> /\ held[t.to] # None /\ t.to \in unfrozen
                              /\ held[Deployer] >= t.amount /\ Affords(Fee)

\* The wait raised, or the node refused the transaction: the script is over.  To give
\* up a transaction that could land counts as a fault.
GiveUp(r) ==
  /\ wait[r] = "sent"
  /\ IF tx[r] # None /\ Valid(tx[r])
     THEN faults < MaxFaults /\ faults' = faults + 1
     ELSE UNCHANGED faults
  /\ Ends(r)
  /\ UNCHANGED <<ledger, minted, policyApp, tx, ready, patient>>

-----------------------------------------------------------------------------
(* The chain *)

\* A fee is counted against what a demo_check under way has read.
Charge(fee) ==
  spent' = IF \E r \in Terminals : script[r] = "check" THEN spent + fee ELSE 0

\* The transaction of terminal r is executed and paid for; its script, if it still waits,
\* hears of it.
Lands(r, kind) ==
  /\ tx[r] # None /\ tx[r].kind = kind /\ Valid(tx[r])
  /\ tx' = [tx EXCEPT ![r] = None]
  /\ wait' = [wait EXCEPT ![r] = IF @ = "sent" THEN "landed" ELSE @]
  /\ Charge(FeeOf(tx[r]))
  /\ UNCHANGED <<minted, policyApp, script, at, seen, ready, patient, faults>>

PaysFee(fee) == algo' = [algo EXCEPT ![Deployer] = @ - fee]

LandCreate(r, a) ==
  /\ Lands(r, "create") /\ PaysFee(Fee)
  /\ a \notin deployed
  /\ deployed' = deployed \cup {a}
  /\ needed' = [needed EXCEPT ![Deployer] = @ + AppMin]
  /\ app' = [app EXCEPT ![r] = IF wait[r] = "sent" THEN a ELSE None]
  /\ UNCHANGED <<held, unfrozen, authority>>

LandPayment(r) ==
  /\ Lands(r, "pay")
  /\ algo' = [algo EXCEPT ![Deployer] = @ - (tx[r].amount + Fee),
                          ![tx[r].to] = @ + tx[r].amount]
  /\ UNCHANGED <<deployed, needed, held, unfrozen, authority, app>>

LandOptIn(r) ==
  /\ Lands(r, "opt_in") /\ PaysFee(OptInFee)
  /\ held' = [held EXCEPT ![tx[r].to] = IF @ = None THEN 0 ELSE @]
  /\ needed' = [needed EXCEPT ![tx[r].to] = IF held[tx[r].to] = None THEN @ + AssetMin ELSE @]
  /\ UNCHANGED <<deployed, unfrozen, authority, app>>

LandConfig(r) ==
  /\ Lands(r, "config") /\ PaysFee(Fee)
  /\ authority' = tx[r].to
  /\ UNCHANGED <<deployed, needed, held, unfrozen, app>>

LandUnfreeze(r) ==
  /\ Lands(r, "unfreeze") /\ PaysFee(Fee)
  /\ unfrozen' = unfrozen \cup {tx[r].to}
  /\ UNCHANGED <<deployed, needed, held, authority, app>>

LandTransfer(r) ==
  /\ Lands(r, "transfer") /\ PaysFee(Fee)
  /\ held' = [held EXCEPT ![Deployer] = @ - tx[r].amount, ![tx[r].to] = @ + tx[r].amount]
  /\ UNCHANGED <<deployed, needed, unfrozen, authority, app>>

\* It expires in the pool; if it could have landed that counts as a fault.
Expire(r) ==
  /\ tx[r] # None
  /\ IF Valid(tx[r])
     THEN faults < MaxFaults /\ faults' = faults + 1
     ELSE UNCHANGED faults
  /\ tx' = [tx EXCEPT ![r] = None]
  /\ UNCHANGED <<ledger, minted, policyApp, script, at, app, seen, wait, ready, patient>>

\* The audit service's transactions are the deployer's, too.
ServicePays(fee) == Affords(fee) /\ PaysFee(fee) /\ Charge(fee)

\* check_and_mint pays one AACR to the sender of the call: the deployer ...
Mint(a) ==
  /\ a \in unfrozen /\ held[a] \notin {None, 0}
  /\ minted[a] < MaxMints
  /\ ServicePays(POLICY_CHECK_FEE)
  /\ minted' = [minted EXCEPT ![a] = @ + 1]
  /\ held' = [held EXCEPT ![a] = @ - 1, ![Deployer] = @ + 1]
  /\ UNCHANGED <<deployed, needed, unfrozen, authority, policyApp, terminals,
                 ready, patient, faults>>

\* ... or nothing, if the decision breaks a rule.
CheckOnly(a) ==
  /\ a \in deployed
  /\ ServicePays(POLICY_CHECK_FEE)
  /\ UNCHANGED <<deployed, needed, held, unfrozen, authority, minted, policyApp, terminals,
                 ready, patient, faults>>

\* A rule, a set member or a root is stored: one more box to keep a balance for.
StoreBox(account) ==
  /\ account \in deployed \cup {Anchor}
  /\ algo[account] >= needed[account] + BoxMin
  /\ ServicePays(Fee)
  /\ needed' = [needed EXCEPT ![account] = @ + BoxMin]
  /\ UNCHANGED <<deployed, held, unfrozen, authority, minted, policyApp, terminals,
                 ready, patient, faults>>

-----------------------------------------------------------------------------

\* create_asa has run, the anchor contract is deployed.
Init ==
  /\ deployed = {}
  /\ algo = [a \in Apps \cup {Deployer, Anchor} |-> IF a = Deployer THEN DeployerAlgo ELSE 0]
  /\ needed = [a \in Apps \cup {Deployer, Anchor} |->
                 IF a = Deployer THEN AccountMin + AssetMin + AppMin ELSE AccountMin]
  /\ spent = 0
  /\ held = [a \in Apps \cup {Deployer} |-> IF a = Deployer THEN TotalAacr ELSE None]
  /\ unfrozen = {}
  /\ authority = Deployer
  /\ minted = [a \in Apps |-> 0]
  /\ policyApp = None
  /\ script = [r \in Terminals |-> "none"]
  /\ at = [r \in Terminals |-> 0]
  /\ app = [r \in Terminals |-> None]
  /\ seen = [r \in Terminals |-> 0]
  /\ wait = [r \in Terminals |-> "over"]
  /\ tx = [r \in Terminals |-> None]
  /\ ready = None
  /\ patient \in BOOLEAN
  /\ faults = 0

Goes(r) ==
  \/ CreateApp(r) \/ FundApp(r)
  \/ FundOptIn(r) \/ OptIn(r)
  \/ TakeAuthority(r) \/ Unfreeze(r) \/ SendAacr(r) \/ GiveAuthority(r)
  \/ FundAnchor(r) \/ FundPolicy(r)
  \/ ReadBalance(r)
  \/ CheckContractAlgo(r, "policy", app[r], POLICY_FUND_ALGO)
  \/ CheckContractAlgo(r, "anchor", Anchor, ANCHOR_FUND_ALGO)
  \/ CheckPolicyAacr(r)
  \/ Confirmed(r)

Ledger(r) ==
  \/ \E a \in Apps : LandCreate(r, a)
  \/ LandPayment(r) \/ LandOptIn(r) \/ LandConfig(r) \/ LandUnfreeze(r) \/ LandTransfer(r)

Next ==
  \/ \E r \in Terminals, s \in DOMAIN Steps : Start(r, s)
  \/ \E r \in Terminals : Goes(r) \/ GiveUp(r) \/ Ledger(r) \/ Expire(r)
  \/ \E a \in Apps : Mint(a) \/ CheckOnly(a)
  \/ \E account \in Apps \cup {Anchor} : StoreBox(account)

Spec == Init /\ [][Next]_vars

-----------------------------------------------------------------------------
(* Properties *)

\* Every variable has its type: nobody spends what he has not got.
TypeOK ==
  /\ deployed \subseteq Apps
  /\ algo \in [Apps \cup {Deployer, Anchor} -> Nat]
  /\ needed \in [Apps \cup {Deployer, Anchor} -> Nat]
  /\ spent \in Nat
  /\ held \in [Apps \cup {Deployer} -> Nat \cup {None}] /\ held[Deployer] # None
  /\ unfrozen \subseteq deployed
  /\ authority \in deployed \cup {Deployer}
  /\ minted \in [Apps -> 0..MaxMints]
  /\ policyApp \in deployed \cup {None}
  /\ script \in [Terminals -> DOMAIN Steps \cup {"none"}]
  /\ at \in [Terminals -> Nat]
  /\ app \in [Terminals -> deployed \cup {None}]
  /\ seen \in [Terminals -> Nat]
  /\ wait \in [Terminals -> {"ready", "sent", "landed", "over"}]
  /\ \A r \in Terminals :
       /\ IF wait[r] = "over" THEN script[r] = "none" /\ at[r] = 0
          ELSE script[r] # "none" /\ at[r] \in 1..Len(Steps[script[r]])
       /\ wait[r] \in {"ready", "landed"} => tx[r] = None
  /\ DOMAIN tx = Terminals
  /\ ready \in deployed \cup {None}
  /\ patient \in BOOLEAN /\ faults \in 0..MaxFaults

\* What send_aacr_to_policy calls ready can mint: it got all its AACR and is not
\* frozen, whatever earlier runs left half done and whatever lands late.  It has the
\* freeze authority back, too, as long as the operator waits for the transactions of
\* one script before running the next.
ReadyIsReady ==
  ready # None => /\ ready \in unfrozen
                  /\ held[ready] + minted[ready] >= SEND_AMOUNT
                  /\ patient => authority = ready

\* A top-up of demo_check leaves the deployer its floor of ALGO but for the fees paid
\* since the balance it was judged by was read - its own at least, and those of audits
\* that went on meanwhile - and it never leaves less than its floor of AACR, although
\* each top-up changes what the next one may spend.  (Without patience a late top-up
\* and its repetition together do.)  The top-up of AACR itself costs a fee for which no
\* floor of ALGO is looked at.
TopUpsKeepFloors ==
  [][\A r \in Terminals :
       patient /\ script[r] = "check" /\ tx[r] # None /\ wait'[r] = "landed" =>
         /\ tx[r].kind = "pay" => algo'[Deployer] + spent' >= MIN_DEPLOYER_ALGO
         /\ tx[r].kind = "transfer" => held'[Deployer] >= DEPLOYER_AACR_BUFFER]_vars

\* However earlier runs were interrupted, running send_aacr_to_policy again is the
\* remedy: when nothing else is in flight the ledger accepts each of its steps, given
\* an opted-in contract, enough AACR and the ALGO for the fee.
RerunIsAccepted ==
  \A r \in Terminals :
    LET t == tx[r]
    IN  /\ patient /\ script[r] = "send" /\ t # None
        /\ held[app[r]] # None /\ Affords(Fee)
        /\ t.kind = "transfer" => held[Deployer] >= SEND_AMOUNT
        => Valid(t)

-----------------------------------------------------------------------------
(* The inductive invariant of the safety properties *)

\* What the step a terminal is at sends.
StepKind ==
  [deploy |-> <<"create", "pay">>,
   opt_in |-> <<"pay", "opt_in">>,
   send   |-> <<"config", "unfreeze", "transfer", "config">>,
   check  |-> <<"none", "pay", "none", "pay", "transfer">>,
   fund   |-> <<"pay", "pay">>]

\* The transaction is one some script sends, to an account that exists.
Legal(t) ==
  \/ t.kind = "create"
  \/ t.kind = "pay" /\ t.to \in deployed \cup {Anchor} /\ t.amount \in Nat
  \/ t.kind \in {"opt_in", "unfreeze"} /\ t.to \in deployed
  \/ t.kind = "config" /\ t.to \in deployed \cup {Deployer}
  \/ t.kind = "transfer" /\ t.to \in deployed /\ t.amount \in Nat

\* What is in the pool was sent by a script; what a script waits for, by its own step.
TxIsLegal(r) ==
  tx[r] # None =>
    Legal(tx[r]) /\ (wait[r] = "sent" => tx[r].kind = StepKind[script[r]][at[r]])

\* Terminal r's script has had its i-th step.
Passed(r, i) == at[r] > i \/ (at[r] = i /\ wait[r] = "landed")

\* A script knows the contract it is about; deploy_phase2 does when it created it.
AppIsKnown(r) ==
  script[r] # "none" /\ (script[r] = "deploy" => Passed(r, 1)) => app[r] \in deployed

\* With patience, one terminal at most has a script or a transaction under way.
Idle(r)   == wait[r] = "over" /\ tx[r] = None
OneScript == patient => \A r, q \in Terminals : r # q => Idle(r) \/ Idle(q)

\* How far send_aacr_to_policy has come shows on the ledger.
SendHasEffect(r) ==
  script[r] = "send" =>
    /\ tx[r] # None => /\ tx[r].to = IF at[r] = 1 THEN Deployer ELSE app[r]
                       /\ tx[r].kind = "transfer" => tx[r].amount = SEND_AMOUNT
    /\ Passed(r, 2) => app[r] \in unfrozen
    /\ Passed(r, 3) => held[app[r]] # None /\ held[app[r]] + minted[app[r]] >= SEND_AMOUNT
    /\ patient /\ Passed(r, 1) => authority = IF Passed(r, 4) THEN app[r] ELSE Deployer

\* With patience nothing that could take the authority away is under way once a contract
\* was called ready.
ReadyIsLeftAlone ==
  ready # None =>
    /\ held[ready] # None
    /\ patient => \A r \in Terminals :
         script[r] # "send" /\ (tx[r] # None => tx[r].kind # "config")

\* With patience what demo_check has read is still so when its top-up lands.
TopUpIsCovered(r) ==
  patient /\ script[r] = "check" =>
    /\ at[r] \in {1, 3} => wait[r] = "ready"
    /\ at[r] \in {2, 4} /\ wait[r] # "landed" =>
         /\ seen[r] = algo[Deployer] + spent
         /\ tx[r] # None => seen[r] - tx[r].amount >= MIN_DEPLOYER_ALGO
    /\ at[r] = 5 /\ tx[r] # None => tx[r].amount <= held[Deployer] - DEPLOYER_AACR_BUFFER

InOrder(r) == TxIsLegal(r) /\ AppIsKnown(r) /\ SendHasEffect(r) /\ TopUpIsCovered(r)

IndInv ==
  /\ TypeOK
  /\ \A r \in Terminals : InOrder(r)
  /\ OneScript
  /\ ReadyIsLeftAlone
  /\ ReadyIsReady
=============================================================================
