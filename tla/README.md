# AgentAudit in TLA+

Specifications of AgentAudit: the audit pipeline, Merkle anchoring, the policy
contract with the code that feeds it, tenant onboarding, verification, payment
and the SDK, the demo agent, and the scripts that deploy and fund the contracts.
TLC checks them on small instances; the TLA+ proof system proves their safety
properties for every size, and that handlers, loops and chats cannot go round for
ever. Source paths are relative to `src/`.

## 1. The system

An AI agent makes a decision and reports it. The backend (FastAPI, one process,
one asyncio event loop) encrypts the record, uploads it to IPFS, asks
`PolicyContract` on Algorand to evaluate the agent's policy set and to mint one
AACR unit if every policy holds, and stores the record as a pending leaf in
SQLite. An operator anchors all pending leaves under one Merkle root in
`AnchorContract`; afterwards anyone can verify a record against that root.

| component | code | state it keeps | operations that change it |
|---|---|---|---|
| audit handlers | `api/main.py`, `sdk/audit_flow_v2.py` | `recent_audits` (memory, 50 entries), coroutine locals | `/api/audit`, `/api/chat`, `/v1/audit`, `/v1/audit/x402` |
| batch store | `batcher/store.py` | tables `leaves`, `batches` | `add`, `mark_anchored` (`flush` only reads) |
| anchoring | `batcher/anchor.py`, `POST /api/batch/submit` | the `ReadyBatch` in flight | `flush_and_anchor` |
| anchor contract | `contracts/anchor_contract.py` | box map `roots` | `submit_root` |
| Merkle tree | `batcher/merkle.py` | none | `compute_root`, `compute_proof`, `verify_proof` |
| policy contract | `contracts/policy_contract.py` | rule boxes, counts, membership sets, AACR balance | `register_rule`, `add_to_set`, `remove_from_set`, `check_and_mint` |
| policy engine | `tenancy/provisioning.py`, `algorand/contract_client_v2.py` | `agent_rules` mirror | registration, `build_check_args`, `submit_policy_check` |
| onboarding | `POST /v1/onboard`, `scripts/onboard_org.py`, `scripts/reset_demo.py` | tables `orgs`, `agents`, `agent_rules` | `create_org`, `register_agent`, `register_policy`, `delete_org` |
| IPFS uploader | `ipfs/uploader.py` | none | two attempts, 2 s apart |
| verification | `GET /api/verify`, `crypto/payload.py` | none | none; reads the tables of the batch store and the tenant store |
| x402 gate | `api/x402_gate.py` | `X402_ENABLED` (off by default) | if enabled, installs a library middleware around `/v1/audit/x402` |
| SDK client | `agentaudit/client.py` | the x402 session | `audit`, `capture` |
| demo agent | `agent/payment_agent.py`, `agent/vendors.py` | locals of one request: selection, trace | the tools of the language model |
| deployment and funding | `scripts/create_asa.py`, `deploy_phase2.py`, `opt_in_asa_phase2.py`, `send_aacr_to_policy.py`, `fund_anchor.py`, `demo_check.py` | `.env`; ALGO, AACR, freeze address on chain | one to four transactions each |
| dashboard, CSV, batch queries | `api/main.py` | none | reads only |
| frontend, other scripts | `frontend/`, `scripts/` | none shared | calls of the API |

How they interact. A handler calls the uploader (an `await` that gives the event
loop up), then the Algorand client (declared `async`, but it blocks in
`wait_for_confirmation`), then the batch store, and appends to `recent_audits`.
Anchoring shares the tables and the event loop with the handlers. The chain is
reached only through transactions that may land after the server stopped
waiting. Onboarding writes the tenant store and the policy contract in turn; the
command line scripts are other processes on the same SQLite file. Verification and
the audits read that file in separate queries. An SDK client waits for a handler
with a timeout of its own, and the x402 middleware, where it is installed, stands
between the two. The
AACR that `check_and_mint` hands out comes from the funding scripts.

What is hard: a transaction outcome learned late or never; an action id of a
second and four random digits with `INSERT OR REPLACE` behind it; a root that is
computed before a blocking call and stored after it; crashes between the chain
and the database; arrays, stored rules and rule boxes lined up by position only;
limits (8 box references, uint64 words, the AACR supply); a rollback by name; an
org id that belongs to another tenant by the time a record is read; a client, a
server and a payment that fail independently; scripts of several transactions
that are interrupted and run again.
`PROJECT.json` lists each of these hazards at its line with the properties that
would notice it going wrong.

What makes each component correct:

- *pipeline, store, anchoring*: an anchored leaf verifies on chain, once and for
  good; a record agrees with the chain; an answered audit is never lost; every
  call returns; pending leaves get anchored when somebody anchors;
- *Merkle tree*: a proof verifies its own leaf and nothing else;
- *policy engine*: the i-th token is the truth about the i-th declared policy;
  what is reported as minted was minted, and what was minted unreported belongs to a
  call the backend gave up on; refusals have a visible reason;
- *onboarding*: a finished onboarding left the declared policy set on chain and
  in the store; a failed one leaves nothing and destroys nothing of others;
- *verification*: keys, re-checks and labels of a record are those of the tenant
  it belongs to, or none;
- *payment and SDK*: nobody pays for an audit that failed, a result is recorded, and
  paid exactly if it was asked for through an installed gate, an agent that learns how
  its call ended is not audited twice;
- *demo agent*: the audited choice is the one on its trace; requests end;
- *funding*: a contract called ready can mint, interrupted runs can be repeated,
  top-ups leave the deployer its floor of AACR, and its floor of ALGO but for fees.

## 2. Modules

| module | models |
|---|---|
| `AuditTrail` | the promise: decisions are judged, recorded, published under a root and anchored with exactly that root's decisions |
| `AuditPipeline` | handlers, batch store, anchoring, both contracts' effects, crashes; refines `AuditTrail` |
| `AuditPipelineProofs` | theorems about `AuditPipeline` |
| `Merkle` | the three loops of `batcher/merkle.py` |
| `MerkleProofs` | theorems about `Merkle` |
| `PolicyContract` | the contract's state, evaluation and effects, as operators |
| `PolicyEngine` | extends `PolicyContract` with the backend's side of a policy check |
| `PolicyEngineProofs` | theorems about `PolicyEngine` |
| `Onboarding` | provisioning step by step, several processes |
| `OnboardingProofs` | theorems about `Onboarding` |
| `Verification` | `GET /api/verify`, and the audits whose records it reports, over a tenant that is deleted and onboarded again |
| `VerificationProofs` | theorems about `Verification` |
| `Billing` | SDK client, asking agent, x402 gate, payment, ingest handler, crash |
| `BillingProofs` | theorems about `Billing` |
| `ChatAgent` | the demo agent's two entry points and its tool loop |
| `ChatAgentProofs` | theorems about `ChatAgent` |
| `Funding` | the deployment and funding scripts over one ledger |
| `FundingProofs` | theorems about `Funding` |
| `MC...` | values of constants and symmetry for TLC |

Definitions whose name ends in `Mutant` are never used by a specification. Each
stands before the definition it distorts and is a plausible bug in it; with it in
place of the original, TLC finds the property it is listed for violated.

### AuditPipeline

State: `up`, `loop`, `pc`, `actionId`, `flight`, `history` are memory and go in
a crash; `record`, `batchId`, `proof`, `batches` are the columns of the SQLite
tables and stay; `policyTx`, `receipts`, `aacr`, `rootTx`, `roots` are the chain.
`actionId` is kept after a crash only so that properties can speak of it.

| action | code |
|---|---|
| `Submit` | from the drawing of the action id to the start of the upload |
| `Refuse` | 401/404/400, unknown org, off-topic chat: no audit |
| `PipelineFails` | upload failed twice, argument building raised, node refused the transaction |
| `CheckPolicy` | upload done, transaction sent, handler blocks (and keeps the event loop) |
| `ConfirmFails` | `wait_for_confirmation` raised; the transaction may land all the same |
| `RecordAudit` | transaction confirmed, `BatchStore.add` |
| `Respond` | `recent_audits.appendleft`, the answer |
| `RespondFails` | making the history entry raised: 500, and the record stays |
| `FlushBatch`, `MarkAnchored`, `AnchorFails` | `flush_and_anchor` up to and after its blocking call |
| `LandPolicyTx`, `LandRoot`, `DropPolicyTx`, `DropRoot` | the chain |
| `Crash`, `Restart` | the process |

`loop` names the coroutine holding the event loop. That is how the asyncio code
behaves: between the policy call and its answer, and throughout
`flush_and_anchor`, there is no suspension point. Crashes and the chain
interleave with everything.

A leaf hash is its record, a root is the set of leaf hashes under it and a stored
proof is the set it was computed over; module `Merkle` justifies that reading.
Whether a decision satisfies its policy is the constant `Compliant`; modules
`PolicyContract` and `PolicyEngine` say what that depends on. Two calls may draw
one action id when `ReuseIds` is TRUE, but only if neither has sent its policy
transaction: ids coincide only within one second, a confirmation takes longer.
Batch ids are fresh: two flushes cannot be in one second unless the first one
failed immediately, and then nothing is on chain under its id.

### Merkle, PolicyContract, PolicyEngine, Onboarding

`Merkle`: one action per loop iteration, positions counted from 1, SHA-256 a free
constructor: a leaf hash is its record, the hash of a pair is the set of the two
(siblings are sorted), and neither is the other, since the text of a record is not the
64 bytes of two hashes. `levels` and `path` are history variables for the proof;
`LevelsOf`, `Height` and `RootOf` say what the loop of `compute_root` computes as
functions of its list, for properties that compare two batches.

`PolicyContract`: an agent's rule boxes and count box are one sequence, since
boxes are only appended; `check_and_mint` sees only the referenced boxes. `BoxList`
is the client's list of references: a set of places with a box each, because two
policies may refer to one membership box, and each reference counts.
`PolicyEngine`: declarations, stored rules, chain rules and reports are separate
state, so that misalignment could show. A number is a multiple of 1/`Scale`, so
fractional reports exist and `int()` is modelled as truncation towards zero.
A report may also be a string where a number is wanted (`Convertible`: `int()` raises) or
the empty string on a list (its set box is not referenced, so the contract fails).
`declared` is what the org asked for; `Meets` is the reference meaning of a policy.

An audit ends in one of three ways. `AuditChecked`: the transaction is confirmed.
`AuditFails`: a conversion raises or the node rejects the call, and nothing is left.
`AuditUnconfirmed`: `send_transaction` or `wait_for_confirmation` raises for another
reason; the caller gets the same 500, but the call is in `pool` with the arguments and
box references it was built with. It may be dropped (`CallDropped`) or executed later
(`LateCheck`), on the rules and lists the chain has then. So an AACR can leave the
contract that the backend never reports, and `ReportsWhatWasMinted` says how many:
none but at most one for each call that was given up and has left the pool.
`RefusalsAreExplained` is about `AuditFails`, on a deployment that is funded and unfrozen
(module `Funding`) and without the AVM's own limits (section 5).
`remove_from_set` is reachable only through the client library, not the API.

`Onboarding`: a run goes through check, `create_org`, `register_agent`, and per
policy the rule transaction, the mirror row and its membership transactions, one
database or chain operation per step. API runs do not interleave with each other
(there is no suspension point), scripts interleave with everything. A run stands
for its opaque agent id. Membership sets belong to one policy each there;
sharing of sets is `PolicyEngine`'s subject.

### Verification

A tenant is one onboarding of the org id; its encryption key, its API key and its
opaque agent id are its own, so the tenant stands for each of them. `Onboard` and
`DeleteOrg` may happen between any two reads of an audit: `require_org` (thread
pool), the rules, the org row before the upload, rules and org row after it, the
labels of the history entry. `LookUp` is `verify` up to its first `await`, `Verified`
everything after the last. An audit keeps in `stored` and `encKey` what it has read.
The contract never forgets an agent's rules, the store does (`StoredRules`); a
rule is its field, its kind and the set of values it allows, `PolicyEngine` has the
evaluation. `Decrypts` says that AES-GCM notices a wrong key.

The invariant `OwnerCanRead` holds although the key is read before and the rules
after the upload: an agent id is drawn at onboarding, so rules found after it are
those of the tenant whose key was used. With rules found by org id alone
(`RulesByOrgMutant`), or rows that survive the deletion, TLC finds records that
nobody can read and labels of the wrong tenant.

### Billing

One call is a decision and an attempt. `stage` is where the server is with it,
`status` what it answered, `seen` what the client made of that: the two differ when
the client's 90 s are over, or the connection broke. `gated` is whether `install_x402` found
`X402_ENABLED` set. It is not by default, and then `/v1/audit/x402` is a route like any
other, which answers an x402 client without asking for a payment: `Gated` is a call of
such a client where the gate is installed. A behaviour has one setting: a server that is
restarted with another one is left out. The middleware is external:
`Challenge`, `VerifyPayment`, `RefusePayment`, `Settle`, `Settled`, `SettleFails` follow
the order the docstring of `ingest_audit_x402` gives (verify, handle, settle). A payment
is `signed` when the client has made it, `sent` when the facilitator was told to submit
it; it may land after the facilitator's answer was lost. `Ask` after a failure is
the agent that tries again, as `scripts/soak_test.py` does. The body carries no
identity of the decision, so a second attempt is a second audit;
`DuplicatesAreExplained` says when that happens, and that it happens only then.

### ChatAgent

One request, from the model's first reply to the answer. The language model is
nondeterminism: any text, any sequence of at most `MaxToolCalls` tool calls with any
vendor and amount, known or not, well formed or not, or a failure. `Choose` is the
point at which vendor, amount, decision and trace are handed to `_execute_pipeline`.
Only one thing of the model is assumed: its client returns or raises.

### Funding

A script is a sequence of steps; `at` is the step, `wait` whether it waits for a
transaction. `GiveUp` is a confirmation wait that raised, which ends the script
while its transaction may still land (the transaction stays in `tx`); `Expire`
removes it. Both are counted as faults only if the transaction could have landed.
`ready` is the contract `send_aacr_to_policy` last printed "ready" for. `patient`
distinguishes an operator who lets nothing be in flight when starting a script from
one who does not; three properties need it, and say so.

`algo` is each account's balance and `needed` its minimum balance, which grows with what
the account holds: the asset, the contracts it created, boxes. The deployer pays a fee
for every transaction, the scripts' and the audit service's: `Mint`, `CheckOnly` and
`StoreBox` are the contracts in use. `demo_check` judges a top-up by a balance it read
earlier and by the amount without its fee (`demo_check.py:143`), so with equality the
deployer ends below `MIN_DEPLOYER_ALGO`; and no ALGO floor is looked at for the fee of its
AACR transfer (`:178`). `spent` counts the fees paid since that balance was read, and
`TopUpsKeepFloors` says what does hold: after a top-up of ALGO the deployer has its floor
but for `spent`, after one of AACR it has its buffer of AACR. `FundOptIn` compares the
raw balance with its threshold, as `opt_in_asa_phase2.py:64` does, though boxes bind a
part of it: the opt-in that follows may be refused (`Valid`).

## 3. Runs

| run | bounds | shows |
|---|---|---|
| `PipelineSafety` | 3 calls (2 compliant), 3 ids, 2 batches, 1 AACR, history of 2, 2 faults | the safety properties and the inductive invariant; without id collisions the pipeline implements `AuditTrail` (`KeepsTrail`) |
| `PipelineProgress` | 2 calls, 3 batches, 1 fault, server fairness | every call ends; with a persistent operator every leaf is anchored |
| `MerkleTree` | lists of up to 5 leaves over 3 records | proofs verify exactly their leaf; a root determines its set of leaves |
| `PolicyVerdicts` | 2 agents, together up to 2 rules of any kind, words 0..1, reports 1/2, 1, 2, -1, missing, empty or no number, 4 box references, 1 AACR, 1 call without a confirmation | verdicts, mints, refusals, isolation of agents: an AACR leaves exactly for the checks that deserve it (`MintsAreDeserved`), also when the call is executed late; the inductive invariant |
| `OnboardingSafety` | 2 API runs, a script and a reset on one name, 1 crash | store and chain agree; clean rollback; the inductive invariant |
| `VerificationSafety` | 2 tenants of one org id with a private and a public policy each, in opposite order; 2 audits, 1 verify request, any key | whose keys, re-checks and labels an answer shows; the inductive invariant |
| `BillingSafety` | a decision of a client in x402 mode and one with an API key, 2 attempts each, 1 crash, with and without the gate | who pays, who has a result, why a decision is audited twice; the inductive invariant |
| `ChatAgentRuns` | 2 vendors and a stranger, 2 amounts, 3 rounds of up to 2 tool calls | choice and trace agree; every request is answered; the inductive invariant |
| `FundingSafety` | 2 terminals, 1 contract, 3 AACR, 16 ALGO with a floor of 6, fees of 1, 1 receipt, 2 faults | ready means ready; reruns are accepted; what top-ups leave the deployer; the inductive invariant |

Why these bounds. Three calls are the fewest in which two collide while a third
is compliant and finds the AACR supply of one gone. Two batches are needed for a
leaf to be in two, three (with an operator who goes on) for a lost attempt, a
late one and a good one. History of 2 overflows with three calls. Five leaves give a
tree with an odd level at the bottom and one above it (5, 3, 2, 1), and three
records over five leaves force repetitions. Thresholds are 1 (and -1, for private
policies); reports lie below it (with a fraction), at it, above it (and above the largest
word), below zero, or are no number at all; lists have one value of two, the report names
either, none, or the empty string. Every operator occurs, public and private, since the
rules of an agent are evaluated one by one, and any two are enough to misalign them. Four
box references overflow with two rules, as the code's eight do with eight. One call
without a confirmation is executed before, between or after the others, or dropped; one
AACR is gone after the first receipt. Two policies, the
second with two members, give onboarding a failure after every kind of step.

Two tenants are what a change of hands takes; the second puts a private list where
the first had a private number, so that a rule looked up by position shows, and one
report is no number where a number is wanted. Two audits and one verify request
interleave with one another, and nothing else is shared between requests (2.2
million states up to renaming the audits). Two attempts per decision are the fewest for a duplicate;
`scripts/soak_test.py` makes three, and the third stands to the second as the second to
the first (6.6 million states; the theorems hold for any number). Three rounds
instead of the code's six have a round with nothing, one with a selection and one at
the limit; two tool calls in a reply give a second selection over the first and a bad
call after a good one. Two faults lose one wait and the next one. Sixteen ALGO are what
deploying, opting in, sending and a demo_check cost in fees and amounts of one, down to the
floor of six: a top-up of one is made at a balance of seven, and its fee then leaves
five. Three AACR with a buffer of two bring the deployer to its floor of AACR with one
top-up.

`MaxFaults`, `MaxResets`, `MaxCrashes`, `MaxRules`, `MaxLeaves`, `MaxAttempts`,
`MaxToolCalls` and `MaxMints` are bounds of the exploration, not of the code. Deadlock is not checked where the system stops by
itself (a bounded number of calls, runs or leaves).

Fairness. `ServerFairness`: an upload ends (2 attempts of 10 s), a wait for
confirmation ends (4 rounds), ready coroutines get the loop in FIFO order (hence
strong fairness for the one step that competes for the loop), and a transaction
does not stay in the pool for ever. Nothing in the code submits batches or
restarts the server (`is_full` is only reported), so `EventuallyAnchored` is an
implication from `OperatorFairness`, an assumption about the people who run the
service; without it a pending leaf may stay pending. `Answers` of `ChatAgent` needs
weak fairness of the request's own steps: each is straight-line code or a call of the
model's client, which has a timeout and raises.

### Where the code and its documentation disagree

Three runs state a sentence of the documentation and TLC refutes it. `PROJECT.json`
quotes each sentence.

| run | sentence | what the code does |
|---|---|---|
| `DocReceiptsAreRecorded` | every policy-checked decision is anchored | after a confirmation timeout the transaction may land: a receipt without a record |
| `DocPoliciesAreAnded` | a policy set is N predicates, all AND-ed | two public membership policies on one field share one set |
| `DocVerdictIsOnTheReport` | `values_num[i]` is the decision's field value | the report is cut to an integer: 24.9 satisfies "<= 24" |

Others are plain from the modules without a run of their own:

- `docs/CONTRACTS.md:68` wants every box in the transaction; `submit_policy_check` cuts
  the list to 8, so an agent with 8 rules can never be audited (`Referenced`,
  `RefusalsAreExplained`).
- `api/main.py:400` wants the half-provisioned org rolled back; `delete_org` goes by
  name, and deletes what `scripts/onboard_org.py` created in between
  (`RollbackDeletesOwnOrg` is restricted to runs of the API for that reason).
- `docs/CONTRACTS.md:141` and `:143` have `verify` recompute the leaf hash and
  `sha256(cid)`; it uses the stored leaf hash and never looks at `ipfs_hash`: the
  proof is about the leaf hash in the answer, not about the record summary beside it.
- `docs/CONTRACTS.md:144` has the private policy compared with the on-chain commitment;
  `reverify_mode2` compares it with the copy in the tenant store (`RecheckOf`).
- `README.md:137` has the facilitator settle before the audit runs, and
  `agentaudit/client.py:131` has the SDK pay before it runs; the payment is settled after
  (`Settle` follows `RecordAudit`), so an audit may be on record and unpaid. Without
  `X402_ENABLED` nothing is paid at all, although the docstring of the route
  (`api/main.py:311`) calls it pay-per-call: it answers for nothing (`Ask`, `Respond`,
  `ResultIsRecordedAndPaid`).
- `README.md:180` has an off-topic prompt skip the pipeline; if the model fails on it,
  `run_chat_agent` falls back to a vendor and that is audited (`Fallback`).
- `scripts/demo_check.py:49` wants the deployer to stay above its floor of ALGO to fund
  others; the top-up's own fee, the fees of audits since the balance was read and the
  AACR transfer's fee take it below (`TopUpsKeepFloors` has `spent`).
- `scripts/demo_check.py:56` never drains the deployer below its floor of AACR; a top-up
  whose wait raised and that lands during the next run does (`TopUpsKeepFloors` asks for
  `patient`).

## 4. Proofs

All proofs hold for every value of the constants that satisfies the named
assumptions: any number of calls, ids, batches and faults, batches of any size. Every
proof rests on an inductive invariant, `IndInv` (`MerkleInv` in `Merkle`), which stands
at the end of the module it is about as a conjunction of named parts. TLC checks it on
the component's run; a lemma about `Init` (`Start`, `InitHolds`) and lemmas about the
actions or the parts (`...Step`, `...Keeps`) prove it, and theorem `Invariance` puts them
together.

| module | proved | assumptions |
|---|---|---|
| `AuditPipelineProofs` | `AnchoredVerifies`, `RecordTellsChain`, `AnswerIsKept`, `HistoryIsBacked`, `AnchoredOnce`, `AnchoredIsFinal`, `KeepsTrail`; `LoopIsHeld`, `HandlersAdvance` | `CompliantAssumption`, `BoundsAssumption`, `NamesAssumption`, `NoneIsNoRecord` |
| `MerkleProofs` | `ProofsVerifyTheirLeaf`, `RootCommits`; `OnlyLeavesVerify`, `StepsRunOut` | `LeavesAssumption` |
| `PolicyEngineProofs` | `TokensTellTheTruth`, `ReportsWhatWasMinted`, `RefusalsAreExplained`, `MintsAreDeserved` | `WordAssumption`, `PolicyAssumption`, `DecisionAssumption`, `BoundAssumption` |
| `OnboardingProofs` | `StoredRulesAreOnChain`, `DoneIsComplete`, `NoOrphanRows`, `RollbackDeletesOwnOrg` | `OnboardingAssumption`, `MembersAssumption` |
| `VerificationProofs` | `OwnerCanRead`, `KeyValidIsOwners`, `RecheckAgrees`, `RecordedIsRecheckable`, `LabelsTellTheRule` | `RulesAssumption`, `ReportsAssumption`, `NamesAssumption`, `NoneIsNoRecheck` |
| `BillingProofs` | `ChargesAreEarned`, `ResultIsRecordedAndPaid`, `DuplicatesAreExplained` | `BillingAssumption` |
| `ChatAgentProofs` | `ChoiceIsTraced`; `StepsRunOut` | `AgentAssumption`, `NoneIsNoRecord` |
| `FundingProofs` | `ReadyIsReady`, `RerunIsAccepted`, `TopUpsKeepFloors` | `AmountsAssumption`, `NamesAssumption` |

Before the semicolon stand the properties of section 3's runs, after it facts that the
proofs modules state themselves (`LoopIsHeld` is a part of `IndInv`). `IndInv` has the
type invariant as its first part.

`None` stands for Python's None. The assumptions about it say that it is not a name, a
number, a record or a result: the code tells them apart with `is None`, TLC's model
value does so too, and a prover has to be told. `MembersAssumption` says that the policies of an
onboarding are a list of lists. `PolicyAssumption` says that a field is used by all
policies as a number or by all as a string, which the API does not enforce;
`RulesAssumption` that a tenant has rules (an agent without any is refused before the
audit); `AmountsAssumption` that no threshold, amount, fee or minimum balance of the
scripts is zero. `DecisionAssumption` and `ReportsAssumption` give every field a report,
which may be `None`. The rest give numbers and sets their types and bounds of the
exploration their sign.

**AuditPipeline.** None of its properties is inductive. `AnchoredVerifies` speaks of
leaves that are anchored, but whether marking a batch keeps it true depends on what
`flush` read before the transaction was sent. `CoreInv` adds what is needed:

- `FlightFrozen`: while anchoring holds the loop, the flushed leaves are still
  pending with the records under the root, no leaf has the batch id, and the
  chain holds nothing else under it;
- `RootsWrittenOnce`: a root in the pool has a free box;
- `ReceiptsAreExact`: receipts are the landed transactions of compliant calls;
- `CallsAreOrdered`: no transaction before the upload is over;
- `RecordsAreOwned`: a record belongs to the call that drew its id, and that
  call's transaction landed.

`KeptInv`, proved inductive relative to `CoreInv`, starts with `LoopIsHeld`: the event
loop is held exactly by the handler between its transaction and its answer, or by
`flush_and_anchor`, and a process that is down holds nothing. With `HandlersAdvance`
(a handler only moves forward, in at most four steps) it is the part of
`HandlersReturn` that needs no fairness: a call that is not answered stands still in
one stage, and never because somebody else left without giving the loop back.
The rest of `KeptInv` is about what is kept once it was said: `AnswersAreStored` and `HistoryIsOwned` (a row is replaced, never removed),
`LeavesAreKept` (every leaf under a root, sent or landed, is of a judged call with a
row), `BatchesAreOwned` (a leaf of a batch row is still in that batch or was replaced
for good; with it, `AnchoredOnce` is inductive although a leaf whose batch was
abandoned is flushed again). `Monotone` says what no step takes back and serves most
of them.

`TrailIsKept` is the refinement: `TrailStart` maps the initial states, `TrailStep` maps
every step of handler, chain, anchoring and crash under `IndInv` to one step of
`AuditTrail` or to a stutter. The delicate cases are the confirmation that judges a
call, `RecordAudit` over a row of a call with the same id (which neither was in the
trail, so the promise does not see it), and the root that lands while its batch is in
flight or after it was given up. The proof needs no case of `ReuseIds`: a call that
shares its id is not part of the promise.

**Merkle.** `MerkleInv` links the loops through history variables: `LevelsChain`
(each level is hashed into the next), `PathClimbs` (compute_proof's nodes are the
running hash of leaf and siblings and sit in the same levels), `VerifierFollows`
(verify_proof is on that path if and only if it began with the true leaf, because
the hash of a pair with one side fixed is injective, lemma `HashPairCancels`).

`RootCommits` and `OnlyLeavesVerify` compare runs that are not the same, so they are
about functions of a list. The library's induction theorems take an operator as a
parameter, which the provers cannot instantiate; its well-foundedness theorem
(`WFMin`) does not, and gives `LeastNumber` (a set of naturals that is not empty has a
least element) and from it `Induction` (a set of naturals with 0 and all successors is
`Nat`). `LevelsAreDefined` builds the recursive function `LevelsOf` with them,
`HeightFacts` finds its first level of one node (a level of more than one node gets
shorter), and `LoopComputesRoot` shows that the loop returns `RootOf`. `NodesBelow` is the
step down the tree: a level is known from the one above it, being what its nodes are
hashes of. Then:

- `SameNodes` goes down from a common root through the levels of two lists; `NotLower`
  excludes that one of them ends before the other, because a leaf hash is not the hash
  of a pair; so the lists have the same leaves (`RootsAreCommitments`);
- `RunGoesDown` follows any run of `verify_proof` backwards from the root it reached,
  whatever siblings it was handed: its hashes are nodes of the levels of the batch, and a
  run that started from a leaf hash has the height of the tree (`RunStartsInBatch`). An
  auditor who is shown a proof that verifies knows that the leaf is in the batch
  (`OnlyLeavesVerify`).

This is also why `AuditPipeline` may take a root for the set of leaf hashes under it.
`LoopsEnd`: an iteration makes the level shorter, or uses up a sibling.

**PolicyEngine.** `RulesAreMirrored` has the chain's rules and the store's rules as
images of what was declared, index by index; `BoxesAreListed` says exactly which
membership boxes exist. The verdict then goes through the arguments:
`CutKeepsOrder` and `WholeIsExact` are what `int()` does to a comparison,
`DocVerdict` is a private policy evaluated by the backend, `TokenVerdict` a public one
evaluated on chain from the encoded report, and `OwnList` the case in which a list is
not shared (the finding `DocPoliciesAreAnded` is the case in which it is).
`RefusalsAreExplained` needs `BoxesAreThere`: what the contract looks up is among the
boxes the client referenced, unless they were too many.
A call in the pool carries arguments that were built from the rules of then: rules are
only appended, so they are still the first ones of the agent (`CallsFitTheRules`), and if
the contract accepts them they are as many as its rules, hence fit those of now.
`ReportsWhatWasMinted` is a part of `IndInv`: what has left unreported is at most what was
given up less what is still in the pool, and only `LateCheck` moves both.
`MintsAreDeserved` puts it together for the AACR itself: it leaves the contract in a step
that audits or executes a late call, all tokens of that check pass (`MintStep`), and they
are the truth
(`TokensTellTheTruth` in the next state).

**Onboarding.** What makes it hard is that a run does not learn the outcome of its
last transaction. `OneRuleAtATime` bounds the ignorance (at most one rule is on its way
or landed unnoticed, the one the run waits for or waited for last), `RulesAreInOrder`
and `MirroredSoFar` tie `chain` and `agent_rules` to how far the run has come, and
`OrgsAreOwned` says that an org row is always that of a run of its name that created it.
`OneApiRun` (the event loop) and `ApiOwnsItsRow` are what the rollback by name depends on;
they hold while `OnlyApi` does, and so do the two properties about it.

**Verification.** What an audit has read at one
step decides what its record says three steps later, so `IndInv` adds `KeyFitsRules`
(while an audit is uploading the key is the agent's if the org still is; rules that
were found after it are the agent's, and so is the key), `RecordsAreTrue` (a record is
`RecordOf` the decision its call reported, whatever happened to the tenant, and one
with private rules was made of a report they could be evaluated on) and
`AnswersAreAbout`. The lemmas take one helper of the code each: `RecordFacts`,
`BreakdownTells`, `DecryptionTells`, `RecheckTells`; `AuditStep` and `VerifyStep` have
one case per action.

**Billing.** `IndInv` is `StagesAreOrdered` (what a call has behind it at each
stage), `StatusesAreTrue` (what an answer says of record and payment) and
`CallsAreSerial` (a client has one call open, and no earlier one was a success); the first
two have a part for calls without a gate, which never come near a payment;
`Step` has one case per action and the three properties follow from it.

**ChatAgent.** In the loop the selection is what the last successful `finalize_vendor` on
the trace stored (`SelectionIsTraced`); once it is handed to the audit, `Shows` ties the
choice to the trace or to the one fallback step that replaced it. `RequestsEnd` is the part
of `Answers` that needs no fairness: each step leaves a stage for good, starts one of at
most `MaxRounds` rounds, or uses up a tool call of the reply.

**Funding.** `InOrder` is what one terminal knows: a transaction in the pool is one its
script sends (`TxIsLegal`), the contract exists once it is named (`AppIsKnown`), how far
`send_aacr_to_policy` has come shows on the ledger (`SendHasEffect`), and what
`demo_check` read still covers its top-up (`TopUpIsCovered`). `ReadyIsLeftAlone` is why a
contract that was called ready stays so. With `patient`, `OneScript` keeps the terminals
apart. `TopUpIsCovered` says that with patience what `demo_check` read is the deployer's
balance and what has been `spent` since, also while the audit service goes on; the action
property `TopUpsKeepFloors` follows from it at the step that lands the payment. That no
balance becomes negative rests on what the ledger accepts (`ValidIsPaidFor`, `ServiceFee`).
`RerunIsAccepted` is about transactions the deployer can pay the fee of.

Only model-checked:

- `HandlersReturn`, `EventuallyAnchored` and `Answers`: liveness under fairness, which
  needs ENABLED (their parts without fairness are proved, see above);
- the three runs of section 3 that end in a violation.

## 5. Not modelled, and why

- Dashboard, CSV export and batch queries only read state modelled here.
- AES-GCM, ARC-4 encodings and JSON canonicalisation are conversions without
  control; the uint64 range check and `int()` are the parts that matter, and they
  are modelled. SHA-256 is assumed free of collisions.
- AVM fee pooling and opcode budgets, and the AVM's own accounting of references,
  are outside the repository; the model has the client's limit of eight.
- The x402 middleware, the facilitator, the language model and the ledger are not in
  the repository; they are modelled from how the code uses them.
- In `Funding`: the clawback address (nothing uses it), the set-up of an earlier
  contract (`update_asa.py`), `fund_policy.py` (one unconditional payment, like
  `FundPolicy`), and the redeployment of the anchor contract (`deploy_anchor.py`).
- The frontend, and the remaining scripts: one runs the pipeline's own functions on
  three records (`runFlow_v2.py`), some only read (`check_aacr.py`,
  `check_anchor_read.py`), one calls `add_vendor`, a method the contract no longer has
  (`seed_vendors_v2.py`), one opts an account of the user into USDC (`opt_in_usdc.py`).

## 6. Plan

Order of work, most important behaviour first. Done: 1 to 11.

1. `AuditTrail`, `AuditPipeline`: the pipeline, its refinement, safety, liveness.
2. `AuditPipelineProofs`: type correctness, `AnchoredVerifies`, `RecordTellsChain`,
   `AnchoredIsFinal`.
3. `PolicyContract`, `PolicyEngine`: verdicts and limits.
4. `Onboarding`.
5. `Merkle`, `MerkleProofs`.
6. `Verification`, `VerificationProofs`: verify, with the keys and rules that change
   under an audit in progress.
7. `Billing`, `BillingProofs`: x402, the SDK's timeout and repeated submission.
8. `ChatAgent`: the tool loop with its limit and fallbacks.
9. `Funding`: where ALGO and AACR come from.
10. `OnboardingProofs`, `PolicyEngineProofs`, `FundingProofs`, `ChatAgentProofs`; the rest
    of the safety properties and the refinement in `AuditPipelineProofs`;
    `RecordedIsRecheckable` in `VerificationProofs`.
11. `RootCommits`, `OnlyLeavesVerify` and the end of the loops in `MerkleProofs`;
    `MintsAreDeserved`; `LoopIsHeld` and `HandlersAdvance`; the end of requests in
    `ChatAgentProofs`.

Left: what a batch id that is drawn twice does to the first batch (`FlushBatch` draws
fresh ids, see section 2), which needs a model of how long an attempt takes.
