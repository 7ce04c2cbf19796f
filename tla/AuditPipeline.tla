--------------------------- MODULE AuditPipeline ---------------------------
(***************************************************************************)
(* The audit pipeline of the backend: every call of POST /api/audit,       *)
(* /api/chat, /v1/audit and /v1/audit/x402 runs _execute_pipeline          *)
(* (sdk/audit_flow_v2.py), and POST /api/batch/submit runs                 *)
(* flush_and_anchor (batcher/anchor.py).  Three stores are involved:       *)
(*                                                                         *)
(*   - the memory of the server process (api/main.py), lost in a crash;    *)
(*   - the SQLite file of BatchStore (batcher/store.py), which survives;   *)
(*   - the chain: PolicyContract, which mints the AACR receipt, and        *)
(*     AnchorContract, which keeps the Merkle roots.  A transaction whose  *)
(*     confirmation the server stopped waiting for may still land.         *)
(*                                                                         *)
(* The server is one asyncio event loop.  A handler gives the loop up only *)
(* while it awaits the IPFS upload (or the agent's model, before it drew   *)
(* an action id); the Algorand client calls block.  So from the policy     *)
(* call to its answer a handler keeps the loop, and so does a whole        *)
(* flush_and_anchor; `loop` names the coroutine that holds it.             *)
(*                                                                         *)
(* Abstractions: which decisions satisfy their policy is the constant      *)
(* Compliant (the contract's evaluation is module PolicyContract); a leaf  *)
(* hash is the record it is taken of, a Merkle root is the set of the leaf *)
(* hashes under it, and the proof of a leaf is the set it was computed     *)
(* over (module Merkle).  Encryption does not change any of this state.    *)
(***************************************************************************)
EXTENDS Integers, Sequences, FiniteSets

CONSTANTS
  Requests,        \* the audit calls the server receives
  ActionIds,       \* the values _new_action_id() can return
  BatchIds,        \* the values flush() can draw for a batch id
  Compliant,       \* the calls whose decision satisfies the agent's policy set
  Supply,          \* AACR units the policy contract holds at the start
  HistoryCap,      \* maxlen of recent_audits
  ReuseIds,        \* TRUE: two calls may draw the same "{second}_{random}" id
  Batcher,         \* names flush_and_anchor as the holder of the loop
  None             \* SQL NULL, Python None, an empty box

CONSTANT MaxFaults \* bound: crashes, dropped and abandoned anchor transactions

ASSUME CompliantAssumption == Compliant \subseteq Requests
ASSUME BoundsAssumption    == /\ Supply \in Nat
                              /\ HistoryCap \in Nat \ {0}
                              /\ MaxFaults \in Nat
                              /\ ReuseIds \in BOOLEAN
ASSUME NamesAssumption     == /\ Batcher \notin Requests
                              /\ None \notin Requests \cup {Batcher}
                              /\ None \notin ActionIds
                              /\ None \notin BatchIds

VARIABLES
  up,              \* the server process is running
  loop,            \* the coroutine that holds the event loop, or None
  pc,              \* where each call's handler is
  actionId,        \* the action id the handler of each call drew
  flight,          \* the ReadyBatch flush_and_anchor is anchoring, or None
  history,         \* recent_audits, newest first
  record,          \* table leaves: the record stored under each action id
  batchId,         \* table leaves: batch_id column
  proof,           \* table leaves: proof_json column
  batches,         \* table batches: merkle_root of each batch row
  policyTx,        \* each call's check_and_mint transaction
  receipts,        \* the calls for which one AACR was minted
  aacr,            \* AACR units left in the policy contract
  rootTx,          \* roots sent to the anchor contract, not landed yet
  roots,           \* box map `roots` of the anchor contract
  faults           \* faults so far (bound)

memory == <<up, loop, pc, actionId, flight, history>>
db     == <<record, batchId, proof, batches>>
chain  == <<policyTx, receipts, aacr, rootTx, roots>>
vars   == <<memory, db, chain, faults>>

-----------------------------------------------------------------------------
(* Data.  A definition named ...Mutant is never used: it is what the definition *)
(* after it would be with a plausible bug, and shows that the properties notice *)

Decision  == {"approved", "rejected"}
Record    == [req : Requests, decision : Decision]   \* also its leaf hash
Root      == SUBSET Record
ASSUME NoneIsNoRecord == None \notin Record

ReadyBatch == [id : BatchIds, ids : SUBSET ActionIds, root : Root]

Stages   == {"idle", "uploading", "confirming", "recorded", "done", "failed", "lost"}
Answered == {"done", "failed", "lost"}               \* the caller waits no more
TxStages == {"none", "pool", "landed", "dropped"}

\* verify_proof(leaf, proof, root)
VerifyProof(leaf, path, root) == leaf \in path /\ path = root

\* SELECT ... FROM leaves WHERE batch_id IS NULL
PendingMutant(a) == record[a] # None
Pending(a) == record[a] # None /\ batchId[a] = None

PendingIds == {a \in ActionIds : Pending(a)}

\* policy_result, and with it asa_minted, of a landed check_and_mint
VerdictMutant(r) == "approved"
Verdict(r) == IF r \in Compliant THEN "approved" ELSE "rejected"

\* Calls get the same id only when they draw it in the same second, and then
\* neither has sent its transaction: that takes a confirmation round.
Drawable(a, r) ==
  \A q \in Requests \ {r} :
     actionId[q] = a => ReuseIds /\ pc[q] \in {"uploading", "failed"} /\ policyTx[q] = "none"

\* Everything after the answer of PolicyContract that a later call may disturb:
\* two live calls with one action id.
Collide(r) == \E q \in Requests \ {r} : actionId[q] = actionId[r]

-----------------------------------------------------------------------------
(* The audit handlers *)

\* The handler draws its action id, encrypts the record and starts the upload.
Submit(r, a) ==
  /\ up /\ loop = None
  /\ pc[r] = "idle"
  /\ Drawable(a, r)
  /\ pc' = [pc EXCEPT ![r] = "uploading"]
  /\ actionId' = [actionId EXCEPT ![r] = a]
  /\ UNCHANGED <<up, loop, flight, history, db, chain, faults>>

\* Unknown org, no rules for the agent, an off-topic chat: no audit at all.
Refuse(r) ==
  /\ up /\ loop = None
  /\ pc[r] = "idle"
  /\ pc' = [pc EXCEPT ![r] = "failed"]
  /\ UNCHANGED <<up, loop, actionId, flight, history, db, chain, faults>>

\* Both upload attempts failed, build_check_args raised, or the node refused
\* the policy transaction: the handler answers 500.
PipelineFails(r) ==
  /\ up /\ loop = None
  /\ pc[r] = "uploading"
  /\ pc' = [pc EXCEPT ![r] = "failed"]
  /\ UNCHANGED <<up, loop, actionId, flight, history, db, chain, faults>>

\* The upload returned a CID; submit_policy_check sends its transaction and
\* blocks in wait_for_confirmation.
CheckPolicy(r) ==
  /\ up /\ loop = None
  /\ pc[r] = "uploading"
  /\ pc' = [pc EXCEPT ![r] = "confirming"]
  /\ loop' = r
  /\ policyTx' = [policyTx EXCEPT ![r] = "pool"]
  /\ UNCHANGED <<up, actionId, flight, history, db,
                 receipts, aacr, rootTx, roots, faults>>

\* wait_for_confirmation raised: four rounds passed, or algod did not answer.
ConfirmFailsMutant(r) ==
  /\ up /\ loop = r
  /\ pc[r] = "confirming"
  /\ pc' = [pc EXCEPT ![r] = "failed"]
  /\ UNCHANGED <<up, loop, actionId, flight, history, db, chain, faults>>

ConfirmFails(r) ==
  /\ up /\ loop = r
  /\ pc[r] = "confirming"
  /\ pc' = [pc EXCEPT ![r] = "failed"]
  /\ loop' = None
  /\ UNCHANGED <<up, actionId, flight, history, db, chain, faults>>

\* BatchStore.add: INSERT OR REPLACE, so the anchor columns become NULL.
AddLeafMutant(r) ==
  /\ record' = [record EXCEPT ![actionId[r]] = [req |-> r, decision |-> Verdict(r)]]
  /\ UNCHANGED <<batchId, proof>>

AddLeafApprovedMutant(r) ==
  IF Verdict(r) = "approved"
  THEN /\ record' = [record EXCEPT ![actionId[r]] = [req |-> r, decision |-> Verdict(r)]]
       /\ batchId' = [batchId EXCEPT ![actionId[r]] = None]
       /\ proof' = [proof EXCEPT ![actionId[r]] = None]
  ELSE UNCHANGED <<record, batchId, proof>>

AddLeaf(r) ==
  /\ record' = [record EXCEPT ![actionId[r]] = [req |-> r, decision |-> Verdict(r)]]
  /\ batchId' = [batchId EXCEPT ![actionId[r]] = None]
  /\ proof' = [proof EXCEPT ![actionId[r]] = None]

\* The policy transaction is confirmed; the record goes to the batch store.
RecordAuditMutant(r) ==
  /\ up /\ loop = r
  /\ pc[r] = "confirming"
  /\ AddLeaf(r)
  /\ pc' = [pc EXCEPT ![r] = "recorded"]
  /\ UNCHANGED <<up, loop, actionId, flight, history, batches, chain, faults>>

RecordAudit(r) ==
  /\ up /\ loop = r
  /\ pc[r] = "confirming"
  /\ policyTx[r] = "landed"
  /\ AddLeaf(r)
  /\ pc' = [pc EXCEPT ![r] = "recorded"]
  /\ UNCHANGED <<up, loop, actionId, flight, history, batches, chain, faults>>

\* recent_audits.appendleft on a deque with maxlen.
AppendLeft(entry, h) ==
  SubSeq(<<entry>> \o h, 1,
         IF Len(h) < HistoryCap THEN Len(h) + 1 ELSE HistoryCap)

\* The handler adds its entry to the history and answers the caller.
Respond(r) ==
  /\ up /\ loop = r
  /\ pc[r] = "recorded"
  /\ pc' = [pc EXCEPT ![r] = "done"]
  /\ loop' = None
  /\ history' = AppendLeft([id |-> actionId[r], decision |-> Verdict(r)], history)
  /\ UNCHANGED <<up, actionId, flight, db, chain, faults>>

\* Making that entry reads the tenant store, and the answer is validated after it:
\* when either raises, the caller of a recorded audit gets a 500.
RespondFails(r) ==
  /\ up /\ loop = r
  /\ pc[r] = "recorded"
  /\ pc' = [pc EXCEPT ![r] = "failed"]
  /\ loop' = None
  /\ history' \in {history,
                  AppendLeft([id |-> actionId[r], decision |-> Verdict(r)], history)}
  /\ UNCHANGED <<up, actionId, flight, db, chain, faults>>

-----------------------------------------------------------------------------
(* POST /api/batch/submit *)

\* flush() reads the pending leaves and writes nothing; submit_anchor_root
\* sends the root under a fresh batch id and blocks.
FlushBatch(b) ==
  /\ up /\ loop = None
  /\ PendingIds # {}
  /\ rootTx[b] = None /\ roots[b] = None
  /\ LET batch == [id |-> b, ids |-> PendingIds,
                   root |-> {record[a] : a \in PendingIds}]
     IN /\ flight' = batch
        /\ rootTx' = [rootTx EXCEPT ![b] = batch.root]
  /\ loop' = Batcher
  /\ UNCHANGED <<up, pc, actionId, history, db,
                 policyTx, receipts, aacr, roots, faults>>

\* mark_anchored: one SQLite transaction writes the batch row and the batch
\* id and proof of each leaf that was flushed.
MarkAnchoredMutant ==
  /\ up /\ loop = Batcher
  /\ batches' = [batches EXCEPT ![flight.id] = flight.root]
  /\ batchId' = [a \in ActionIds |-> IF a \in flight.ids THEN flight.id ELSE batchId[a]]
  /\ proof' = [a \in ActionIds |-> IF a \in flight.ids THEN flight.root ELSE proof[a]]
  /\ flight' = None
  /\ loop' = None
  /\ UNCHANGED <<up, pc, actionId, history, record, chain, faults>>

MarkAnchored ==
  /\ up /\ loop = Batcher
  /\ roots[flight.id] # None
  /\ batches' = [batches EXCEPT ![flight.id] = flight.root]
  /\ batchId' = [a \in ActionIds |-> IF a \in flight.ids THEN flight.id ELSE batchId[a]]
  /\ proof' = [a \in ActionIds |-> IF a \in flight.ids THEN flight.root ELSE proof[a]]
  /\ flight' = None
  /\ loop' = None
  /\ UNCHANGED <<up, pc, actionId, history, record, chain, faults>>

\* submit_anchor_root raised: the store keeps its pending leaves.  Giving up on
\* a transaction that may still land counts as a fault.
AnchorFailsMutant ==
  /\ up /\ loop = Batcher
  /\ rootTx[flight.id] # None \/ roots[flight.id] # None
  /\ faults < MaxFaults /\ faults' = faults + 1
  /\ flight' = None
  /\ loop' = None
  /\ UNCHANGED <<up, pc, actionId, history, db, chain>>

AnchorFails ==
  /\ up /\ loop = Batcher
  /\ LET dropped == rootTx[flight.id] = None /\ roots[flight.id] = None
     IN \/ dropped /\ UNCHANGED faults
        \/ ~dropped /\ faults < MaxFaults /\ faults' = faults + 1
  /\ flight' = None
  /\ loop' = None
  /\ UNCHANGED <<up, pc, actionId, history, db, chain>>

-----------------------------------------------------------------------------
(* The chain *)

\* check_and_mint is executed; minting needs AACR in the contract account.
LandPolicyTx(r) ==
  /\ policyTx[r] = "pool"
  /\ r \in Compliant => aacr > 0
  /\ policyTx' = [policyTx EXCEPT ![r] = "landed"]
  /\ receipts' = receipts \cup ({r} \cap Compliant)
  /\ aacr' = IF r \in Compliant THEN aacr - 1 ELSE aacr
  /\ UNCHANGED <<memory, db, rootTx, roots, faults>>

\* The transaction expired, or became invalid in the pool.
DropPolicyTx(r) ==
  /\ policyTx[r] = "pool"
  /\ policyTx' = [policyTx EXCEPT ![r] = "dropped"]
  /\ UNCHANGED <<memory, db, receipts, aacr, rootTx, roots, faults>>

\* submit_root writes its box, whatever the box held.
LandRoot(b) ==
  /\ rootTx[b] # None
  /\ roots' = [roots EXCEPT ![b] = rootTx[b]]
  /\ rootTx' = [rootTx EXCEPT ![b] = None]
  /\ UNCHANGED <<memory, db, policyTx, receipts, aacr, faults>>

DropRoot(b) ==
  /\ rootTx[b] # None
  /\ faults < MaxFaults
  /\ faults' = faults + 1
  /\ rootTx' = [rootTx EXCEPT ![b] = None]
  /\ UNCHANGED <<memory, db, policyTx, receipts, aacr, roots>>

-----------------------------------------------------------------------------
(* The process *)

\* The process dies: its memory goes, the SQLite file and the chain stay.
Crash ==
  /\ up
  /\ faults < MaxFaults
  /\ up' = FALSE
  /\ loop' = None
  /\ flight' = None
  /\ history' = << >>
  /\ pc' = [r \in Requests |->
              IF pc[r] \in Answered \cup {"idle"} THEN pc[r] ELSE "lost"]
  /\ faults' = faults + 1
  /\ UNCHANGED <<actionId, db, chain>>

\* main.py opens the same SQLite file; recent_audits starts empty.
Restart ==
  /\ ~up
  /\ up' = TRUE
  /\ UNCHANGED <<loop, pc, actionId, flight, history, db, chain, faults>>

-----------------------------------------------------------------------------

Init ==
  /\ up = TRUE
  /\ loop = None
  /\ pc = [r \in Requests |-> "idle"]
  /\ actionId = [r \in Requests |-> None]
  /\ flight = None
  /\ history = << >>
  /\ record = [a \in ActionIds |-> None]
  /\ batchId = [a \in ActionIds |-> None]
  /\ proof = [a \in ActionIds |-> None]
  /\ batches = [b \in BatchIds |-> None]
  /\ policyTx = [r \in Requests |-> "none"]
  /\ receipts = {}
  /\ aacr = Supply
  /\ rootTx = [b \in BatchIds |-> None]
  /\ roots = [b \in BatchIds |-> None]
  /\ faults = 0

Handler(r) ==
  \/ \E a \in ActionIds : Submit(r, a)
  \/ Refuse(r)
  \/ PipelineFails(r)
  \/ CheckPolicy(r)
  \/ ConfirmFails(r)
  \/ RecordAudit(r)
  \/ Respond(r) \/ RespondFails(r)

Anchoring ==
  \/ \E b \in BatchIds : FlushBatch(b)
  \/ MarkAnchored
  \/ AnchorFails

Ledger ==
  \/ \E r \in Requests : LandPolicyTx(r) \/ DropPolicyTx(r)
  \/ \E b \in BatchIds : LandRoot(b) \/ DropRoot(b)

Next ==
  \/ \E r \in Requests : Handler(r)
  \/ Anchoring
  \/ Ledger
  \/ Crash
  \/ Restart

Spec == Init /\ [][Next]_vars

-----------------------------------------------------------------------------
(* Fairness *)

\* An upload is bounded (two attempts of 10 s), so is every wait of the Algorand
\* client (four rounds); ready coroutines take the loop in FIFO order, hence
\* strong fairness for the one step that competes for it.  A transaction in the
\* pool does not stay there for ever.
ServerFairness ==
  /\ \A r \in Requests :
       /\ SF_vars(CheckPolicy(r) \/ PipelineFails(r))
       /\ WF_vars(RecordAudit(r) \/ ConfirmFails(r))
       /\ WF_vars(Respond(r) \/ RespondFails(r))
       /\ WF_vars(LandPolicyTx(r) \/ DropPolicyTx(r))
  /\ WF_vars(MarkAnchored \/ AnchorFails)
  /\ \A b \in BatchIds : WF_vars(LandRoot(b))

FairSpec == Spec /\ ServerFairness

\* No code calls /api/batch/submit or restarts the process: whoever operates the
\* service does, again and again.
OperatorFairness == /\ SF_vars(\E b \in BatchIds : FlushBatch(b))
                    /\ WF_vars(Restart)

OperatedSpec == FairSpec /\ OperatorFairness

-----------------------------------------------------------------------------
(* Properties *)

\* Every variable has its type.
TypeOK ==
  /\ up \in BOOLEAN
  /\ loop \in Requests \cup {Batcher, None}
  /\ pc \in [Requests -> Stages]
  /\ actionId \in [Requests -> ActionIds \cup {None}]
  /\ flight \in ReadyBatch \cup {None}
  /\ history \in Seq([id : ActionIds, decision : Decision])
  /\ record \in [ActionIds -> Record \cup {None}]
  /\ batchId \in [ActionIds -> BatchIds \cup {None}]
  /\ proof \in [ActionIds -> Root \cup {None}]
  /\ batches \in [BatchIds -> Root \cup {None}]
  /\ policyTx \in [Requests -> TxStages]
  /\ receipts \in SUBSET Requests
  /\ aacr \in Nat
  /\ rootTx \in [BatchIds -> Root \cup {None}]
  /\ roots \in [BatchIds -> Root \cup {None}]
  /\ faults \in 0..MaxFaults

\* What /api/verify relies on: a leaf the database calls anchored has a root on
\* chain under its batch id, its stored proof leads from its leaf hash to that
\* root, and the batch row shows the same root - although the root was computed
\* before the transaction was sent and the columns are written after it landed.
AnchoredVerifies ==
  \A a \in ActionIds : batchId[a] # None =>
     /\ record[a] # None /\ roots[batchId[a]] # None
     /\ VerifyProof(record[a], proof[a], roots[batchId[a]])
     /\ batches[batchId[a]] = roots[batchId[a]]

\* A stored record tells what the chain did: its transaction landed, and it
\* says "approved" exactly when an AACR was minted for it - also when the
\* confirmation of some transaction timed out and it landed afterwards.
RecordTellsChain ==
  \A a \in ActionIds : record[a] # None =>
     /\ policyTx[record[a].req] = "landed"
     /\ record[a].decision = "approved" <=> record[a].req \in receipts

\* An audit the caller got an answer for is in the database under its action id
\* for good, whatever crashes later, unless another call drew the same id.
AnswerIsKept ==
  \A r \in Requests : pc[r] = "done" /\ ~Collide(r) =>
     /\ record[actionId[r]] # None
     /\ record[actionId[r]].req = r

\* What the dashboard lists is backed by the store: each entry of recent_audits
\* has a leaf, with the same decision unless two calls share its action id.
HistoryIsBacked ==
  \A i \in DOMAIN history :
     LET a == history[i].id
     IN /\ record[a] # None
        /\ \/ record[a].decision = history[i].decision
           \/ Collide(record[a].req)

\* No record is counted in two batch rows, however often an anchor attempt was
\* abandoned, landed late or was cut off by a crash before mark_anchored.
AnchoredOnce ==
  \A b, c \in BatchIds :
     b # c /\ batches[b] # None /\ batches[c] # None => batches[b] \cap batches[c] = {}

\* An anchored leaf keeps its record, batch and proof; only a call that drew the
\* same action id can replace it.
AnchoredIsFinal ==
  [][\A a \in ActionIds : batchId[a] # None =>
       \/ UNCHANGED <<record[a], batchId[a], proof[a]>>
       \/ \E r \in Requests : actionId[r] = a /\ Collide(r)]_vars

\* Every audit call the server took is answered or cut off by a crash: no handler
\* waits for ever, and none keeps the event loop from the others.
HandlersReturn ==
  \A r \in Requests :
     pc[r] \in {"uploading", "confirming", "recorded"} ~> pc[r] \in Answered

\* When the operator keeps submitting batches and faults end, every leaf is
\* anchored, whatever anchor transactions were lost on the way.
EventuallyAnchored ==
  OperatorFairness =>
    \A a \in ActionIds : Pending(a) ~> record[a] # None /\ ~Pending(a)

-----------------------------------------------------------------------------
(* What the documentation says and the code does not do *)

\* README.md:93, "Every decision is then policy-checked on-chain, encrypted, and
\* Merkle-anchored automatically": a decision that was policy-checked on chain and
\* got its AACR ends up as a record in the batch store, to be anchored.
ReceiptsAreRecorded ==
  \A r \in Requests :
     r \in receipts ~> \E a \in ActionIds : record[a] # None /\ record[a].req = r

-----------------------------------------------------------------------------
(* The inductive invariant of the safety properties *)

\* While flush_and_anchor holds the loop, the leaves it read are still pending
\* and still the ones under its root, and its batch id is in no leaf's row.
FlightFrozen ==
  loop = Batcher =>
    /\ flight \in ReadyBatch
    /\ \A a \in flight.ids : Pending(a) /\ record[a] \in flight.root
    /\ \A a \in ActionIds : batchId[a] # flight.id
    /\ rootTx[flight.id] \in {None, flight.root}
    /\ roots[flight.id] \in {None, flight.root}

\* A root box is written by one transaction only.
RootsWrittenOnce ==
  \A b \in BatchIds : rootTx[b] # None => roots[b] = None

\* An AACR was minted for the compliant calls whose transaction landed.
ReceiptsAreExact ==
  receipts = {r \in Compliant : policyTx[r] = "landed"}

\* A call has its action id before it uploads and sends no transaction before
\* the upload is over.
CallsAreOrdered ==
  \A r \in Requests :
    /\ pc[r] \notin {"idle", "failed"} => actionId[r] # None
    /\ pc[r] \in {"idle", "uploading"} => policyTx[r] = "none"

\* A stored record is the last one its call wrote, under that call's action id.
RecordsAreOwned ==
  \A a \in ActionIds : record[a] # None =>
    /\ actionId[record[a].req] = a
    /\ pc[record[a].req] \in {"recorded", "done", "failed", "lost"}
    /\ policyTx[record[a].req] = "landed"
    /\ record[a].decision = Verdict(record[a].req)

\* The parts above together are inductive: a leaf that verifies depends on what
\* flush read, on what landed, and on no one having touched either in between.
CoreInv ==
  /\ TypeOK
  /\ FlightFrozen
  /\ RootsWrittenOnce
  /\ ReceiptsAreExact
  /\ CallsAreOrdered
  /\ RecordsAreOwned
  /\ AnchoredVerifies

\* A call without an action id has sent nothing, and it keeps the id it drew.
IdsAreDrawnOnce ==
  \A r \in Requests : /\ pc[r] = "idle" => actionId[r] = None
                      /\ actionId[r] = None => policyTx[r] = "none"

\* Once a call is recorded, its action id has a row for ever.
AnswersAreStored ==
  \A r \in Requests : pc[r] \in {"recorded", "done"} => record[actionId[r]] # None

\* A history entry was made by a call, of its own verdict, under an id with a row.
HistoryIsOwned ==
  \A i \in DOMAIN history :
    /\ record[history[i].id] # None
    /\ \E q \in Requests : actionId[q] = history[i].id /\ Verdict(q) = history[i].decision

\* The root flush_and_anchor sent is over nothing but the leaves it read.
FlightIsExact ==
  loop = Batcher => \A leaf \in flight.root : \E a \in flight.ids : record[a] = leaf

\* A call that has a leaf under some root was judged, and its id has a row.
Kept(r) == policyTx[r] = "landed" /\ actionId[r] # None /\ record[actionId[r]] # None

LeavesAreKept ==
  /\ loop = Batcher => \A leaf \in flight.root : Kept(leaf.req)
  /\ \A b \in BatchIds : rootTx[b] # None => \A leaf \in rootTx[b] : Kept(leaf.req)
  /\ \A b \in BatchIds : roots[b] # None => \A leaf \in roots[b] : Kept(leaf.req)

\* A leaf of a batch row is still that batch's, or its row was replaced for good:
\* its call is past the step that could store it again.
BatchesAreOwned ==
  \A b \in BatchIds : batches[b] # None => \A leaf \in batches[b] :
    /\ pc[leaf.req] \in {"recorded", "done", "failed", "lost"}
    /\ \A a \in ActionIds : record[a] = leaf => batchId[a] = b

\* The event loop is held by a handler on its way from the chain to its answer, or by
\* flush_and_anchor with its batch, and by nobody else: no early return, exception or
\* crash keeps it from the other handlers.
LoopIsHeld ==
  /\ ~up => loop = None
  /\ \A r \in Requests : pc[r] \in {"confirming", "recorded"} <=> loop = r
  /\ loop # Batcher => flight = None

\* What the answers, the history, the roots and the batch rows say stays true.
KeptInv ==
  /\ LoopIsHeld
  /\ IdsAreDrawnOnce
  /\ AnswersAreStored
  /\ HistoryIsOwned
  /\ FlightIsExact
  /\ LeavesAreKept
  /\ BatchesAreOwned
  /\ AnchoredOnce

IndInv == CoreInv /\ KeptInv

-----------------------------------------------------------------------------
(* The promise: AuditTrail, for the calls whose action id is their own *)

InTrail(r) == /\ actionId[r] # None
              /\ record[actionId[r]] # None
              /\ record[actionId[r]].req = r
              /\ ~Collide(r)

\* The calls with an id of their own under the root of batch b.
OwnUnder(b) == {leaf.req : leaf \in {l \in roots[b] : ~Collide(l.req)}}

Trail == INSTANCE AuditTrail WITH
  judged    <- {r \in Requests : policyTx[r] = "landed" /\ ~Collide(r)},
  trail     <- [r \in Requests |->
                  IF ~InTrail(r) THEN "absent"
                  ELSE IF batchId[actionId[r]] = None THEN "pending"
                  ELSE "anchored"],
  published <- {OwnUnder(b) : b \in {c \in BatchIds : roots[c] # None}} \ {{}}

\* The pipeline keeps AuditTrail's promise through timeouts, late transactions and
\* crashes, for every call that shares its action id with no other - whatever
\* calls that do share one overwrite in the same store and the same batches.
KeepsTrail == Trail!Spec
=============================================================================
