------------------------ MODULE AuditPipelineProofs ------------------------
(***************************************************************************)
(* For any number of calls, action ids, batch ids and faults: the safety   *)
(* properties of the audit pipeline, and that it keeps the promise of      *)
(* AuditTrail.  CoreInv is inductive by itself (CoreStep); KeptInv is      *)
(* inductive relative to it (one lemma per part); every theorem follows    *)
(* from their conjunction, IndInv.                                         *)
(***************************************************************************)
EXTENDS AuditPipeline, TLAPS

\* recent_audits stays a list of entries when one is added on the left.
LEMMA AppendLeftType ==
  ASSUME NEW T, NEW e \in T, NEW h \in Seq(T)
  PROVE  AppendLeft(e, h) \in Seq(T)
<1>1. <<e>> \o h \in Seq(T) /\ Len(<<e>> \o h) = Len(h) + 1
  OBVIOUS
<1> QED
  BY <1>1, BoundsAssumption DEF AppendLeft

\* Every step of a handler, of flush_and_anchor, of the chain and of the process
\* preserves what an anchored leaf rests on.
LEMMA CoreStep == CoreInv /\ [Next]_vars => CoreInv'
<1> SUFFICES ASSUME CoreInv, [Next]_vars PROVE CoreInv'
  OBVIOUS
<1> USE CompliantAssumption, BoundsAssumption, NamesAssumption DEF CoreInv, TypeOK, memory, db, chain
<1>1. ASSUME NEW r \in Requests, NEW a \in ActionIds, Submit(r, a)
      PROVE  CoreInv'
  <2> USE <1>1 DEF Submit
  <2>1. TypeOK'
    BY DEF Stages, TxStages
  <2>2. FlightFrozen'
    BY DEF FlightFrozen, Pending
  <2>3. RootsWrittenOnce'
    BY DEF RootsWrittenOnce
  <2>4. ReceiptsAreExact'
    BY DEF CallsAreOrdered, ReceiptsAreExact
  <2>5. CallsAreOrdered'
    BY DEF CallsAreOrdered
  <2>6. RecordsAreOwned'
    BY DEF CallsAreOrdered, RecordsAreOwned, Verdict
  <2>7. AnchoredVerifies'
    BY DEF AnchoredVerifies, VerifyProof
  <2> QED
    BY <2>1, <2>2, <2>3, <2>4, <2>5, <2>6, <2>7
<1>2. ASSUME NEW r \in Requests, Refuse(r)
      PROVE  CoreInv'
  <2> USE <1>2 DEF Refuse
  <2>1. TypeOK'
    BY DEF Stages, TxStages
  <2>2. FlightFrozen'
    BY DEF FlightFrozen, Pending
  <2>3. RootsWrittenOnce'
    BY DEF RootsWrittenOnce
  <2>4. ReceiptsAreExact'
    BY DEF CallsAreOrdered, ReceiptsAreExact
  <2>5. CallsAreOrdered'
    BY DEF CallsAreOrdered
  <2>6. RecordsAreOwned'
    BY DEF CallsAreOrdered, RecordsAreOwned, Verdict
  <2>7. AnchoredVerifies'
    BY DEF AnchoredVerifies, VerifyProof
  <2> QED
    BY <2>1, <2>2, <2>3, <2>4, <2>5, <2>6, <2>7
<1>3. ASSUME NEW r \in Requests, PipelineFails(r)
      PROVE  CoreInv'
  <2> USE <1>3 DEF PipelineFails
  <2>1. TypeOK'
    BY DEF Stages, TxStages
  <2>2. FlightFrozen'
    BY DEF FlightFrozen, Pending
  <2>3. RootsWrittenOnce'
    BY DEF RootsWrittenOnce
  <2>4. ReceiptsAreExact'
    BY DEF CallsAreOrdered, ReceiptsAreExact
  <2>5. CallsAreOrdered'
    BY DEF CallsAreOrdered
  <2>6. RecordsAreOwned'
    BY DEF CallsAreOrdered, RecordsAreOwned, Verdict
  <2>7. AnchoredVerifies'
    BY DEF AnchoredVerifies, VerifyProof
  <2> QED
    BY <2>1, <2>2, <2>3, <2>4, <2>5, <2>6, <2>7
<1>4. ASSUME NEW r \in Requests, CheckPolicy(r)
      PROVE  CoreInv'
  <2> USE <1>4 DEF CheckPolicy
  <2>1. TypeOK'
    BY DEF Stages, TxStages
  <2>2. FlightFrozen'
    BY DEF FlightFrozen, Pending
  <2>3. RootsWrittenOnce'
    BY DEF RootsWrittenOnce
  <2>4. ReceiptsAreExact'
    BY DEF CallsAreOrdered, ReceiptsAreExact
  <2>5. CallsAreOrdered'
    BY DEF CallsAreOrdered
  <2>6. RecordsAreOwned'
    BY DEF CallsAreOrdered, RecordsAreOwned, Verdict
  <2>7. AnchoredVerifies'
    BY DEF AnchoredVerifies, VerifyProof
  <2> QED
    BY <2>1, <2>2, <2>3, <2>4, <2>5, <2>6, <2>7
<1>5. ASSUME NEW r \in Requests, ConfirmFails(r)
      PROVE  CoreInv'
  <2> USE <1>5 DEF ConfirmFails
  <2>1. TypeOK'
    BY DEF Stages, TxStages
  <2>2. FlightFrozen'
    BY DEF FlightFrozen, Pending
  <2>3. RootsWrittenOnce'
    BY DEF RootsWrittenOnce
  <2>4. ReceiptsAreExact'
    BY DEF CallsAreOrdered, ReceiptsAreExact
  <2>5. CallsAreOrdered'
    BY DEF CallsAreOrdered
  <2>6. RecordsAreOwned'
    BY DEF CallsAreOrdered, RecordsAreOwned, Verdict
  <2>7. AnchoredVerifies'
    BY DEF AnchoredVerifies, VerifyProof
  <2> QED
    BY <2>1, <2>2, <2>3, <2>4, <2>5, <2>6, <2>7
<1>6. ASSUME NEW r \in Requests, RecordAudit(r)
      PROVE  CoreInv'
  <2> USE <1>6 DEF RecordAudit, AddLeaf
  <2>a. actionId[r] \in ActionIds
    BY DEF CallsAreOrdered
  <2>b. [req |-> r, decision |-> Verdict(r)] \in Record
    BY DEF Record, Decision, Verdict
  <2>1. TypeOK'
    BY <2>a, <2>b DEF Stages
  <2>2. FlightFrozen'
    BY DEF FlightFrozen, Pending
  <2>3. RootsWrittenOnce'
    BY DEF RootsWrittenOnce
  <2>4. ReceiptsAreExact'
    BY DEF ReceiptsAreExact
  <2>5. CallsAreOrdered'
    BY DEF CallsAreOrdered
  <2>6. RecordsAreOwned'
    BY <2>a, <2>b DEF RecordsAreOwned, Record
  <2>7. AnchoredVerifies'
    BY <2>a, <2>b DEF AnchoredVerifies, VerifyProof
  <2> QED
    BY <2>1, <2>2, <2>3, <2>4, <2>5, <2>6, <2>7
<1>7. ASSUME NEW r \in Requests, Respond(r)
      PROVE  CoreInv'
  <2> USE <1>7 DEF Respond
  <2>1. TypeOK'
    <3>1. actionId[r] \in ActionIds
      BY DEF CallsAreOrdered
    <3>2. [id |-> actionId[r], decision |-> Verdict(r)] \in [id : ActionIds, decision : Decision]
      BY <3>1 DEF Decision, Verdict
    <3>3. history' \in Seq([id : ActionIds, decision : Decision])
      BY <3>2, AppendLeftType
    <3> QED
      BY <3>3 DEF Stages
  <2>2. FlightFrozen'
    BY DEF FlightFrozen, Pending
  <2>3. RootsWrittenOnce'
    BY DEF RootsWrittenOnce
  <2>4. ReceiptsAreExact'
    BY DEF CallsAreOrdered, ReceiptsAreExact
  <2>5. CallsAreOrdered'
    BY DEF CallsAreOrdered
  <2>6. RecordsAreOwned'
    BY DEF CallsAreOrdered, RecordsAreOwned, Verdict
  <2>7. AnchoredVerifies'
    BY DEF AnchoredVerifies, VerifyProof
  <2> QED
    BY <2>1, <2>2, <2>3, <2>4, <2>5, <2>6, <2>7
<1>8. ASSUME NEW b \in BatchIds, FlushBatch(b)
      PROVE  CoreInv'
  <2> USE <1>8 DEF FlushBatch
  <2> DEFINE root == {record[a] : a \in PendingIds}
  <2>a. root \in Root /\ PendingIds \in SUBSET ActionIds
    BY DEF Root, Record, PendingIds, Pending
  <2>b. flight' = [id |-> b, ids |-> PendingIds, root |-> root] /\ flight' \in ReadyBatch
    BY <2>a DEF ReadyBatch
  <2>c. rootTx' = [rootTx EXCEPT ![b] = root]
    OBVIOUS
  <2>1. TypeOK'
    BY <2>a, <2>b, <2>c
  <2>2. FlightFrozen'
    <3>1. \A a \in ActionIds : batchId[a] # b
      BY DEF AnchoredVerifies
    <3>2. \A a \in PendingIds : Pending(a) /\ record[a] \in root
      BY DEF PendingIds
    <3>3. rootTx'[b] = root /\ roots'[b] = None
      BY <2>c
    <3> HIDE DEF root
    <3> QED
      BY <2>b, <3>1, <3>2, <3>3 DEF FlightFrozen, Pending
  <2>3. RootsWrittenOnce'
    BY DEF RootsWrittenOnce
  <2>4. ReceiptsAreExact'
    BY DEF CallsAreOrdered, ReceiptsAreExact
  <2>5. CallsAreOrdered'
    BY DEF CallsAreOrdered
  <2>6. RecordsAreOwned'
    BY DEF CallsAreOrdered, RecordsAreOwned, Verdict
  <2>7. AnchoredVerifies'
    BY DEF AnchoredVerifies, VerifyProof
  <2> QED
    BY <2>1, <2>2, <2>3, <2>4, <2>5, <2>6, <2>7
<1>9. ASSUME MarkAnchored
      PROVE  CoreInv'
  <2> USE <1>9 DEF MarkAnchored
  <2>a. /\ flight \in ReadyBatch /\ flight.root \in Root
        /\ roots[flight.id] = flight.root /\ flight.id \in BatchIds
    BY DEF FlightFrozen, ReadyBatch
  <2>1. TypeOK'
    BY <2>a DEF ReadyBatch
  <2>2. FlightFrozen'
    BY DEF FlightFrozen, Pending
  <2>3. RootsWrittenOnce'
    BY DEF RootsWrittenOnce
  <2>4. ReceiptsAreExact'
    BY DEF CallsAreOrdered, ReceiptsAreExact
  <2>5. CallsAreOrdered'
    BY DEF CallsAreOrdered
  <2>6. RecordsAreOwned'
    BY DEF CallsAreOrdered, RecordsAreOwned, Verdict
  <2>7. AnchoredVerifies'
    <3> SUFFICES ASSUME NEW a \in ActionIds, batchId'[a] # None
                 PROVE  /\ record'[a] # None /\ roots'[batchId'[a]] # None
                        /\ VerifyProof(record'[a], proof'[a], roots'[batchId'[a]])
                        /\ batches'[batchId'[a]] = roots'[batchId'[a]]
      BY DEF AnchoredVerifies
    <3>1. CASE a \in flight.ids
      BY <2>a, <3>1 DEF FlightFrozen, Pending, VerifyProof
    <3>2. CASE a \notin flight.ids
      BY <2>a, <3>2 DEF FlightFrozen, AnchoredVerifies, VerifyProof
    <3> QED
      BY <3>1, <3>2
  <2> QED
    BY <2>1, <2>2, <2>3, <2>4, <2>5, <2>6, <2>7
<1>10. ASSUME AnchorFails
      PROVE  CoreInv'
  <2> USE <1>10 DEF AnchorFails
  <2>1. TypeOK'
    BY DEF Stages, TxStages
  <2>2. FlightFrozen'
    BY DEF FlightFrozen, Pending
  <2>3. RootsWrittenOnce'
    BY DEF RootsWrittenOnce
  <2>4. ReceiptsAreExact'
    BY DEF CallsAreOrdered, ReceiptsAreExact
  <2>5. CallsAreOrdered'
    BY DEF CallsAreOrdered
  <2>6. RecordsAreOwned'
    BY DEF CallsAreOrdered, RecordsAreOwned, Verdict
  <2>7. AnchoredVerifies'
    BY DEF AnchoredVerifies, VerifyProof
  <2> QED
    BY <2>1, <2>2, <2>3, <2>4, <2>5, <2>6, <2>7
<1>11. ASSUME NEW r \in Requests, LandPolicyTx(r)
      PROVE  CoreInv'
  <2> USE <1>11 DEF LandPolicyTx
  <2>1. TypeOK'
    BY DEF TxStages
  <2>2. FlightFrozen'
    BY DEF FlightFrozen, Pending
  <2>3. RootsWrittenOnce'
    BY DEF RootsWrittenOnce
  <2>4. ReceiptsAreExact'
    BY DEF CallsAreOrdered, ReceiptsAreExact
  <2>5. CallsAreOrdered'
    BY DEF CallsAreOrdered
  <2>6. RecordsAreOwned'
    BY DEF CallsAreOrdered, RecordsAreOwned, Verdict
  <2>7. AnchoredVerifies'
    BY DEF AnchoredVerifies, VerifyProof
  <2> QED
    BY <2>1, <2>2, <2>3, <2>4, <2>5, <2>6, <2>7
<1>12. ASSUME NEW r \in Requests, DropPolicyTx(r)
      PROVE  CoreInv'
  <2> USE <1>12 DEF DropPolicyTx
  <2>1. TypeOK'
    BY DEF Stages, TxStages
  <2>2. FlightFrozen'
    BY DEF FlightFrozen, Pending
  <2>3. RootsWrittenOnce'
    BY DEF RootsWrittenOnce
  <2>4. ReceiptsAreExact'
    BY DEF CallsAreOrdered, ReceiptsAreExact
  <2>5. CallsAreOrdered'
    BY DEF CallsAreOrdered
  <2>6. RecordsAreOwned'
    BY DEF CallsAreOrdered, RecordsAreOwned, Verdict
  <2>7. AnchoredVerifies'
    BY DEF AnchoredVerifies, VerifyProof
  <2> QED
    BY <2>1, <2>2, <2>3, <2>4, <2>5, <2>6, <2>7
<1>13. ASSUME NEW b \in BatchIds, LandRoot(b)
      PROVE  CoreInv'
  <2> USE <1>13 DEF LandRoot
  <2>1. TypeOK'
    BY DEF Stages, TxStages
  <2>2. FlightFrozen'
    BY DEF FlightFrozen, Pending
  <2>3. RootsWrittenOnce'
    BY DEF RootsWrittenOnce
  <2>4. ReceiptsAreExact'
    BY DEF CallsAreOrdered, ReceiptsAreExact
  <2>5. CallsAreOrdered'
    BY DEF CallsAreOrdered
  <2>6. RecordsAreOwned'
    BY DEF CallsAreOrdered, RecordsAreOwned, Verdict
  <2>7. AnchoredVerifies'
    BY DEF RootsWrittenOnce, AnchoredVerifies, VerifyProof
  <2> QED
    BY <2>1, <2>2, <2>3, <2>4, <2>5, <2>6, <2>7
<1>14. ASSUME NEW b \in BatchIds, DropRoot(b)
      PROVE  CoreInv'
  <2> USE <1>14 DEF DropRoot
  <2>1. TypeOK'
    BY DEF Stages, TxStages
  <2>2. FlightFrozen'
    BY DEF FlightFrozen, Pending
  <2>3. RootsWrittenOnce'
    BY DEF RootsWrittenOnce
  <2>4. ReceiptsAreExact'
    BY DEF CallsAreOrdered, ReceiptsAreExact
  <2>5. CallsAreOrdered'
    BY DEF CallsAreOrdered
  <2>6. RecordsAreOwned'
    BY DEF CallsAreOrdered, RecordsAreOwned, Verdict
  <2>7. AnchoredVerifies'
    BY DEF AnchoredVerifies, VerifyProof
  <2> QED
    BY <2>1, <2>2, <2>3, <2>4, <2>5, <2>6, <2>7
<1>15. ASSUME Crash
      PROVE  CoreInv'
  <2> USE <1>15 DEF Crash
  <2>1. TypeOK'
    <3>1. pc' \in [Requests -> Stages]
      BY DEF Stages
    <3>2. faults' \in 0..MaxFaults /\ flight' = None /\ history' = << >> /\ up' = FALSE
      OBVIOUS
    <3>3. history' \in Seq([id : ActionIds, decision : Decision])
      BY <3>2
    <3> QED
      BY <3>1, <3>2, <3>3
  <2>2. FlightFrozen'
    BY DEF FlightFrozen, Pending
  <2>3. RootsWrittenOnce'
    BY DEF RootsWrittenOnce
  <2>4. ReceiptsAreExact'
    BY DEF CallsAreOrdered, ReceiptsAreExact
  <2>5. CallsAreOrdered'
    BY DEF CallsAreOrdered, Answered
  <2>6. RecordsAreOwned'
    <3>1. \A q \in Requests : pc[q] \in {"recorded", "done", "failed", "lost"} =>
                                  pc'[q] \in {"recorded", "done", "failed", "lost"}
      BY DEF Answered
    <3>2. \A a \in ActionIds : record[a] # None => record[a].req \in Requests
      BY DEF Record
    <3> QED
      BY <3>1, <3>2 DEF RecordsAreOwned, Verdict
  <2>7. AnchoredVerifies'
    BY DEF AnchoredVerifies, VerifyProof
  <2> QED
    BY <2>1, <2>2, <2>3, <2>4, <2>5, <2>6, <2>7
<1>16. ASSUME Restart
      PROVE  CoreInv'
  <2> USE <1>16 DEF Restart
  <2>1. TypeOK'
    BY DEF Stages, TxStages
  <2>2. FlightFrozen'
    BY DEF FlightFrozen, Pending
  <2>3. RootsWrittenOnce'
    BY DEF RootsWrittenOnce
  <2>4. ReceiptsAreExact'
    BY DEF CallsAreOrdered, ReceiptsAreExact
  <2>5. CallsAreOrdered'
    BY DEF CallsAreOrdered
  <2>6. RecordsAreOwned'
    BY DEF CallsAreOrdered, RecordsAreOwned, Verdict
  <2>7. AnchoredVerifies'
    BY DEF AnchoredVerifies, VerifyProof
  <2> QED
    BY <2>1, <2>2, <2>3, <2>4, <2>5, <2>6, <2>7
<1>18. ASSUME NEW r \in Requests, RespondFails(r)
      PROVE  CoreInv'
  <2> USE <1>18 DEF RespondFails
  <2>1. TypeOK'
    <3>1. actionId[r] \in ActionIds
      BY DEF CallsAreOrdered
    <3>2. [id |-> actionId[r], decision |-> Verdict(r)] \in [id : ActionIds, decision : Decision]
      BY <3>1 DEF Decision, Verdict
    <3>3. AppendLeft([id |-> actionId[r], decision |-> Verdict(r)], history)
            \in Seq([id : ActionIds, decision : Decision])
      BY <3>2, AppendLeftType
    <3>4. history' \in Seq([id : ActionIds, decision : Decision])
      BY <3>3
    <3> QED
      BY <3>4 DEF Stages
  <2>2. FlightFrozen'
    BY DEF FlightFrozen, Pending
  <2>3. RootsWrittenOnce'
    BY DEF RootsWrittenOnce
  <2>4. ReceiptsAreExact'
    BY DEF CallsAreOrdered, ReceiptsAreExact
  <2>5. CallsAreOrdered'
    BY DEF CallsAreOrdered
  <2>6. RecordsAreOwned'
    BY DEF CallsAreOrdered, RecordsAreOwned, Verdict
  <2>7. AnchoredVerifies'
    BY DEF AnchoredVerifies, VerifyProof
  <2> QED
    BY <2>1, <2>2, <2>3, <2>4, <2>5, <2>6, <2>7
<1>17. CASE UNCHANGED vars
  <2>1. TypeOK'
    BY <1>17 DEF Stages, TxStages, vars
  <2>2. FlightFrozen'
    BY <1>17 DEF FlightFrozen, Pending, vars
  <2>3. RootsWrittenOnce'
    BY <1>17 DEF RootsWrittenOnce, vars
  <2>4. ReceiptsAreExact'
    BY <1>17 DEF CallsAreOrdered, ReceiptsAreExact, vars
  <2>5. CallsAreOrdered'
    BY <1>17 DEF CallsAreOrdered, vars
  <2>6. RecordsAreOwned'
    BY <1>17 DEF CallsAreOrdered, RecordsAreOwned, Verdict, vars
  <2>7. AnchoredVerifies'
    BY <1>17 DEF AnchoredVerifies, VerifyProof, vars
  <2> QED
    BY <2>1, <2>2, <2>3, <2>4, <2>5, <2>6, <2>7
<1> QED
  BY <1>1, <1>2, <1>3, <1>4, <1>5, <1>6, <1>7, <1>8, <1>9, <1>10, <1>11, <1>12, <1>13, <1>14, <1>15, <1>16, <1>17, <1>18 DEF Next, Handler, Anchoring, Ledger

-----------------------------------------------------------------------------
(* What stays true: the parts of KeptInv *)

\* Every entry of the history after an append is the new one or one of the old.
LEMMA AppendLeftEntries ==
  ASSUME NEW T, NEW e \in T, NEW h \in Seq(T), NEW i \in DOMAIN AppendLeft(e, h)
  PROVE  \/ AppendLeft(e, h)[i] = e
         \/ \E j \in DOMAIN h : AppendLeft(e, h)[i] = h[j]
<1> DEFINE s == <<e>> \o h
           n == IF Len(h) < HistoryCap THEN Len(h) + 1 ELSE HistoryCap
<1>1. s \in Seq(T) /\ Len(s) = Len(h) + 1 /\ n \in 1..Len(s)
  BY BoundsAssumption
<1>2. AppendLeft(e, h) = SubSeq(s, 1, n)
  BY DEF AppendLeft
<1>3. i \in 1..n /\ AppendLeft(e, h)[i] = s[i]
  <2> HIDE DEF s, n
  <2> QED
    BY <1>1, <1>2
<1>4. CASE i = 1
  BY <1>3, <1>4
<1>5. CASE i # 1
  <2>1. i - 1 \in DOMAIN h /\ s[i] = h[i - 1]
    BY <1>1, <1>3, <1>5
  <2> QED
    BY <1>3, <2>1
<1> QED
  BY <1>4, <1>5

\* A step changes an action id only of a call that had none, never empties a row
\* of table leaves, and never takes a transaction back from the chain.
LEMMA Monotone ==
  ASSUME CoreInv, IdsAreDrawnOnce, [Next]_vars
  PROVE  /\ \A r \in Requests : actionId[r] # None => actionId'[r] = actionId[r]
         /\ \A a \in ActionIds : record[a] # None => record'[a] # None
         /\ \A r \in Requests : policyTx[r] = "landed" => policyTx'[r] = "landed"
<1> USE NamesAssumption DEF CoreInv, TypeOK, memory, db, chain
<1>1. ASSUME NEW q \in Requests, NEW a \in ActionIds, Submit(q, a)
      PROVE  /\ \A r \in Requests : actionId[r] # None => actionId'[r] = actionId[r]
             /\ UNCHANGED <<record, policyTx>>
  BY <1>1 DEF Submit, IdsAreDrawnOnce
<1>2. ASSUME NEW q \in Requests, RecordAudit(q)
      PROVE  /\ UNCHANGED <<actionId, policyTx>>
             /\ \A a \in ActionIds : record[a] # None => record'[a] # None
  <2>1. [req |-> q, decision |-> Verdict(q)] # None
    BY NoneIsNoRecord DEF Record, Decision, Verdict
  <2> QED
    BY <1>2, <2>1 DEF RecordAudit, AddLeaf
<1>3. ASSUME NEW q \in Requests, CheckPolicy(q)
      PROVE  /\ UNCHANGED <<actionId, record>>
             /\ \A r \in Requests : policyTx[r] = "landed" => policyTx'[r] = "landed"
  BY <1>3 DEF CheckPolicy, CallsAreOrdered
<1>4. ASSUME NEW q \in Requests, LandPolicyTx(q) \/ DropPolicyTx(q)
      PROVE  /\ UNCHANGED <<actionId, record>>
             /\ \A r \in Requests : policyTx[r] = "landed" => policyTx'[r] = "landed"
  BY <1>4 DEF LandPolicyTx, DropPolicyTx
<1>5. ASSUME NEW q \in Requests, Refuse(q) \/ PipelineFails(q) \/ ConfirmFails(q)
                                   \/ Respond(q) \/ RespondFails(q)
      PROVE  UNCHANGED <<actionId, record, policyTx>>
  BY <1>5 DEF Refuse, PipelineFails, ConfirmFails, Respond, RespondFails
<1>6. ASSUME \/ Anchoring \/ \E b \in BatchIds : LandRoot(b) \/ DropRoot(b)
             \/ Crash \/ Restart \/ UNCHANGED vars
      PROVE  UNCHANGED <<actionId, record, policyTx>>
  BY <1>6 DEF Anchoring, FlushBatch, MarkAnchored, AnchorFails, LandRoot, DropRoot, Crash,
     Restart, vars
<1> QED
  BY <1>1, <1>2, <1>3, <1>4, <1>5, <1>6 DEF Next, Handler, Ledger

\* So a call with a leaf under a root keeps its verdict, its id and its row.
LEMMA KeptStable ==
  ASSUME CoreInv, IdsAreDrawnOnce, [Next]_vars, NEW r \in Requests, Kept(r)
  PROVE  Kept(r)'
BY Monotone DEF Kept, CoreInv, TypeOK

\* Only Submit gives a call an id, and only a call that has one sends a transaction.
LEMMA IdsStep == CoreInv /\ IdsAreDrawnOnce /\ [Next]_vars => IdsAreDrawnOnce'
<1> SUFFICES ASSUME CoreInv, IdsAreDrawnOnce, [Next]_vars PROVE IdsAreDrawnOnce'
  OBVIOUS
<1> USE NamesAssumption DEF CoreInv, TypeOK, IdsAreDrawnOnce, memory, db, chain
<1>1. ASSUME NEW r \in Requests, NEW a \in ActionIds, Submit(r, a)
      PROVE  IdsAreDrawnOnce'
  BY <1>1 DEF Submit
<1>2. ASSUME NEW r \in Requests, CheckPolicy(r)
      PROVE  IdsAreDrawnOnce'
  BY <1>2 DEF CheckPolicy, CallsAreOrdered
<1>3. ASSUME NEW r \in Requests, LandPolicyTx(r) \/ DropPolicyTx(r)
      PROVE  IdsAreDrawnOnce'
  BY <1>3 DEF LandPolicyTx, DropPolicyTx
<1>4. ASSUME NEW r \in Requests, \/ Refuse(r) \/ PipelineFails(r) \/ ConfirmFails(r)
                                 \/ RecordAudit(r) \/ Respond(r) \/ RespondFails(r)
      PROVE  IdsAreDrawnOnce'
  BY <1>4 DEF Refuse, PipelineFails, ConfirmFails, RecordAudit, Respond, RespondFails
<1>5. ASSUME Crash
      PROVE  IdsAreDrawnOnce'
  BY <1>5 DEF Crash, Answered
<1>6. ASSUME \/ Anchoring \/ \E b \in BatchIds : LandRoot(b) \/ DropRoot(b)
             \/ Restart \/ UNCHANGED vars
      PROVE  IdsAreDrawnOnce'
  BY <1>6 DEF Anchoring, FlushBatch, MarkAnchored, AnchorFails, LandRoot, DropRoot, Restart, vars
<1> QED
  BY <1>1, <1>2, <1>3, <1>4, <1>5, <1>6 DEF Next, Handler, Ledger

\* A step that takes the loop found it free, and one that ends a handler gives it back.
LEMMA LoopStep == CoreInv /\ LoopIsHeld /\ [Next]_vars => LoopIsHeld'
<1> SUFFICES ASSUME CoreInv, LoopIsHeld, [Next]_vars PROVE LoopIsHeld'
  OBVIOUS
<1> USE NamesAssumption DEF CoreInv, TypeOK, LoopIsHeld, memory, db, chain
<1>1. ASSUME NEW r \in Requests, \/ \E a \in ActionIds : Submit(r, a)
                                 \/ Refuse(r) \/ PipelineFails(r)
      PROVE  LoopIsHeld'
  BY <1>1 DEF Submit, Refuse, PipelineFails
<1>2. ASSUME NEW r \in Requests, CheckPolicy(r) \/ RecordAudit(r)
      PROVE  LoopIsHeld'
  BY <1>2 DEF CheckPolicy, RecordAudit
<1>3. ASSUME NEW r \in Requests, ConfirmFails(r) \/ Respond(r) \/ RespondFails(r)
      PROVE  LoopIsHeld'
  BY <1>3 DEF ConfirmFails, Respond, RespondFails
<1>4. ASSUME NEW b \in BatchIds, FlushBatch(b)
      PROVE  LoopIsHeld'
  BY <1>4 DEF FlushBatch
<1>5. ASSUME MarkAnchored \/ AnchorFails
      PROVE  LoopIsHeld'
  BY <1>5 DEF MarkAnchored, AnchorFails
<1>6. ASSUME Crash
      PROVE  LoopIsHeld'
  BY <1>6 DEF Crash, Answered
<1>7. ASSUME Ledger \/ Restart \/ UNCHANGED vars
      PROVE  LoopIsHeld'
  BY <1>7 DEF Ledger, LandPolicyTx, DropPolicyTx, LandRoot, DropRoot, Restart, vars
<1> QED
  BY <1>1, <1>2, <1>3, <1>4, <1>5, <1>6, <1>7 DEF Next, Handler, Anchoring

\* Rows are never deleted, so an answered call keeps the one it wrote.
LEMMA AnswersStep == CoreInv /\ KeptInv /\ [Next]_vars => AnswersAreStored'
<1> SUFFICES ASSUME CoreInv, KeptInv, [Next]_vars, NEW r \in Requests,
                    pc'[r] \in {"recorded", "done"}
             PROVE  record'[actionId'[r]] # None
  BY DEF AnswersAreStored
<1> USE NamesAssumption DEF CoreInv, TypeOK, memory, db, chain
<1>1. CASE pc[r] \in {"recorded", "done"}
  <2>1. actionId[r] \in ActionIds /\ record[actionId[r]] # None
    BY <1>1 DEF CallsAreOrdered, KeptInv, AnswersAreStored
  <2> QED
    BY <2>1, Monotone DEF KeptInv
<1>2. CASE pc[r] \notin {"recorded", "done"}
  <2>1. RecordAudit(r)
    <3>1. ASSUME NEW q \in Requests, Handler(q), ~RecordAudit(r)
          PROVE  FALSE
      <4>1. CASE q # r
        BY <1>2, <3>1, <4>1 DEF Handler, Submit, Refuse, PipelineFails, CheckPolicy,
           ConfirmFails, RecordAudit, Respond, RespondFails
      <4>2. CASE q = r
        BY <1>2, <3>1, <4>2 DEF Handler, Submit, Refuse, PipelineFails, CheckPolicy,
           ConfirmFails, Respond, RespondFails
      <4> QED
        BY <4>1, <4>2
    <3>2. ASSUME Anchoring \/ Ledger \/ Restart \/ UNCHANGED vars
          PROVE  pc' = pc
      BY <3>2 DEF Anchoring, Ledger, FlushBatch, MarkAnchored, AnchorFails, LandPolicyTx,
         DropPolicyTx, LandRoot, DropRoot, Restart, vars
    <3>3. ~Crash
      BY <1>2 DEF Crash, Answered
    <3> QED
      BY <1>2, <3>1, <3>2, <3>3 DEF Next
  <2>2. actionId[r] \in ActionIds
    BY <2>1 DEF RecordAudit, CallsAreOrdered
  <2>3. [req |-> r, decision |-> Verdict(r)] # None
    BY NoneIsNoRecord DEF Record, Decision, Verdict
  <2> QED
    BY <2>1, <2>2, <2>3 DEF RecordAudit, AddLeaf
<1> QED
  BY <1>1, <1>2

\* A handler that answers adds an entry for a row that is there; a crash empties
\* the list.
LEMMA HistoryStep == CoreInv /\ KeptInv /\ [Next]_vars => HistoryIsOwned'
<1> SUFFICES ASSUME CoreInv, KeptInv, [Next]_vars PROVE HistoryIsOwned'
  OBVIOUS
<1> DEFINE Entry   == [id : ActionIds, decision : Decision]
           Owned(e) == /\ record[e.id] # None
                       /\ \E q \in Requests : actionId[q] = e.id /\ Verdict(q) = e.decision
           OwnedNext(e) == /\ record'[e.id] # None
                           /\ \E q \in Requests : actionId'[q] = e.id /\ Verdict(q) = e.decision
           entry(r) == [id |-> actionId[r], decision |-> Verdict(r)]
<1>1. history \in Seq(Entry) /\ \A i \in DOMAIN history : history[i] \in Entry /\ Owned(history[i])
  <2>1. history \in Seq(Entry)
    BY DEF CoreInv, TypeOK
  <2>2. \A i \in DOMAIN history : Owned(history[i])
    BY DEF KeptInv, HistoryIsOwned
  <2> HIDE DEF Entry, Owned
  <2> QED
    BY <2>1, <2>2
<1>2. \A e \in Entry : Owned(e) => OwnedNext(e)
  <2> SUFFICES ASSUME NEW e \in Entry, Owned(e) PROVE OwnedNext(e)
    OBVIOUS
  <2>1. record'[e.id] # None
    BY Monotone DEF KeptInv
  <2>2. PICK q \in Requests : actionId[q] = e.id /\ Verdict(q) = e.decision
    OBVIOUS
  <2>3. actionId'[q] = e.id
    BY <2>2, Monotone, NamesAssumption DEF KeptInv
  <2> QED
    BY <2>1, <2>2, <2>3
<1>3. ASSUME NEW r \in Requests, Respond(r) \/ RespondFails(r)
      PROVE  entry(r) \in Entry /\ Owned(entry(r))
  <2>1. pc[r] = "recorded"
    BY <1>3 DEF Respond, RespondFails
  <2>2. actionId[r] \in ActionIds /\ record[actionId[r]] # None
    BY <2>1 DEF CoreInv, TypeOK, CallsAreOrdered, KeptInv, AnswersAreStored
  <2>3. Verdict(r) \in Decision
    BY DEF Verdict, Decision
  <2> QED
    BY <2>2, <2>3
<1>4. \/ history' = history
      \/ history' = << >>
      \/ \E r \in Requests : /\ Respond(r) \/ RespondFails(r)
                             /\ history' = AppendLeft(entry(r), history)
  <2>1. ASSUME NEW r \in Requests, Handler(r)
        PROVE  \/ history' = history
               \/ (Respond(r) \/ RespondFails(r)) /\ history' = AppendLeft(entry(r), history)
    BY <2>1 DEF Handler, Submit, Refuse, PipelineFails, CheckPolicy, ConfirmFails, RecordAudit,
       Respond, RespondFails
  <2>2. ASSUME Anchoring \/ Ledger \/ Restart \/ UNCHANGED vars
        PROVE  history' = history
    BY <2>2 DEF Anchoring, Ledger, FlushBatch, MarkAnchored, AnchorFails, LandPolicyTx,
       DropPolicyTx, LandRoot, DropRoot, Restart, vars, memory
  <2>3. Crash => history' = << >>
    BY DEF Crash
  <2> QED
    BY <2>1, <2>2, <2>3 DEF Next
<1>5. \A i \in DOMAIN history' : OwnedNext(history'[i])
  <2> HIDE DEF Entry, Owned, OwnedNext, entry
  <2>1. CASE history' = history
    BY <2>1, <1>1, <1>2
  <2>2. CASE history' = << >>
    BY <2>2
  <2>3. ASSUME NEW r \in Requests, Respond(r) \/ RespondFails(r),
               history' = AppendLeft(entry(r), history)
        PROVE  \A i \in DOMAIN history' : OwnedNext(history'[i])
    <3>1. entry(r) \in Entry /\ Owned(entry(r))
      BY <1>3, <2>3
    <3>2. \A i \in DOMAIN history' : \/ history'[i] = entry(r)
                                     \/ \E j \in DOMAIN history : history'[i] = history[j]
      BY <1>1, <2>3, <3>1, AppendLeftEntries
    <3> SUFFICES ASSUME NEW i \in DOMAIN history' PROVE OwnedNext(history'[i])
      OBVIOUS
    <3>3. history'[i] \in Entry /\ Owned(history'[i])
      BY <1>1, <3>1, <3>2
    <3> QED
      BY <1>2, <3>3
  <2> QED
    BY <1>4, <2>1, <2>2, <2>3
<1> QED
  BY <1>5 DEF HistoryIsOwned, Verdict

\* Between the flush and its outcome the batch in flight and the leaves stay as
\* they are; a root that is sent is a batch in flight, a root that lands was sent.
LEMMA FlightFrame ==
  ASSUME CoreInv, [Next]_vars
  PROVE  /\ \/ \E b \in BatchIds : FlushBatch(b)
            \/ /\ loop' = Batcher => loop = Batcher /\ UNCHANGED <<flight, record>>
               /\ \A b \in BatchIds : rootTx'[b] \in {rootTx[b], None}
         /\ \A b \in BatchIds : \/ roots'[b] = roots[b]
                                \/ rootTx[b] # None /\ roots'[b] = rootTx[b]
<1> USE NamesAssumption DEF CoreInv, TypeOK, memory, db, chain
<1>1. ASSUME NEW r \in Requests, Handler(r)
      PROVE  /\ loop' = Batcher => loop = Batcher /\ UNCHANGED <<flight, record>>
             /\ UNCHANGED <<rootTx, roots>>
  BY <1>1 DEF Handler, Submit, Refuse, PipelineFails, CheckPolicy, ConfirmFails, RecordAudit,
     Respond, RespondFails
<1>2. ASSUME NEW b \in BatchIds, FlushBatch(b)
      PROVE  UNCHANGED roots
  BY <1>2 DEF FlushBatch
<1>3. ASSUME MarkAnchored \/ AnchorFails \/ Crash
      PROVE  loop' # Batcher /\ UNCHANGED <<rootTx, roots>>
  BY <1>3 DEF MarkAnchored, AnchorFails, Crash
<1>4. ASSUME NEW b \in BatchIds, LandRoot(b)
      PROVE  /\ UNCHANGED <<loop, flight, record>>
             /\ \A c \in BatchIds : rootTx'[c] \in {rootTx[c], None}
             /\ \A c \in BatchIds : \/ roots'[c] = roots[c]
                                    \/ rootTx[c] # None /\ roots'[c] = rootTx[c]
  BY <1>4 DEF LandRoot
<1>5. ASSUME NEW b \in BatchIds, DropRoot(b)
      PROVE  /\ UNCHANGED <<loop, flight, record, roots>>
             /\ \A c \in BatchIds : rootTx'[c] \in {rootTx[c], None}
  BY <1>5 DEF DropRoot
<1>6. ASSUME \/ \E r \in Requests : LandPolicyTx(r) \/ DropPolicyTx(r)
             \/ Restart \/ UNCHANGED vars
      PROVE  UNCHANGED <<loop, flight, record, rootTx, roots>>
  BY <1>6 DEF LandPolicyTx, DropPolicyTx, Restart, vars
<1> QED
  BY <1>1, <1>2, <1>3, <1>4, <1>5, <1>6 DEF Next, Anchoring, Ledger

\* flush_and_anchor sends the root of exactly the leaves it read.
LEMMA FlightStep == CoreInv /\ KeptInv /\ [Next]_vars => FlightIsExact'
<1> SUFFICES ASSUME CoreInv, KeptInv, [Next]_vars PROVE FlightIsExact'
  OBVIOUS
<1>1. ASSUME NEW b \in BatchIds, FlushBatch(b)
      PROVE  FlightIsExact'
  BY <1>1 DEF FlushBatch, FlightIsExact, db
<1>2. ASSUME loop' = Batcher => loop = Batcher /\ UNCHANGED <<flight, record>>
      PROVE  FlightIsExact'
  BY <1>2 DEF FlightIsExact, KeptInv
<1> QED
  BY <1>1, <1>2, FlightFrame

\* A leaf that goes under a root is a row whose call was judged, and what lands
\* under a root was sent under it.
LEMMA LeavesStep == CoreInv /\ KeptInv /\ [Next]_vars => LeavesAreKept'
<1> SUFFICES ASSUME CoreInv, KeptInv, [Next]_vars PROVE LeavesAreKept'
  OBVIOUS
<1>1. \A r \in Requests : Kept(r) => Kept(r)'
  BY KeptStable DEF KeptInv
<1>2. /\ loop = Batcher => \A leaf \in flight.root : leaf.req \in Requests
      /\ \A b \in BatchIds : rootTx[b] # None => \A leaf \in rootTx[b] : leaf.req \in Requests
      /\ \A b \in BatchIds : roots[b] # None => \A leaf \in roots[b] : leaf.req \in Requests
  BY NamesAssumption DEF CoreInv, TypeOK, FlightFrozen, ReadyBatch, Root, Record
<1>3. ASSUME NEW b \in BatchIds, FlushBatch(b)
      PROVE  \A leaf \in flight'.root : leaf.req \in Requests /\ Kept(leaf.req)
  <2>1. flight'.root = {record[a] : a \in PendingIds}
    BY <1>3 DEF FlushBatch
  <2>2. \A a \in PendingIds : record[a].req \in Requests /\ Kept(record[a].req)
    BY NamesAssumption DEF PendingIds, Pending, Kept, CoreInv, TypeOK, RecordsAreOwned, Record
  <2> QED
    BY <2>1, <2>2
<1>4. loop' = Batcher => \A leaf \in flight'.root : Kept(leaf.req)'
  <2>1. CASE \E b \in BatchIds : FlushBatch(b)
    BY <2>1, <1>1, <1>3
  <2>2. CASE loop' = Batcher => loop = Batcher /\ UNCHANGED <<flight, record>>
    BY <2>2, <1>1, <1>2 DEF KeptInv, LeavesAreKept
  <2> QED
    BY <2>1, <2>2, FlightFrame
<1>5. ASSUME NEW c \in BatchIds, rootTx'[c] # None
      PROVE  \A leaf \in rootTx'[c] : Kept(leaf.req)'
  <2>1. ASSUME NEW b \in BatchIds, FlushBatch(b)
        PROVE  rootTx'[c] \in {rootTx[c], flight'.root}
    BY <2>1 DEF FlushBatch, CoreInv, TypeOK
  <2>2. CASE rootTx'[c] = rootTx[c]
    BY <2>2, <1>1, <1>2, <1>5 DEF KeptInv, LeavesAreKept
  <2>3. CASE \E b \in BatchIds : FlushBatch(b)
    BY <2>1, <2>2, <2>3, <1>1, <1>3
  <2> QED
    BY <1>5, <2>2, <2>3, FlightFrame
<1>6. ASSUME NEW c \in BatchIds, roots'[c] # None
      PROVE  \A leaf \in roots'[c] : Kept(leaf.req)'
  BY <1>1, <1>2, <1>6, FlightFrame DEF KeptInv, LeavesAreKept
<1> QED
  BY <1>4, <1>5, <1>6 DEF LeavesAreKept

\* A batch row is written over pending leaves, which are in no other batch row, and
\* a call that has a leaf in a batch row is past the step that stores leaves.
LEMMA BatchesStep == CoreInv /\ KeptInv /\ [Next]_vars => BatchesAreOwned' /\ AnchoredOnce'
<1> SUFFICES ASSUME CoreInv, KeptInv, [Next]_vars PROVE BatchesAreOwned' /\ AnchoredOnce'
  OBVIOUS
<1> DEFINE Stored == {"recorded", "done", "failed", "lost"}
<1> USE NamesAssumption DEF memory, db, chain
<1>1. \A b \in BatchIds : batches[b] # None => \A leaf \in batches[b] :
        /\ leaf.req \in Requests /\ pc[leaf.req] \in Stored
        /\ \A a \in ActionIds : record[a] = leaf => batchId[a] = b
  BY DEF CoreInv, TypeOK, Root, Record, KeptInv, BatchesAreOwned
<1>2. ASSUME MarkAnchored
      PROVE  BatchesAreOwned' /\ AnchoredOnce'
  <2> USE DEF CoreInv, TypeOK, FlightFrozen, ReadyBatch, Root, Record, KeptInv
  <2>1. /\ flight.id \in BatchIds /\ flight.root # None
        /\ batches' = [batches EXCEPT ![flight.id] = flight.root]
        /\ batchId' = [a \in ActionIds |-> IF a \in flight.ids THEN flight.id ELSE batchId[a]]
        /\ UNCHANGED <<record, pc>>
    BY <1>2 DEF MarkAnchored
  <2>2. \A leaf \in flight.root :
          \E a \in ActionIds : a \in flight.ids /\ record[a] = leaf /\ Pending(a)
    BY <1>2 DEF MarkAnchored, FlightIsExact
  <2>3. \A leaf \in flight.root : pc[leaf.req] \in Stored
    BY <2>2 DEF Pending, RecordsAreOwned
  <2>4. \A a \in ActionIds : record[a] \in flight.root => a \in flight.ids
    <3> SUFFICES ASSUME NEW a \in ActionIds, record[a] \in flight.root
                 PROVE  a \in flight.ids
      OBVIOUS
    <3>1. PICK c \in ActionIds : c \in flight.ids /\ record[c] = record[a] /\ Pending(c)
      BY <2>2
    <3>2. c = a
      BY <3>1 DEF Pending, RecordsAreOwned
    <3> QED
      BY <3>1, <3>2
  <2>5. ASSUME NEW b \in BatchIds, b # flight.id, batches[b] # None
        PROVE  batches[b] \cap flight.root = {}
    BY <1>1, <2>2, <2>5 DEF Pending
  <2>6. BatchesAreOwned'
    <3> SUFFICES ASSUME NEW b \in BatchIds, batches'[b] # None, NEW leaf \in batches'[b]
                 PROVE  /\ pc[leaf.req] \in Stored
                        /\ \A a \in ActionIds : record[a] = leaf => batchId'[a] = b
      BY <2>1 DEF BatchesAreOwned
    <3>1. CASE b = flight.id
      BY <3>1, <2>1, <2>3, <2>4
    <3>2. CASE b # flight.id
      <4>1. batches[b] # None /\ leaf \in batches[b] /\ leaf \notin flight.root
        BY <3>2, <2>1, <2>5
      <4>2. \A a \in ActionIds : a \in flight.ids => record[a] \in flight.root
        BY <1>2 DEF MarkAnchored
      <4> QED
        BY <1>1, <2>1, <4>1, <4>2
    <3> QED
      BY <3>1, <3>2
  <2>7. AnchoredOnce'
    BY <2>1, <2>5 DEF AnchoredOnce
  <2> QED
    BY <2>6, <2>7
<1>3. ASSUME NEW r \in Requests, RecordAudit(r)
      PROVE  BatchesAreOwned' /\ AnchoredOnce'
  <2>1. /\ pc[r] = "confirming" /\ pc' = [pc EXCEPT ![r] = "recorded"]
        /\ record' = [record EXCEPT ![actionId[r]] = [req |-> r, decision |-> Verdict(r)]]
        /\ batchId' = [batchId EXCEPT ![actionId[r]] = None]
        /\ UNCHANGED batches
    BY <1>3 DEF RecordAudit, AddLeaf
  <2>2. BatchesAreOwned'
    <3> SUFFICES ASSUME NEW b \in BatchIds, batches[b] # None, NEW leaf \in batches[b]
                 PROVE  /\ pc'[leaf.req] \in Stored
                        /\ \A a \in ActionIds : record'[a] = leaf => batchId'[a] = b
      BY <2>1 DEF BatchesAreOwned
    <3>1. leaf.req # r /\ pc'[leaf.req] \in Stored
      BY <1>1, <2>1 DEF CoreInv, TypeOK
    <3>2. \A a \in ActionIds : record'[a] = leaf => a # actionId[r]
      BY <2>1, <3>1 DEF CoreInv, TypeOK
    <3> QED
      BY <1>1, <2>1, <3>1, <3>2 DEF CoreInv, TypeOK
  <2> QED
    BY <2>1, <2>2 DEF AnchoredOnce, KeptInv
<1>4. ASSUME UNCHANGED <<record, batchId, batches>>,
             \A r \in Requests : pc[r] \in Stored => pc'[r] \in Stored
      PROVE  BatchesAreOwned' /\ AnchoredOnce'
  <2>1. BatchesAreOwned'
    BY <1>1, <1>4 DEF BatchesAreOwned
  <2> QED
    BY <1>4, <2>1 DEF AnchoredOnce, KeptInv
<1>5. ASSUME NEW r \in Requests, Handler(r), ~RecordAudit(r)
      PROVE  /\ UNCHANGED <<record, batchId, batches>>
             /\ \A q \in Requests : pc[q] \in Stored => pc'[q] \in Stored
  BY <1>5 DEF CoreInv, TypeOK, Handler, Submit, Refuse, PipelineFails, CheckPolicy, ConfirmFails,
     Respond, RespondFails
<1>6. ASSUME \/ \E b \in BatchIds : FlushBatch(b)
             \/ AnchorFails \/ Ledger \/ Restart \/ UNCHANGED vars
      PROVE  UNCHANGED <<record, batchId, batches, pc>>
  BY <1>6 DEF FlushBatch, AnchorFails, Ledger, LandPolicyTx, DropPolicyTx, LandRoot, DropRoot,
     Restart, vars
<1>7. ASSUME Crash
      PROVE  /\ UNCHANGED <<record, batchId, batches>>
             /\ \A q \in Requests : pc[q] \in Stored => pc'[q] \in Stored
  BY <1>7 DEF Crash, Answered
<1> QED
  BY <1>2, <1>3, <1>4, <1>5, <1>6, <1>7 DEF Next, Anchoring

\* KeptInv is inductive relative to CoreInv.
LEMMA KeptStep == CoreInv /\ KeptInv /\ [Next]_vars => KeptInv'
BY LoopStep, IdsStep, AnswersStep, HistoryStep, FlightStep, LeavesStep, BatchesStep DEF KeptInv

-----------------------------------------------------------------------------
(* The theorems *)

\* A server that starts on empty stores satisfies CoreInv.
LEMMA CoreStart == Init => CoreInv
<1> SUFFICES ASSUME Init PROVE CoreInv
  OBVIOUS
<1> USE NamesAssumption, BoundsAssumption DEF Init
<1>1. TypeOK
  <2>1. history \in Seq([id : ActionIds, decision : Decision])
    OBVIOUS
  <2> QED
    BY <2>1 DEF TypeOK, Stages, TxStages
<1>2. FlightFrozen /\ RootsWrittenOnce /\ ReceiptsAreExact /\ CallsAreOrdered
  BY CompliantAssumption DEF FlightFrozen, RootsWrittenOnce, ReceiptsAreExact, CallsAreOrdered
<1>3. RecordsAreOwned /\ AnchoredVerifies
  BY DEF RecordsAreOwned, AnchoredVerifies
<1> QED
  BY <1>1, <1>2, <1>3 DEF CoreInv

\* And it satisfies KeptInv: nothing was answered, sent or stored yet.
LEMMA KeptStart == Init => KeptInv
<1> SUFFICES ASSUME Init PROVE KeptInv
  OBVIOUS
<1> USE NamesAssumption DEF Init
<1>1. LoopIsHeld /\ IdsAreDrawnOnce /\ AnswersAreStored /\ HistoryIsOwned /\ FlightIsExact
  BY DEF LoopIsHeld, IdsAreDrawnOnce, AnswersAreStored, HistoryIsOwned, FlightIsExact
<1>2. LeavesAreKept /\ BatchesAreOwned /\ AnchoredOnce
  BY DEF LeavesAreKept, BatchesAreOwned, AnchoredOnce
<1> QED
  BY <1>1, <1>2 DEF KeptInv

\* The inductive invariant holds of every reachable state: what flush_and_anchor read
\* stays frozen until its outcome is known, each root is written once, every record
\* belongs to a call whose transaction landed, and none of it is lost later.
THEOREM Invariance == Spec => []IndInv
<1>1. Init => IndInv
  BY CoreStart, KeptStart DEF IndInv
<1>2. IndInv /\ [Next]_vars => IndInv'
  BY CoreStep, KeptStep DEF IndInv
<1> QED
  BY <1>1, <1>2, PTL DEF Spec

\* Nobody keeps the event loop: it is free, or held by a handler between its transaction
\* and its answer, or by flush_and_anchor with its batch.
THEOREM LoopIsNeverLeaked == Spec => []LoopIsHeld
<1>1. IndInv => LoopIsHeld
  BY DEF IndInv, KeptInv
<1> QED
  BY <1>1, Invariance, PTL

\* The stages of a handler, in order; answered, refused and cut off are the last.
Rank == [idle |-> 0, uploading |-> 1, confirming |-> 2, recorded |-> 3,
         done |-> 4, failed |-> 4, lost |-> 4]

HandlersAdvance == [][\A r \in Requests : pc'[r] = pc[r] \/ Rank[pc[r]] < Rank[pc'[r]]]_vars

\* What Rank says of each stage.
LEMMA Ranks ==
  /\ Rank["idle"] = 0 /\ Rank["uploading"] = 1 /\ Rank["confirming"] = 2
  /\ Rank["recorded"] = 3 /\ Rank["done"] = 4 /\ Rank["failed"] = 4 /\ Rank["lost"] = 4
  BY DEF Rank

\* One handler that goes on leaves the others where they are.
LEMMA MoveAdvances ==
  ASSUME TypeOK, NEW q \in Requests, NEW stage, pc' = [pc EXCEPT ![q] = stage],
         Rank[pc[q]] < Rank[stage], NEW r \in Requests
  PROVE  pc'[r] = pc[r] \/ Rank[pc[r]] < Rank[pc'[r]]
<1>1. CASE q = r
  <2>1. pc'[r] = stage
    BY <1>1 DEF TypeOK
  <2> QED
    BY <1>1, <2>1
<1>2. CASE q # r
  BY <1>2 DEF TypeOK
<1> QED
  BY <1>1, <1>2

\* A handler only moves forward, in at most four steps, so a call that is never answered
\* waits for ever in one stage: fairness of the single steps is all its end needs.
THEOREM HandlersOnlyAdvance == Spec => HandlersAdvance
<1>1. ASSUME IndInv, Next, NEW r \in Requests
      PROVE  pc'[r] = pc[r] \/ Rank[pc[r]] < Rank[pc'[r]]
  <2>0. TypeOK
    BY <1>1 DEF IndInv, CoreInv
  <2>1. ASSUME NEW q \in Requests, Handler(q)
        PROVE  \E stage : pc' = [pc EXCEPT ![q] = stage] /\ Rank[pc[q]] < Rank[stage]
    <3>1. CASE (\E a \in ActionIds : Submit(q, a)) \/ Refuse(q)
      BY <3>1, Ranks DEF Submit, Refuse
    <3>2. CASE PipelineFails(q) \/ CheckPolicy(q)
      BY <3>2, Ranks DEF PipelineFails, CheckPolicy
    <3>3. CASE ConfirmFails(q) \/ RecordAudit(q)
      BY <3>3, Ranks DEF ConfirmFails, RecordAudit
    <3>4. CASE Respond(q) \/ RespondFails(q)
      BY <3>4, Ranks DEF Respond, RespondFails
    <3> QED
      BY <2>1, <3>1, <3>2, <3>3, <3>4 DEF Handler
  <2>2. ASSUME Crash
        PROVE  pc'[r] = pc[r] \/ Rank[pc[r]] < Rank[pc'[r]]
    <3>1. \/ pc'[r] = pc[r]
          \/ pc[r] \in {"uploading", "confirming", "recorded"} /\ pc'[r] = "lost"
      BY <2>0, <2>2 DEF Crash, TypeOK, Answered, Stages
    <3> QED
      BY <3>1, Ranks
  <2>3. ASSUME Anchoring \/ Ledger \/ Restart
        PROVE  pc'[r] = pc[r]
    BY <2>3 DEF Anchoring, FlushBatch, MarkAnchored, AnchorFails, Ledger, LandPolicyTx,
       DropPolicyTx, LandRoot, DropRoot, Restart, memory
  <2> QED
    BY <1>1, <2>0, <2>1, <2>2, <2>3, MoveAdvances DEF Next
<1>2. IndInv /\ [Next]_vars =>
        [\A r \in Requests : pc'[r] = pc[r] \/ Rank[pc[r]] < Rank[pc'[r]]]_vars
  BY <1>1
<1> QED
  BY <1>2, Invariance, PTL DEF Spec, HandlersAdvance

\* What the database calls anchored has a root on chain, and its proof leads
\* from its leaf to that root: /api/verify of an anchored leaf cannot fail,
\* whatever transactions timed out, landed late or were lost in a crash.
THEOREM AnchoredLeavesVerify == Spec => []AnchoredVerifies
<1>1. IndInv => AnchoredVerifies
  BY DEF IndInv, CoreInv
<1> QED
  BY <1>1, Invariance, PTL

\* A stored record says "approved" exactly when an AACR was minted for it.
THEOREM RecordsTellTheChain == Spec => []RecordTellsChain
<1>1. IndInv => RecordTellsChain
  BY CompliantAssumption DEF IndInv, CoreInv, TypeOK, Record, RecordsAreOwned, ReceiptsAreExact,
     RecordTellsChain, Verdict
<1> QED
  BY <1>1, Invariance, PTL

\* A row of table leaves changes only when its call is recorded, when it is a
\* pending leaf that was flushed, or not at all; from this, an anchored leaf is
\* final unless two calls drew its action id.
LEMMA FinalStep ==
  ASSUME CoreInv, [Next]_vars, NEW a \in ActionIds, batchId[a] # None
  PROVE  \/ UNCHANGED <<record[a], batchId[a], proof[a]>>
         \/ \E r \in Requests : actionId[r] = a /\ Collide(r)
<1> USE DEF memory, db, chain
<1>1. ASSUME NEW r \in Requests, RecordAudit(r)
      PROVE  \/ UNCHANGED <<record[a], batchId[a], proof[a]>>
             \/ actionId[r] = a /\ Collide(r)
  <2>1. CASE actionId[r] # a
    BY <1>1, <2>1 DEF RecordAudit, AddLeaf, CoreInv, TypeOK
  <2>2. CASE actionId[r] = a
    <3>1. record[a] # None
      BY DEF CoreInv, AnchoredVerifies
    <3> QED
      BY <1>1, <2>2, <3>1 DEF RecordAudit, CoreInv, TypeOK, Record, RecordsAreOwned, Collide
  <2> QED
    BY <2>1, <2>2
<1>2. ASSUME MarkAnchored
      PROVE  UNCHANGED <<record[a], batchId[a], proof[a]>>
  BY <1>2 DEF MarkAnchored, CoreInv, FlightFrozen, Pending
<1>3. ASSUME NEW r \in Requests, Handler(r), ~RecordAudit(r)
      PROVE  UNCHANGED db
  BY <1>3 DEF Handler, Submit, Refuse, PipelineFails, CheckPolicy, ConfirmFails, Respond,
     RespondFails
<1>4. ASSUME Anchoring, ~MarkAnchored
      PROVE  UNCHANGED db
  BY <1>4 DEF Anchoring, FlushBatch, AnchorFails
<1>5. ASSUME Ledger \/ Crash \/ Restart \/ UNCHANGED vars
      PROVE  UNCHANGED db
  BY <1>5 DEF Ledger, LandPolicyTx, DropPolicyTx, LandRoot, DropRoot, Crash, Restart, vars
<1> QED
  BY <1>1, <1>2, <1>3, <1>4, <1>5 DEF Next

\* An anchored leaf keeps its record, batch and proof for ever, unless two calls
\* drew the same action id.
THEOREM AnchoredLeavesAreFinal == Spec => AnchoredIsFinal
<1>1. IndInv /\ [Next]_vars =>
        [\A a \in ActionIds : batchId[a] # None =>
           \/ UNCHANGED <<record[a], batchId[a], proof[a]>>
           \/ \E r \in Requests : actionId[r] = a /\ Collide(r)]_vars
  BY FinalStep DEF IndInv
<1> QED
  BY <1>1, Invariance, PTL DEF Spec, AnchoredIsFinal

\* An audit the caller got an answer for stays in the database under its action id,
\* whatever crashes later, unless another call drew the same id.
THEOREM AnswersAreKept == Spec => []AnswerIsKept
<1>1. IndInv => AnswerIsKept
  <2> SUFFICES ASSUME IndInv, NEW r \in Requests, pc[r] = "done", ~Collide(r)
               PROVE  record[actionId[r]] # None /\ record[actionId[r]].req = r
    BY DEF AnswerIsKept
  <2> USE DEF IndInv, CoreInv, TypeOK
  <2>1. actionId[r] \in ActionIds
    BY DEF CallsAreOrdered
  <2>2. record[actionId[r]] # None
    BY DEF KeptInv, AnswersAreStored
  <2>3. record[actionId[r]].req \in Requests /\ actionId[record[actionId[r]].req] = actionId[r]
    BY <2>1, <2>2 DEF RecordsAreOwned, Record
  <2> QED
    BY <2>2, <2>3 DEF Collide
<1> QED
  BY <1>1, Invariance, PTL

\* Each entry of recent_audits has a row in the store, which says the same decision
\* unless two calls share its action id.
THEOREM HistoryIsInTheStore == Spec => []HistoryIsBacked
<1>1. IndInv => HistoryIsBacked
  <2> SUFFICES ASSUME IndInv, NEW i \in DOMAIN history
               PROVE  LET a == history[i].id
                      IN  /\ record[a] # None
                          /\ \/ record[a].decision = history[i].decision
                             \/ Collide(record[a].req)
    BY DEF HistoryIsBacked
  <2> DEFINE a == history[i].id
  <2>1. a \in ActionIds /\ record[a] # None
    <3> DEFINE Entry == [id : ActionIds, decision : Decision]
    <3>1. history[i] \in Entry
      <4>1. history \in Seq(Entry)
        BY DEF IndInv, CoreInv, TypeOK
      <4> HIDE DEF Entry
      <4> QED
        BY <4>1
    <3>2. record[history[i].id] # None
      BY DEF IndInv, KeptInv, HistoryIsOwned
    <3> QED
      BY <3>1, <3>2
  <2>2. PICK q \in Requests : actionId[q] = a /\ Verdict(q) = history[i].decision
    BY DEF IndInv, KeptInv, HistoryIsOwned
  <2> HIDE DEF a
  <2>3. /\ record[a].req \in Requests /\ actionId[record[a].req] = a
        /\ record[a].decision = Verdict(record[a].req)
    BY <2>1 DEF IndInv, CoreInv, TypeOK, RecordsAreOwned, Record
  <2>4. record[a].decision = history[i].decision \/ Collide(record[a].req)
    BY <2>2, <2>3 DEF Collide
  <2> QED
    BY <2>1, <2>4 DEF a
<1> QED
  BY <1>1, Invariance, PTL

\* No record is counted in two batch rows, however often an anchor attempt was
\* abandoned, landed late or was cut off by a crash.
THEOREM RecordsAreAnchoredOnce == Spec => []AnchoredOnce
<1>1. IndInv => AnchoredOnce
  BY DEF IndInv, KeptInv
<1> QED
  BY <1>1, Invariance, PTL

-----------------------------------------------------------------------------
(* The pipeline implements AuditTrail *)

\* A call that has an id to itself has only its own record under it.
LEMMA OwnRecord ==
  ASSUME CoreInv, NEW r \in Requests, actionId[r] # None, record[actionId[r]] # None, ~Collide(r)
  PROVE  InTrail(r)
<1> USE DEF CoreInv, TypeOK
<1>1. record[actionId[r]].req \in Requests /\ actionId[record[actionId[r]].req] = actionId[r]
  BY DEF RecordsAreOwned, Record
<1> QED
  BY <1>1 DEF InTrail, Collide

\* A server on empty stores shows the empty trail.
LEMMA TrailStart == Init => Trail!Init
<1> SUFFICES ASSUME Init PROVE Trail!Init
  OBVIOUS
<1> USE DEF Init
<1>1. {r \in Requests : policyTx[r] = "landed" /\ ~Collide(r)} = {}
  OBVIOUS
<1>2. \A r \in Requests : ~InTrail(r)
  BY DEF InTrail
<1>3. {OwnUnder(b) : b \in {c \in BatchIds : roots[c] # None}} = {}
  OBVIOUS
<1> QED
  BY <1>1, <1>2, <1>3 DEF Trail!Init

\* Drawing an id disturbs no call that was judged: it shares its id with the same
\* calls as before.
LEMMA SubmitIsUnseen ==
  ASSUME IndInv, NEW r \in Requests, NEW a \in ActionIds, Submit(r, a),
         NEW q \in Requests, policyTx[q] = "landed"
  PROVE  /\ actionId'[q] = actionId[q] /\ policyTx'[q] = "landed"
         /\ Collide(q)' <=> Collide(q)
<1> USE NamesAssumption DEF IndInv, CoreInv, TypeOK, KeptInv, db, chain
<1>1. /\ actionId[r] = None /\ policyTx[r] = "none" /\ UNCHANGED policyTx
      /\ actionId' = [actionId EXCEPT ![r] = a]
  BY DEF Submit, IdsAreDrawnOnce
<1>2. q # r /\ actionId[q] # None /\ actionId[q] # a
  BY <1>1 DEF Submit, Drawable, IdsAreDrawnOnce
<1> QED
  BY <1>1, <1>2 DEF Collide

\* A decision with a leaf and an id to itself is in the trail.
LEMMA LeavesAreInTrail ==
  ASSUME CoreInv, NEW r \in Requests, Kept(r), ~Collide(r)
  PROVE  InTrail(r)
BY OwnRecord DEF Kept

\* Every step of the pipeline is a step of the trail or changes nothing the trail
\* shows.
LEMMA TrailStep == IndInv /\ [Next]_vars => [Trail!Next]_(Trail!vars)
<1> SUFFICES ASSUME IndInv, [Next]_vars PROVE [Trail!Next]_(Trail!vars)
  OBVIOUS
<1> DEFINE Judged    == {r \in Requests : policyTx[r] = "landed" /\ ~Collide(r)}
           Status    == [r \in Requests |-> IF ~InTrail(r) THEN "absent"
                                            ELSE IF batchId[actionId[r]] = None THEN "pending"
                                            ELSE "anchored"]
           Published == {OwnUnder(b) : b \in {c \in BatchIds : roots[c] # None}} \ {{}}
<1> USE NamesAssumption DEF IndInv, memory, db, chain
<1>1. ASSUME UNCHANGED <<Judged, Status, Published>>
      PROVE  UNCHANGED Trail!vars
  BY <1>1 DEF Trail!vars
<1>2. ASSUME UNCHANGED <<actionId, record, batchId>>
      PROVE  UNCHANGED Status
  BY <1>2 DEF InTrail, Collide
<1>3. ASSUME UNCHANGED <<actionId, roots>>
      PROVE  UNCHANGED Published
  BY <1>3 DEF OwnUnder, Collide
<1>4. ASSUME UNCHANGED actionId, \A r \in Requests : policyTx'[r] = "landed" <=> policyTx[r] = "landed"
      PROVE  UNCHANGED Judged
  BY <1>4 DEF Collide
<1> HIDE DEF Judged, Status, Published
<1>5. ASSUME NEW r \in Requests, NEW a \in ActionIds, Submit(r, a)
      PROVE  UNCHANGED <<Judged, Status, Published>>
  <2> DEFINE Landed(q) == policyTx[q] = "landed"
  <2>1. UNCHANGED <<policyTx, record, batchId, roots>>
    BY <1>5 DEF Submit
  <2>2. \A q \in Requests : Landed(q) => actionId'[q] = actionId[q] /\ (Collide(q)' <=> Collide(q))
    BY <1>5, SubmitIsUnseen
  <2>3. UNCHANGED Judged
    BY <2>1, <2>2 DEF Judged
  <2>4. \A q \in Requests : InTrail(q) => Landed(q)
    BY DEF InTrail, CoreInv, TypeOK, RecordsAreOwned
  <2>5. \A q \in Requests : InTrail(q)' => Landed(q)
    <3>1. CoreInv'
      BY CoreStep
    <3> QED
      BY <2>1, <3>1 DEF InTrail, CoreInv, TypeOK, RecordsAreOwned
  <2>6. UNCHANGED Status
    BY <2>1, <2>2, <2>4, <2>5 DEF Status, InTrail
  <2>7. ASSUME NEW b \in BatchIds, roots[b] # None
        PROVE  UNCHANGED OwnUnder(b)
    <3>1. \A leaf \in roots[b] : leaf.req \in Requests /\ Landed(leaf.req)
      BY <2>7 DEF CoreInv, TypeOK, Root, Record, KeptInv, LeavesAreKept, Kept
    <3> QED
      BY <2>1, <2>2, <3>1 DEF OwnUnder
  <2>8. UNCHANGED Published
    BY <2>1, <2>7 DEF Published
  <2> QED
    BY <2>3, <2>6, <2>8
<1>6. ASSUME NEW r \in Requests, LandPolicyTx(r)
      PROVE  Trail!Next \/ UNCHANGED Trail!vars
  <2>1. /\ policyTx[r] = "pool" /\ policyTx' = [policyTx EXCEPT ![r] = "landed"]
        /\ UNCHANGED <<actionId, record, batchId, roots>>
    BY <1>6 DEF LandPolicyTx
  <2>2. UNCHANGED <<Status, Published>>
    BY <2>1, <1>2, <1>3
  <2>3. CASE Collide(r)
    <3>1. UNCHANGED Judged
      BY <2>1, <2>3 DEF Judged, Collide, CoreInv, TypeOK
    <3> QED
      BY <2>2, <3>1, <1>1
  <2>4. CASE ~Collide(r)
    <3>1. r \notin Judged /\ Judged' = Judged \cup {r}
      BY <2>1, <2>4 DEF Judged, Collide, CoreInv, TypeOK
    <3>2. Trail!Judge(r)
      BY <2>2, <3>1 DEF Trail!Judge, Judged, Status, Published
    <3> QED
      BY <3>2 DEF Trail!Next
  <2> QED
    BY <2>3, <2>4
<1>7. ASSUME NEW r \in Requests, RecordAudit(r)
      PROVE  Trail!Next \/ UNCHANGED Trail!vars
  <2> DEFINE a == actionId[r]
             leaf == [req |-> r, decision |-> Verdict(r)]
  <2>1. /\ pc[r] = "confirming" /\ policyTx[r] = "landed"
        /\ record' = [record EXCEPT ![a] = leaf]
        /\ batchId' = [batchId EXCEPT ![a] = None]
        /\ UNCHANGED <<actionId, policyTx, roots>>
    BY <1>7 DEF RecordAudit, AddLeaf
  <2>2. a \in ActionIds /\ record \in [ActionIds -> Record \cup {None}]
        /\ batchId \in [ActionIds -> BatchIds \cup {None}]
    BY <2>1 DEF CoreInv, TypeOK, CallsAreOrdered
  <2>3. UNCHANGED <<Judged, Published>>
    BY <2>1, <1>3, <1>4
  <2>4. leaf # None /\ leaf.req = r
    BY NoneIsNoRecord DEF Record, Decision, Verdict
  <2>5. ~InTrail(r)
    BY <2>1, <2>2 DEF InTrail, CoreInv, RecordsAreOwned
  <2>6. \A q \in Requests \ {r} : Status'[q] = Status[q]
    <3> SUFFICES ASSUME NEW q \in Requests \ {r} PROVE Status'[q] = Status[q]
      OBVIOUS
    <3>1. CASE actionId[q] = a
      BY <2>1, <3>1 DEF Status, InTrail, Collide
    <3>2. CASE actionId[q] # a
      BY <2>1, <2>2, <3>2 DEF Status, InTrail, Collide, CoreInv, TypeOK
    <3> QED
      BY <3>1, <3>2
  <2>7. CASE Collide(r)
    <3>1. UNCHANGED Status
      BY <2>1, <2>6, <2>7 DEF Status, InTrail, Collide
    <3> QED
      BY <2>3, <3>1, <1>1
  <2>8. CASE ~Collide(r)
    <3>1. r \in Judged /\ Status[r] = "absent"
      BY <2>1, <2>5, <2>8 DEF Judged, Status
    <3>2. InTrail(r)' /\ batchId'[actionId'[r]] = None
      <4> HIDE DEF leaf
      <4> QED
        BY <2>1, <2>2, <2>4, <2>8 DEF InTrail, Collide
    <3>3. Status' = [Status EXCEPT ![r] = "pending"]
      BY <2>6, <3>2 DEF Status
    <3>4. Trail!Record(r)
      BY <2>3, <3>1, <3>3 DEF Trail!Record, Judged, Status, Published
    <3> QED
      BY <3>4 DEF Trail!Next
  <2> QED
    BY <2>7, <2>8
<1>8. \A b \in BatchIds : roots[b] # None =>
        OwnUnder(b) \in SUBSET {r \in Requests : Status[r] # "absent"}
  <2> SUFFICES ASSUME NEW b \in BatchIds, roots[b] # None, NEW l \in roots[b], ~Collide(l.req)
               PROVE  l.req \in Requests /\ Status[l.req] # "absent"
    BY DEF OwnUnder
  <2>1. l.req \in Requests /\ Kept(l.req)
    BY DEF CoreInv, TypeOK, Root, Record, KeptInv, LeavesAreKept
  <2>2. InTrail(l.req)
    BY <2>1, LeavesAreInTrail
  <2> QED
    BY <2>1, <2>2 DEF Status
<1>9. ASSUME NEW b \in BatchIds, LandRoot(b)
      PROVE  Trail!Next \/ UNCHANGED Trail!vars
  <2>1. /\ rootTx[b] # None /\ roots[b] = None /\ b \in DOMAIN roots
        /\ roots' = [roots EXCEPT ![b] = rootTx[b]]
        /\ UNCHANGED <<actionId, policyTx, record, batchId>>
    BY <1>9 DEF LandRoot, CoreInv, TypeOK, RootsWrittenOnce
  <2>2. UNCHANGED <<Judged, Status>>
    BY <2>1, <1>2, <1>4
  <2>3. \A c \in BatchIds \ {b} : roots'[c] = roots[c] /\ OwnUnder(c)' = OwnUnder(c)
    BY <2>1 DEF OwnUnder, Collide
  <2>4. roots'[b] # None
    BY <2>1
  <2>5. Published' = (Published \cup {OwnUnder(b)'}) \ {{}}
    BY <2>1, <2>3, <2>4 DEF Published
  <2>6. CASE OwnUnder(b)' = {}
    <3>1. UNCHANGED Published
      BY <2>5, <2>6 DEF Published
    <3> QED
      BY <2>2, <3>1, <1>1
  <2>7. CASE OwnUnder(b)' # {}
    <3>1. PICK S : S = OwnUnder(b)'
      OBVIOUS
    <3>2. S # {} /\ Published' = Published \cup {S}
      BY <2>5, <2>7, <3>1 DEF Published
    <3>3. S \in SUBSET {r \in Requests : Status[r] # "absent"}
      <4>1. ASSUME NEW l \in rootTx[b], ~Collide(l.req)
            PROVE  l.req \in Requests /\ Status[l.req] # "absent"
        <5>1. l.req \in Requests /\ Kept(l.req)
          BY <2>1 DEF CoreInv, TypeOK, Root, Record, KeptInv, LeavesAreKept
        <5>2. InTrail(l.req)
          BY <4>1, <5>1, LeavesAreInTrail
        <5> QED
          BY <5>1, <5>2 DEF Status
      <4>2. S = {l.req : l \in {m \in rootTx[b] : ~Collide(m.req)}}
        BY <2>1, <3>1 DEF OwnUnder, Collide
      <4> QED
        BY <4>1, <4>2
    <3>4. Trail!Publish(S)
      BY <2>2, <3>2 DEF Trail!Publish, Judged, Status, Published
    <3> QED
      BY <3>3, <3>4 DEF Trail!Next, Trail!Recorded, Status
  <2> QED
    BY <2>6, <2>7
<1>10. ASSUME MarkAnchored
       PROVE  Trail!Next \/ UNCHANGED Trail!vars
  <2> DEFINE S == OwnUnder(flight.id)
  <2>1. /\ loop = Batcher /\ roots[flight.id] # None
        /\ batchId' = [a \in ActionIds |-> IF a \in flight.ids THEN flight.id ELSE batchId[a]]
        /\ UNCHANGED <<actionId, policyTx, record, roots>>
    BY <1>10 DEF MarkAnchored
  <2>2. flight.id \in BatchIds /\ flight.id # None /\ roots[flight.id] = flight.root
    BY <2>1 DEF CoreInv, FlightFrozen, ReadyBatch
  <2>3. UNCHANGED <<Judged, Published>>
    BY <2>1, <1>3, <1>4
  <2>4. ASSUME NEW r \in S
        PROVE  /\ r \in Requests /\ InTrail(r)
               /\ actionId[r] \in flight.ids /\ batchId[actionId[r]] = None
    <3>1. PICK l \in flight.root : l.req = r /\ ~Collide(l.req)
      BY <2>2 DEF OwnUnder
    <3>2. PICK a \in flight.ids : record[a] = l
      BY <2>1 DEF KeptInv, FlightIsExact
    <3>3. a \in ActionIds /\ record[a] # None /\ batchId[a] = None
      BY <2>1, <3>2 DEF CoreInv, FlightFrozen, ReadyBatch, Pending
    <3>4. r \in Requests /\ actionId[r] = a
      BY <3>1, <3>2, <3>3 DEF CoreInv, TypeOK, Record, RecordsAreOwned
    <3> QED
      BY <3>1, <3>2, <3>3, <3>4 DEF InTrail
  <2>5. ASSUME NEW r \in Requests, InTrail(r), actionId[r] \in flight.ids
        PROVE  r \in S
    <3>1. record[actionId[r]] \in flight.root
      BY <2>1, <2>5 DEF CoreInv, FlightFrozen
    <3> QED
      BY <2>2, <2>5, <3>1 DEF OwnUnder, InTrail
  <2>6. Status' = [r \in Requests |-> IF r \in S THEN "anchored" ELSE Status[r]]
    <3> HIDE DEF S
    <3>1. \A r \in Requests : InTrail(r)' <=> InTrail(r)
      BY <2>1 DEF InTrail, Collide
    <3>2. \A r \in Requests : InTrail(r) => actionId[r] \in ActionIds
      BY DEF InTrail, CoreInv, TypeOK
    <3>3. ASSUME NEW r \in S
          PROVE  Status'[r] = "anchored"
      BY <2>1, <2>2, <2>4, <3>1, <3>2 DEF Status
    <3>4. ASSUME NEW r \in Requests, r \notin S
          PROVE  Status'[r] = Status[r]
      BY <2>1, <2>5, <3>1, <3>2, <3>4 DEF Status
    <3>5. Status' = [r \in Requests |-> Status'[r]]
      BY DEF Status
    <3>6. \A r \in Requests : Status'[r] = IF r \in S THEN "anchored" ELSE Status[r]
      BY <3>3, <3>4
    <3> QED
      BY <3>5, <3>6
  <2>7. CASE S = {}
    <3>1. UNCHANGED Status
      BY <2>6, <2>7 DEF Status
    <3> QED
      BY <2>3, <3>1, <1>1
  <2>8. CASE S # {}
    <3>1. PICK T : T = S
      OBVIOUS
    <3>2. T \in Published /\ \A r \in T : Status[r] = "pending"
      BY <2>1, <2>2, <2>4, <2>8, <3>1 DEF Published, Status
    <3>3. Status' = [r \in Requests |-> IF r \in T THEN "anchored" ELSE Status[r]]
      BY <2>6, <3>1
    <3> HIDE DEF S
    <3>4. Trail!Anchor(T)
      BY <2>3, <3>2, <3>3 DEF Trail!Anchor, Judged, Status, Published
    <3>5. T \in SUBSET {r \in Requests : Status[r] # "absent"}
      BY <1>8, <2>1, <2>2, <3>1 DEF S
    <3> QED
      BY <3>4, <3>5 DEF Trail!Next, Trail!Recorded, Status
  <2> QED
    BY <2>7, <2>8
<1>11. ASSUME NEW r \in Requests, \/ Refuse(r) \/ PipelineFails(r) \/ CheckPolicy(r)
                                  \/ ConfirmFails(r) \/ Respond(r) \/ RespondFails(r)
                                  \/ DropPolicyTx(r)
       PROVE  UNCHANGED Trail!vars
  <2>1. /\ UNCHANGED <<actionId, record, batchId, roots>>
        /\ \A q \in Requests : policyTx'[q] = "landed" <=> policyTx[q] = "landed"
    BY <1>11 DEF Refuse, PipelineFails, CheckPolicy, ConfirmFails, Respond, RespondFails,
       DropPolicyTx, CoreInv, TypeOK, CallsAreOrdered
  <2> QED
    BY <2>1, <1>1, <1>2, <1>3, <1>4
<1>12. ASSUME \/ \E b \in BatchIds : FlushBatch(b) \/ DropRoot(b)
              \/ AnchorFails \/ Crash \/ Restart \/ UNCHANGED vars
       PROVE  UNCHANGED Trail!vars
  <2>1. UNCHANGED <<actionId, policyTx, record, batchId, roots>>
    BY <1>12 DEF FlushBatch, DropRoot, AnchorFails, Crash, Restart, vars
  <2> QED
    BY <2>1, <1>1, <1>2, <1>3, <1>4
<1> QED
  BY <1>1, <1>5, <1>6, <1>7, <1>9, <1>10, <1>11, <1>12 DEF Next, Handler, Anchoring, Ledger

\* The pipeline keeps AuditTrail's promise for every call with an action id to itself:
\* judged at most once, in the trail only when judged and then for good, and anchored
\* together with exactly the calls its published root covers.
THEOREM TrailIsKept == Spec => KeepsTrail
<1>1. IndInv /\ [Next]_vars => [Trail!Next]_(Trail!vars)
  BY TrailStep
<1> QED
  BY <1>1, TrailStart, Invariance, PTL DEF Spec, KeepsTrail, Trail!Spec
=============================================================================
