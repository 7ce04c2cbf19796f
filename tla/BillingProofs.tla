--------------------------- MODULE BillingProofs ---------------------------
(***************************************************************************)
(* For any number of decisions, attempts and crashes: what module Billing  *)
(* claims of charges, results and duplicates.  IndInv is inductive (lemmas *)
(* Start and Step); the theorems follow from it.                           *)
(***************************************************************************)
EXTENDS Billing, TLAPS

\* A call is a decision and the number of the attempt.
LEMMA CallsArePairs ==
  ASSUME NEW c \in Calls
  PROVE  c[1] \in Decisions /\ c[2] \in 1..MaxAttempts /\ c = <<c[1], c[2]>>
BY DEF Calls

\* Once an agent has asked, its current call is a call.
LEMMA CurrentIsACall ==
  ASSUME TypeOK, NEW d \in Decisions
  PROVE  /\ attempt[d] \in 0..MaxAttempts
         /\ attempt[d] # 0 => Current(d) \in Calls
BY BillingAssumption DEF TypeOK, Calls, Current

\* Every step of an agent, the gate, a handler or the ledger, and a crash, preserves
\* the inductive invariant.
LEMMA Step == IndInv /\ [Next]_vars => IndInv'
<1> SUFFICES ASSUME IndInv, [Next]_vars PROVE IndInv'
  OBVIOUS
<1> USE BillingAssumption DEF IndInv, TypeOK, clients, ledger, process
<1>1. ASSUME NEW d \in Decisions, Ask(d)
      PROVE  IndInv'
  <2> USE <1>1 DEF Ask
  <2> DEFINE next == <<d, attempt[d] + 1>>
  <2>0. /\ attempt[d] \in 0..MaxAttempts /\ (client[d] # "idle" => Current(d) \in Calls)
        /\ attempt[d] < MaxAttempts
        /\ attempt[d] # 0 => seen[Current(d)] \notin {"none", "200"}
    BY CurrentIsACall DEF CallsAreSerial
  <2>5. next \in Calls /\ next[1] = d /\ next[2] = attempt[d] + 1
    BY <2>0 DEF Calls
  <2>6. stage[next] = "none" /\ seen[next] = "none"
    BY <2>0, <2>5 DEF CallsAreSerial
  <2>7. /\ attempt' = [attempt EXCEPT ![d] = attempt[d] + 1]
        /\ stage' = [stage EXCEPT ![next] = IF gated /\ d \in PayPerCall THEN "asked" ELSE "auditing"]
    BY Zenon
  <2> HIDE DEF next
  <2>11. \A c \in Calls : c # next => stage'[c] = stage[c]
    BY <2>5, <2>7
  <2>8. attempt' \in [Decisions -> 0..MaxAttempts]
    BY <2>0, <2>7
  <2>9. stage' \in [Calls -> Stages]
    BY <2>7 DEF Stages
  <2>10. client' \in [Decisions -> {"idle", "waiting", "done", "failed"}]
    OBVIOUS
  <2>1. TypeOK'
    BY <2>8, <2>9, <2>10
  <2>2. StagesAreOrdered'
    BY <2>5, <2>6, <2>7 DEF StagesAreOrdered, Gated
  <2>3. StatusesAreTrue'
    BY <2>5, <2>6, <2>7 DEF StatusesAreTrue, Gated
  <2>4. CallsAreSerial'
    <3>1. ASSUME NEW c \in Calls
          PROVE  /\ c[2] > attempt'[c[1]] => stage'[c] = "none" /\ seen'[c] = "none"
                 /\ c[2] < attempt'[c[1]] => seen'[c] \notin {"none", "200"}
                 /\ seen'[c] \notin {"none", "timeout"} =>
                      stage'[c] = "answered" /\ status'[c] = seen'[c]
      <4>1. c # next => c[1] # d \/ c[2] # attempt[d] + 1
        BY CallsArePairs DEF next
      <4>2. /\ c[2] \in Nat /\ attempt[d] \in Nat
            /\ attempt'[c[1]] = IF c[1] = d THEN attempt[d] + 1 ELSE attempt[c[1]]
        BY <2>0, <2>7, CallsArePairs
      <4>3. CASE c = next
        BY <2>0, <2>5, <2>6, <4>2, <4>3
      <4>4. CASE c # next /\ c[1] = d
        <5>1. c[2] # attempt[d] + 1
          BY <4>1, <4>4
        <5>2. c[2] = attempt[d] => c = Current(d) /\ attempt[d] # 0
          BY <4>4, CallsArePairs, BillingAssumption DEF Current
        <5> QED
          BY <2>0, <2>11, <4>2, <4>4, <5>1, <5>2 DEF CallsAreSerial
      <4>5. CASE c # next /\ c[1] # d
        BY <2>11, <4>2, <4>5 DEF CallsAreSerial
      <4> QED
        BY <4>3, <4>4, <4>5
    <3>2. ASSUME NEW e \in Decisions
          PROVE  /\ client'[e] = "idle" <=> attempt'[e] = 0
                 /\ client'[e] = "waiting" => seen'[Current(e)'] = "none"
                 /\ client'[e] = "done" => seen'[Current(e)'] = "200"
                 /\ client'[e] = "failed" => seen'[Current(e)'] \notin {"none", "200"}
      <4>1. CASE e = d
        BY <2>0, <2>5, <2>6, <2>7, <4>1 DEF CallsAreSerial, StatusesAreTrue, Current, Statuses
      <4>2. CASE e # d
        <5>1. Current(e)' = Current(e) /\ Current(e) # Current(d)
          BY <4>2 DEF Current
        <5> QED
          BY <4>2, <5>1, <2>7 DEF CallsAreSerial
      <4> QED
        BY <4>1, <4>2
    <3> QED
      BY <3>1, <3>2 DEF CallsAreSerial
  <2> QED
    BY <2>1, <2>2, <2>3, <2>4
<1>2. ASSUME NEW d \in Decisions, Pay(d)
      PROVE  IndInv'
  <2> USE <1>2 DEF Pay
  <2>0. attempt[d] \in 0..MaxAttempts /\ (client[d] # "idle" => Current(d) \in Calls)
    BY CurrentIsACall DEF CallsAreSerial
  <2>1. TypeOK'
    BY <2>0, CallsArePairs DEF Stages, Statuses, Payments, Current
  <2>5. /\ Current(d) \in Calls
        /\ stage[Current(d)] = "answered" /\ status[Current(d)] = "402"
        /\ payment[Current(d)] = "none"
        /\ payment' = [payment EXCEPT ![Current(d)] = "signed"]
        /\ stage' = [stage EXCEPT ![Current(d)] = "paid"]
    BY <2>0 DEF CallsAreSerial
  <2>2. StagesAreOrdered'
    BY <2>5 DEF StagesAreOrdered, StatusesAreTrue, Gated
  <2>3. StatusesAreTrue'
    BY <2>0, CallsArePairs DEF StatusesAreTrue, StagesAreOrdered, Gated, CallsAreSerial, Current
  <2>4. CallsAreSerial'
    <3>1. ASSUME NEW c \in Calls
          PROVE  /\ c[2] > attempt'[c[1]] => stage'[c] = "none" /\ seen'[c] = "none"
                 /\ c[2] < attempt'[c[1]] => seen'[c] \notin {"none", "200"}
                 /\ seen'[c] \notin {"none", "timeout"} =>
                      stage'[c] = "answered" /\ status'[c] = seen'[c]
      BY <2>0, CallsArePairs DEF CallsAreSerial, StagesAreOrdered, Current, Statuses
    <3>2. ASSUME NEW e \in Decisions
          PROVE  /\ client'[e] = "idle" <=> attempt'[e] = 0
                 /\ client'[e] = "waiting" => seen'[Current(e)'] = "none"
                 /\ client'[e] = "done" => seen'[Current(e)'] = "200"
                 /\ client'[e] = "failed" => seen'[Current(e)'] \notin {"none", "200"}
      <4>1. CASE e = d
        BY <2>0, <4>1 DEF CallsAreSerial, StatusesAreTrue, Current, Statuses
      <4>2. CASE e # d
        <5>1. Current(e)' = Current(e) /\ Current(e) # Current(d)
          BY <4>2 DEF Current
        <5> QED
          BY <4>2, <5>1 DEF CallsAreSerial
      <4> QED
        BY <4>1, <4>2
    <3> QED
      BY <3>1, <3>2 DEF CallsAreSerial
  <2> QED
    BY <2>1, <2>2, <2>3, <2>4
<1>3. ASSUME NEW d \in Decisions, GetsAnswer(d)
      PROVE  IndInv'
  <2> USE <1>3 DEF GetsAnswer
  <2>0. attempt[d] \in 0..MaxAttempts /\ (client[d] # "idle" => Current(d) \in Calls)
    BY CurrentIsACall DEF CallsAreSerial
  <2>1. TypeOK'
    BY <2>0, CallsArePairs DEF Stages, Statuses, Payments, Current
  <2>2. StagesAreOrdered'
    BY <2>0, CallsArePairs DEF StagesAreOrdered, Gated, CallsAreSerial, Current
  <2>3. StatusesAreTrue'
    BY <2>0, CallsArePairs DEF StatusesAreTrue, StagesAreOrdered, Gated, CallsAreSerial, Current
  <2>4. CallsAreSerial'
    <3>1. ASSUME NEW c \in Calls
          PROVE  /\ c[2] > attempt'[c[1]] => stage'[c] = "none" /\ seen'[c] = "none"
                 /\ c[2] < attempt'[c[1]] => seen'[c] \notin {"none", "200"}
                 /\ seen'[c] \notin {"none", "timeout"} =>
                      stage'[c] = "answered" /\ status'[c] = seen'[c]
      BY <2>0, CallsArePairs DEF CallsAreSerial, StagesAreOrdered, Current, Statuses
    <3>2. ASSUME NEW e \in Decisions
          PROVE  /\ client'[e] = "idle" <=> attempt'[e] = 0
                 /\ client'[e] = "waiting" => seen'[Current(e)'] = "none"
                 /\ client'[e] = "done" => seen'[Current(e)'] = "200"
                 /\ client'[e] = "failed" => seen'[Current(e)'] \notin {"none", "200"}
      <4>1. CASE e = d
        BY <2>0, <4>1 DEF CallsAreSerial, StatusesAreTrue, Current, Statuses
      <4>2. CASE e # d
        <5>1. Current(e)' = Current(e) /\ Current(e) # Current(d)
          BY <4>2 DEF Current
        <5> QED
          BY <4>2, <5>1 DEF CallsAreSerial
      <4> QED
        BY <4>1, <4>2
    <3> QED
      BY <3>1, <3>2 DEF CallsAreSerial
  <2> QED
    BY <2>1, <2>2, <2>3, <2>4
<1>4. ASSUME NEW d \in Decisions, TimesOut(d)
      PROVE  IndInv'
  <2> USE <1>4 DEF TimesOut
  <2>0. attempt[d] \in 0..MaxAttempts /\ (client[d] # "idle" => Current(d) \in Calls)
    BY CurrentIsACall DEF CallsAreSerial
  <2>1. TypeOK'
    BY <2>0, CallsArePairs DEF Stages, Statuses, Payments, Current
  <2>2. StagesAreOrdered'
    BY <2>0, CallsArePairs DEF StagesAreOrdered, Gated, CallsAreSerial, Current
  <2>3. StatusesAreTrue'
    BY <2>0, CallsArePairs DEF StatusesAreTrue, StagesAreOrdered, Gated, CallsAreSerial, Current
  <2>4. CallsAreSerial'
    <3>1. ASSUME NEW c \in Calls
          PROVE  /\ c[2] > attempt'[c[1]] => stage'[c] = "none" /\ seen'[c] = "none"
                 /\ c[2] < attempt'[c[1]] => seen'[c] \notin {"none", "200"}
                 /\ seen'[c] \notin {"none", "timeout"} =>
                      stage'[c] = "answered" /\ status'[c] = seen'[c]
      BY <2>0, CallsArePairs DEF CallsAreSerial, StagesAreOrdered, Current, Statuses
    <3>2. ASSUME NEW e \in Decisions
          PROVE  /\ client'[e] = "idle" <=> attempt'[e] = 0
                 /\ client'[e] = "waiting" => seen'[Current(e)'] = "none"
                 /\ client'[e] = "done" => seen'[Current(e)'] = "200"
                 /\ client'[e] = "failed" => seen'[Current(e)'] \notin {"none", "200"}
      <4>1. CASE e = d
        BY <2>0, <4>1 DEF CallsAreSerial, StatusesAreTrue, Current, Statuses
      <4>2. CASE e # d
        <5>1. Current(e)' = Current(e) /\ Current(e) # Current(d)
          BY <4>2 DEF Current
        <5> QED
          BY <4>2, <5>1 DEF CallsAreSerial
      <4> QED
        BY <4>1, <4>2
    <3> QED
      BY <3>1, <3>2 DEF CallsAreSerial
  <2> QED
    BY <2>1, <2>2, <2>3, <2>4
<1>5. ASSUME NEW c \in Calls, Challenge(c)
      PROVE  IndInv'
  <2> USE <1>5 DEF Challenge, Answer
  <2>1. TypeOK'
    BY CallsArePairs DEF Stages, Statuses, Payments
  <2>2. StagesAreOrdered'
    BY CallsArePairs DEF StagesAreOrdered, Gated
  <2>3. StatusesAreTrue'
    BY CallsArePairs DEF StatusesAreTrue, StagesAreOrdered, Gated
  <2>4. CallsAreSerial'
    BY CallsArePairs DEF CallsAreSerial, StagesAreOrdered, Current
  <2> QED
    BY <2>1, <2>2, <2>3, <2>4
<1>6. ASSUME NEW c \in Calls, VerifyPayment(c)
      PROVE  IndInv'
  <2> USE <1>6 DEF VerifyPayment
  <2>1. TypeOK'
    BY CallsArePairs DEF Stages, Statuses, Payments
  <2>2. StagesAreOrdered'
    BY CallsArePairs DEF StagesAreOrdered, Gated
  <2>3. StatusesAreTrue'
    BY CallsArePairs DEF StatusesAreTrue, StagesAreOrdered, Gated
  <2>4. CallsAreSerial'
    BY CallsArePairs DEF CallsAreSerial, StagesAreOrdered, Current
  <2> QED
    BY <2>1, <2>2, <2>3, <2>4
<1>7. ASSUME NEW c \in Calls, RefusePayment(c)
      PROVE  IndInv'
  <2> USE <1>7 DEF RefusePayment, Answer
  <2>1. TypeOK'
    BY CallsArePairs DEF Stages, Statuses, Payments
  <2>2. StagesAreOrdered'
    BY CallsArePairs DEF StagesAreOrdered, Gated
  <2>3. StatusesAreTrue'
    BY CallsArePairs DEF StatusesAreTrue, StagesAreOrdered, Gated
  <2>4. CallsAreSerial'
    BY CallsArePairs DEF CallsAreSerial, StagesAreOrdered, Current
  <2> QED
    BY <2>1, <2>2, <2>3, <2>4
<1>8. ASSUME NEW c \in Calls, Settle(c)
      PROVE  IndInv'
  <2> USE <1>8 DEF Settle
  <2>1. TypeOK'
    BY CallsArePairs DEF Stages, Statuses, Payments
  <2>2. StagesAreOrdered'
    BY CallsArePairs DEF StagesAreOrdered, Gated
  <2>3. StatusesAreTrue'
    BY CallsArePairs DEF StatusesAreTrue, StagesAreOrdered, Gated
  <2>4. CallsAreSerial'
    BY CallsArePairs DEF CallsAreSerial, StagesAreOrdered, Current
  <2> QED
    BY <2>1, <2>2, <2>3, <2>4
<1>9. ASSUME NEW c \in Calls, LandPayment(c)
      PROVE  IndInv'
  <2> USE <1>9 DEF LandPayment
  <2>1. TypeOK'
    BY CallsArePairs DEF Stages, Statuses, Payments
  <2>2. StagesAreOrdered'
    BY CallsArePairs DEF StagesAreOrdered, Gated
  <2>3. StatusesAreTrue'
    BY CallsArePairs DEF StatusesAreTrue, StagesAreOrdered, Gated
  <2>4. CallsAreSerial'
    BY CallsArePairs DEF CallsAreSerial, StagesAreOrdered, Current
  <2> QED
    BY <2>1, <2>2, <2>3, <2>4
<1>10. ASSUME NEW c \in Calls, VoidPayment(c)
      PROVE  IndInv'
  <2> USE <1>10 DEF VoidPayment
  <2>1. TypeOK'
    BY CallsArePairs DEF Stages, Statuses, Payments
  <2>2. StagesAreOrdered'
    BY CallsArePairs DEF StagesAreOrdered, Gated
  <2>3. StatusesAreTrue'
    BY CallsArePairs DEF StatusesAreTrue, StagesAreOrdered, Gated
  <2>4. CallsAreSerial'
    BY CallsArePairs DEF CallsAreSerial, StagesAreOrdered, Current
  <2> QED
    BY <2>1, <2>2, <2>3, <2>4
<1>11. ASSUME NEW c \in Calls, Settled(c)
      PROVE  IndInv'
  <2> USE <1>11 DEF Settled, Answer
  <2>1. TypeOK'
    BY CallsArePairs DEF Stages, Statuses, Payments
  <2>2. StagesAreOrdered'
    BY CallsArePairs DEF StagesAreOrdered, Gated
  <2>3. StatusesAreTrue'
    BY CallsArePairs DEF StatusesAreTrue, StagesAreOrdered, Gated
  <2>4. CallsAreSerial'
    BY CallsArePairs DEF CallsAreSerial, StagesAreOrdered, Current
  <2> QED
    BY <2>1, <2>2, <2>3, <2>4
<1>12. ASSUME NEW c \in Calls, SettleFails(c)
      PROVE  IndInv'
  <2> USE <1>12 DEF SettleFails, Answer
  <2>1. TypeOK'
    BY CallsArePairs DEF Stages, Statuses, Payments
  <2>2. StagesAreOrdered'
    BY CallsArePairs DEF StagesAreOrdered, Gated
  <2>3. StatusesAreTrue'
    BY CallsArePairs DEF StatusesAreTrue, StagesAreOrdered, Gated
  <2>4. CallsAreSerial'
    BY CallsArePairs DEF CallsAreSerial, StagesAreOrdered, Current
  <2> QED
    BY <2>1, <2>2, <2>3, <2>4
<1>13. ASSUME NEW c \in Calls, Refuse(c)
      PROVE  IndInv'
  <2> USE <1>13 DEF Refuse, Answer
  <2>1. TypeOK'
    BY CallsArePairs DEF Stages, Statuses, Payments
  <2>2. StagesAreOrdered'
    BY CallsArePairs DEF StagesAreOrdered, Gated
  <2>3. StatusesAreTrue'
    BY CallsArePairs DEF StatusesAreTrue, StagesAreOrdered, Gated
  <2>4. CallsAreSerial'
    BY CallsArePairs DEF CallsAreSerial, StagesAreOrdered, Current
  <2> QED
    BY <2>1, <2>2, <2>3, <2>4
<1>14. ASSUME NEW c \in Calls, AuditFails(c)
      PROVE  IndInv'
  <2> USE <1>14 DEF AuditFails, Answer
  <2>1. TypeOK'
    BY CallsArePairs DEF Stages, Statuses, Payments
  <2>2. StagesAreOrdered'
    BY CallsArePairs DEF StagesAreOrdered, Gated
  <2>3. StatusesAreTrue'
    BY CallsArePairs DEF StatusesAreTrue, StagesAreOrdered, Gated
  <2>4. CallsAreSerial'
    BY CallsArePairs DEF CallsAreSerial, StagesAreOrdered, Current
  <2> QED
    BY <2>1, <2>2, <2>3, <2>4
<1>15. ASSUME NEW c \in Calls, RecordAudit(c)
      PROVE  IndInv'
  <2> USE <1>15 DEF RecordAudit
  <2>1. TypeOK'
    BY CallsArePairs DEF Stages, Statuses, Payments
  <2>2. StagesAreOrdered'
    BY CallsArePairs DEF StagesAreOrdered, Gated
  <2>3. StatusesAreTrue'
    BY CallsArePairs DEF StatusesAreTrue, StagesAreOrdered, Gated
  <2>4. CallsAreSerial'
    BY CallsArePairs DEF CallsAreSerial, StagesAreOrdered, Current
  <2> QED
    BY <2>1, <2>2, <2>3, <2>4
<1>16. ASSUME NEW c \in Calls, RespondFails(c)
      PROVE  IndInv'
  <2> USE <1>16 DEF RespondFails, Answer
  <2>1. TypeOK'
    BY CallsArePairs DEF Stages, Statuses, Payments
  <2>2. StagesAreOrdered'
    BY CallsArePairs DEF StagesAreOrdered, Gated
  <2>3. StatusesAreTrue'
    BY CallsArePairs DEF StatusesAreTrue, StagesAreOrdered, Gated
  <2>4. CallsAreSerial'
    BY CallsArePairs DEF CallsAreSerial, StagesAreOrdered, Current
  <2> QED
    BY <2>1, <2>2, <2>3, <2>4
<1>17. ASSUME NEW c \in Calls, Respond(c)
      PROVE  IndInv'
  <2> USE <1>17 DEF Respond, Answer
  <2>1. TypeOK'
    BY CallsArePairs DEF Stages, Statuses, Payments
  <2>2. StagesAreOrdered'
    BY CallsArePairs DEF StagesAreOrdered, Gated
  <2>3. StatusesAreTrue'
    BY CallsArePairs DEF StatusesAreTrue, StagesAreOrdered, Gated
  <2>4. CallsAreSerial'
    BY CallsArePairs DEF CallsAreSerial, StagesAreOrdered, Current
  <2> QED
    BY <2>1, <2>2, <2>3, <2>4
<1>18. ASSUME Crash
      PROVE  IndInv'
  <2> USE <1>18 DEF Crash
  <2>1. TypeOK'
    BY CallsArePairs DEF Stages, Statuses, Payments, Working
  <2>2. StagesAreOrdered'
    BY CallsArePairs DEF StagesAreOrdered, Gated, Working
  <2>3. StatusesAreTrue'
    BY CallsArePairs DEF StatusesAreTrue, StagesAreOrdered, Gated, Working
  <2>4. CallsAreSerial'
    BY CallsArePairs DEF CallsAreSerial, StagesAreOrdered, Current, Working
  <2> QED
    BY <2>1, <2>2, <2>3, <2>4
<1>19. CASE UNCHANGED vars
  BY <1>19 DEF vars, Gated, StagesAreOrdered, StatusesAreTrue, CallsAreSerial, Current
<1> QED
  BY <1>1, <1>2, <1>3, <1>4, <1>5, <1>6, <1>7, <1>8, <1>9, <1>10, <1>11, <1>12, <1>13, <1>14, <1>15, <1>16, <1>17, <1>18, <1>19 DEF Next, Agent, Gate, Handler

-----------------------------------------------------------------------------
(* The theorems *)

\* Before anybody has asked, the inductive invariant holds.
LEMMA Start == Init => IndInv
BY BillingAssumption, CallsArePairs
   DEF Init, IndInv, TypeOK, Stages, Statuses, Payments, StagesAreOrdered,
       StatusesAreTrue, CallsAreSerial, Calls, Current, Gated

\* Client, gate, handler and payment of a call keep in step, whatever times out,
\* fails or crashes.
THEOREM Invariance == Spec => []IndInv
BY Start, Step, PTL DEF Spec

\* No payment is handed over before the audit is on record, and an agent that was told
\* its call failed (400, 500) is not charged for it.
THEOREM ChargesEarned == Spec => []ChargesAreEarned
<1>1. IndInv => ChargesAreEarned
  <2> SUFFICES ASSUME IndInv, NEW c \in Calls
               PROVE  /\ payment[c] \in {"sent", "settled"} =>
                           c \in recorded /\ seen[c] \notin {"400", "500"}
                      /\ seen[c] = "400" => c \notin recorded \cup receipts
    BY DEF ChargesAreEarned
  <2>1. stage[c] \in Stages /\ payment[c] \in Payments
    BY DEF IndInv, TypeOK
  <2> QED
    BY <2>1 DEF IndInv, StagesAreOrdered, StatusesAreTrue, CallsAreSerial, Stages, Payments
<1> QED
  BY <1>1, Invariance, PTL

\* What the SDK returns is an audit on record, paid for exactly if the client is in x402
\* mode and the service has installed its gate.
THEOREM ResultsRecordedAndPaid == Spec => []ResultIsRecordedAndPaid
<1>1. IndInv => ResultIsRecordedAndPaid
  <2> SUFFICES ASSUME IndInv, NEW d \in Decisions, client[d] = "done"
               PROVE  /\ Current(d) \in recorded
                      /\ payment[Current(d)] =
                           IF gated /\ d \in PayPerCall THEN "settled" ELSE "none"
    BY DEF ResultIsRecordedAndPaid
  <2>1. Current(d) \in Calls /\ Current(d)[1] = d
    BY CurrentIsACall DEF IndInv, CallsAreSerial, Current
  <2>2. stage[Current(d)] = "answered" /\ status[Current(d)] = "200"
    BY <2>1 DEF IndInv, CallsAreSerial
  <2> QED
    BY <2>1, <2>2 DEF IndInv, StagesAreOrdered, StatusesAreTrue, Gated
<1> QED
  BY <1>1, Invariance, PTL

\* A decision is audited twice only when the agent did not learn that the earlier call
\* had gone through.
THEOREM DuplicatesExplained == Spec => []DuplicatesAreExplained
<1>1. IndInv => DuplicatesAreExplained
  <2> SUFFICES ASSUME IndInv, NEW c \in recorded \cup receipts,
                      NEW later \in recorded \cup receipts, c[1] = later[1], c[2] < later[2]
               PROVE  seen[c] \in {"timeout", "lost", "500", "402"}
    BY DEF DuplicatesAreExplained
  <2>1. c \in Calls /\ later \in Calls
    BY DEF IndInv, TypeOK
  <2>2. stage[later] # "none"
    BY <2>1 DEF IndInv, StagesAreOrdered
  <2>3. c[2] < attempt[c[1]]
    BY <2>1, <2>2, CallsArePairs, CurrentIsACall, BillingAssumption DEF IndInv, CallsAreSerial
  <2>4. seen[c] \notin {"none", "200"} /\ seen[c] \in Statuses \cup {"timeout"}
    BY <2>1, <2>3 DEF IndInv, CallsAreSerial, TypeOK
  <2>5. seen[c] # "400"
    BY <2>1 DEF IndInv, StatusesAreTrue, CallsAreSerial
  <2> QED
    BY <2>4, <2>5 DEF Statuses
<1> QED
  BY <1>1, Invariance, PTL
=============================================================================
