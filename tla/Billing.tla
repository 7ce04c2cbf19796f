------------------------------ MODULE Billing ------------------------------
(***************************************************************************)
(* A decision on its way from an agent to the audit service and back: the  *)
(* SDK (agentaudit/client.py), an agent or a script that asks again when a *)
(* call failed (scripts/soak_test.py), the x402 gate (api/x402_gate.py)    *)
(* and the ingest handlers of api/main.py.                                 *)
(*                                                                         *)
(* Client and server fail independently: the client stops waiting after    *)
(* its timeout while the handler it called goes on, and nothing in the     *)
(* body tells the server that two calls are about one decision.            *)
(*                                                                         *)
(* External, modelled from its use: the x402 middleware answers 402 with   *)
(* its price to a call without a payment, has the facilitator verify the   *)
(* signed payment, runs the handler, has the payment settled if the answer *)
(* is 2xx, and answers 402 instead if settling failed.  A payment handed   *)
(* over may land although the facilitator's answer was lost.               *)
(*                                                                         *)
(* What happens inside the audit is module AuditPipeline; here a handler   *)
(* ends with or without a record, with or without a receipt.               *)
(***************************************************************************)
EXTENDS Naturals

CONSTANTS
  Decisions,       \* the decisions agents want audited
  PayPerCall       \* those of clients in x402 mode; the others have an API key

CONSTANTS MaxAttempts, MaxCrashes      \* bounds

ASSUME BillingAssumption == /\ PayPerCall \subseteq Decisions
                            /\ MaxAttempts \in Nat \ {0}
                            /\ MaxCrashes \in Nat

Calls == Decisions \X (1..MaxAttempts)

VARIABLES
  client,          \* per decision, what its agent is at
  attempt,         \* per decision, the number of its current call
  seen,            \* per call, what the client made of it: a status or "timeout"
  stage,           \* per call, where the server is with it
  status,          \* per call, the status the server answered with
  payment,         \* per call, the payment transaction
  receipts,        \* the calls an AACR was minted for
  recorded,        \* the calls with a record in the batch store
  gated,           \* X402_ENABLED: is the gate installed
  crashes          \* so far (bound)

clients == <<client, attempt, seen>>
ledger  == <<payment, receipts>>
process == <<gated, crashes>>
vars    == <<clients, stage, status, ledger, recorded, process>>

Stages   == {"none", "asked", "paid", "auditing", "recorded", "settling", "answered"}
Statuses == {"none", "200", "400", "402", "500", "lost"}
Payments == {"none", "signed", "sent", "settled", "void"}

Current(d) == <<d, attempt[d]>>

\* A call the gate charges for.
Gated(c) == gated /\ c[1] \in PayPerCall

Answer(c, code) ==
  /\ stage' = [stage EXCEPT ![c] = "answered"]
  /\ status' = [status EXCEPT ![c] = code]

-----------------------------------------------------------------------------
(* The client *)

\* audit(): the first call for a decision, or one more after a failure.  Where no gate
\* is installed the route of x402 mode leads to the handler like the other one.
AskMutant(d) ==
  /\ client[d] # "waiting" /\ attempt[d] < MaxAttempts
  /\ attempt' = [attempt EXCEPT ![d] = @ + 1]
  /\ client' = [client EXCEPT ![d] = "waiting"]
  /\ stage' = [stage EXCEPT ![<<d, attempt[d] + 1>>] =
                 IF gated /\ d \in PayPerCall THEN "asked" ELSE "auditing"]
  /\ UNCHANGED <<seen, status, ledger, recorded, process>>

Ask(d) ==
  /\ \/ client[d] = "idle"
     \/ client[d] = "failed" /\ attempt[d] < MaxAttempts
  /\ attempt' = [attempt EXCEPT ![d] = @ + 1]
  /\ client' = [client EXCEPT ![d] = "waiting"]
  /\ stage' = [stage EXCEPT ![<<d, attempt[d] + 1>>] =
                 IF gated /\ d \in PayPerCall THEN "asked" ELSE "auditing"]
  /\ UNCHANGED <<seen, status, ledger, recorded, process>>

\* The session signs a payment for the price it was told and posts once more.
Pay(d) ==
  LET c == Current(d)
  IN  /\ client[d] = "waiting"
      /\ stage[c] = "answered" /\ status[c] = "402" /\ payment[c] = "none"
      /\ payment' = [payment EXCEPT ![c] = "signed"]
      /\ stage' = [stage EXCEPT ![c] = "paid"]
      /\ status' = [status EXCEPT ![c] = "none"]
      /\ UNCHANGED <<clients, receipts, recorded, process>>

\* raise_for_status: only a 2xx is a result.
GetsAnswer(d) ==
  LET c == Current(d)
  IN  /\ client[d] = "waiting"
      /\ stage[c] = "answered"
      /\ ~(status[c] = "402" /\ payment[c] = "none")
      /\ seen' = [seen EXCEPT ![c] = status[c]]
      /\ client' = [client EXCEPT ![d] = IF status[c] = "200" THEN "done" ELSE "failed"]
      /\ UNCHANGED <<attempt, stage, status, ledger, recorded, process>>

\* No answer within the timeout, or the connection broke: the server goes on.
TimesOut(d) ==
  /\ client[d] = "waiting"
  /\ seen' = [seen EXCEPT ![Current(d)] = "timeout"]
  /\ client' = [client EXCEPT ![d] = "failed"]
  /\ UNCHANGED <<attempt, stage, status, ledger, recorded, process>>

-----------------------------------------------------------------------------
(* The gate, before the handler *)

\* No payment with the call: 402 and the price.
Challenge(c) ==
  /\ stage[c] = "asked"
  /\ Answer(c, "402")
  /\ UNCHANGED <<clients, ledger, recorded, process>>

\* The facilitator finds the payment in order ...
VerifyPaymentMutant(c) ==
  /\ stage[c] = "paid"
  /\ stage' = [stage EXCEPT ![c] = "auditing"]
  /\ payment' = [payment EXCEPT ![c] = "sent"]
  /\ UNCHANGED <<clients, status, receipts, recorded, process>>

VerifyPayment(c) ==
  /\ stage[c] = "paid"
  /\ stage' = [stage EXCEPT ![c] = "auditing"]
  /\ UNCHANGED <<clients, status, ledger, recorded, process>>

\* ... or it does not, or cannot be asked.
RefusePayment(c) ==
  /\ stage[c] = "paid"
  /\ Answer(c, "402")
  /\ UNCHANGED <<clients, ledger, recorded, process>>

-----------------------------------------------------------------------------
(* The handler *)

\* Unknown key or org, no rules for the agent (401, 404, 400).
Refuse(c) ==
  /\ stage[c] = "auditing"
  /\ Answer(c, "400")
  /\ UNCHANGED <<clients, ledger, recorded, process>>

\* The pipeline raised; its policy transaction may land all the same.
AuditFails(c) ==
  /\ stage[c] = "auditing"
  /\ receipts' \in {receipts, receipts \cup {c}}
  /\ Answer(c, "500")
  /\ UNCHANGED <<clients, payment, recorded, process>>

\* The policy check landed, with or without a receipt, and the record is stored.
RecordAudit(c) ==
  /\ stage[c] = "auditing"
  /\ receipts' \in {receipts, receipts \cup {c}}
  /\ recorded' = recorded \cup {c}
  /\ stage' = [stage EXCEPT ![c] = "recorded"]
  /\ UNCHANGED <<clients, status, payment, process>>

\* The handler's entry in recent_audits reads the tenant store, and that raised.
RespondFails(c) ==
  /\ stage[c] = "recorded"
  /\ Answer(c, "500")
  /\ UNCHANGED <<clients, ledger, recorded, process>>

\* 200; the gate, if it is there, settles before it lets the answer out.
RespondMutant(c) ==
  /\ stage[c] = "recorded"
  /\ Answer(c, "200")
  /\ UNCHANGED <<clients, ledger, recorded, process>>

Respond(c) ==
  /\ stage[c] = "recorded" /\ ~Gated(c)
  /\ Answer(c, "200")
  /\ UNCHANGED <<clients, ledger, recorded, process>>

-----------------------------------------------------------------------------
(* The gate, after the handler *)

\* The facilitator is handed the payment to submit.
Settle(c) ==
  /\ stage[c] = "recorded" /\ Gated(c)
  /\ stage' = [stage EXCEPT ![c] = "settling"]
  /\ payment' = [payment EXCEPT ![c] = "sent"]
  /\ UNCHANGED <<clients, status, receipts, recorded, process>>

LandPayment(c) ==
  /\ payment[c] = "sent"
  /\ payment' = [payment EXCEPT ![c] = "settled"]
  /\ UNCHANGED <<clients, stage, status, receipts, recorded, process>>

\* Overspent, expired, refused by the node.
VoidPayment(c) ==
  /\ payment[c] = "sent"
  /\ payment' = [payment EXCEPT ![c] = "void"]
  /\ UNCHANGED <<clients, stage, status, receipts, recorded, process>>

\* The facilitator confirms: the handler's 200 goes out.
SettledMutant(c) ==
  /\ stage[c] = "settling"
  /\ Answer(c, "200")
  /\ UNCHANGED <<clients, ledger, recorded, process>>

Settled(c) ==
  /\ stage[c] = "settling" /\ payment[c] = "settled"
  /\ Answer(c, "200")
  /\ UNCHANGED <<clients, ledger, recorded, process>>

\* It reports a failure, or does not report: 402.
SettleFails(c) ==
  /\ stage[c] = "settling"
  /\ Answer(c, "402")
  /\ UNCHANGED <<clients, ledger, recorded, process>>

\* The server process dies, and with it every call it was at: the client's
\* connection breaks (or it runs into its timeout).
Working == {"asked", "paid", "auditing", "recorded", "settling"}

Crash ==
  /\ crashes < MaxCrashes
  /\ crashes' = crashes + 1
  /\ stage' = [c \in Calls |-> IF stage[c] \in Working THEN "answered" ELSE stage[c]]
  /\ status' = [c \in Calls |-> IF stage[c] \in Working THEN "lost" ELSE status[c]]
  /\ receipts' \in {receipts \cup S : S \in SUBSET {c \in Calls : stage[c] = "auditing"}}
  /\ UNCHANGED <<clients, payment, recorded, gated>>
-----------------------------------------------------------------------------

Init ==
  /\ client = [d \in Decisions |-> "idle"]
  /\ attempt = [d \in Decisions |-> 0]
  /\ seen = [c \in Calls |-> "none"]
  /\ stage = [c \in Calls |-> "none"]
  /\ status = [c \in Calls |-> "none"]
  /\ payment = [c \in Calls |-> "none"]
  /\ receipts = {}
  /\ recorded = {}
  /\ gated \in BOOLEAN
  /\ crashes = 0

Agent(d) == Ask(d) \/ Pay(d) \/ GetsAnswer(d) \/ TimesOut(d)

Gate(c) ==
  \/ Challenge(c) \/ VerifyPayment(c) \/ RefusePayment(c)
  \/ Settle(c) \/ LandPayment(c) \/ VoidPayment(c) \/ Settled(c) \/ SettleFails(c)

Handler(c) ==
  Refuse(c) \/ AuditFails(c) \/ RecordAudit(c) \/ RespondFails(c) \/ Respond(c)

Next ==
  \/ \E d \in Decisions : Agent(d)
  \/ \E c \in Calls : Gate(c) \/ Handler(c)
  \/ Crash

Spec == Init /\ [][Next]_vars

-----------------------------------------------------------------------------
(* Properties *)

\* Every variable has its type.
TypeOK ==
  /\ client \in [Decisions -> {"idle", "waiting", "done", "failed"}]
  /\ attempt \in [Decisions -> 0..MaxAttempts]
  /\ seen \in [Calls -> Statuses \cup {"timeout"}]
  /\ stage \in [Calls -> Stages]
  /\ status \in [Calls -> Statuses]
  /\ payment \in [Calls -> Payments]
  /\ receipts \subseteq Calls /\ recorded \subseteq Calls
  /\ gated \in BOOLEAN /\ crashes \in 0..MaxCrashes

\* What a call has behind it at each stage: nothing before the handler is through, a
\* record from there on, and a payment handed over only after that.  Nobody is asked to
\* pay for a call that has no gate before it.
StagesAreOrdered ==
  \A c \in Calls :
    /\ stage[c] \in {"none", "asked", "paid", "auditing"} => c \notin recorded \cup receipts
    /\ stage[c] \in {"recorded", "settling"} => c \in recorded
    /\ stage[c] \in {"none", "asked"} => payment[c] = "none"
    /\ stage[c] = "paid" => payment[c] = "signed"
    /\ stage[c] \in {"auditing", "recorded"} => payment[c] \in {"none", "signed"}
    /\ stage[c] = "settling" => payment[c] \in {"sent", "settled", "void"}
    /\ ~Gated(c) => /\ stage[c] \notin {"asked", "paid", "settling"}
                    /\ status[c] # "402" /\ payment[c] = "none"

\* What an answer says of the record and the payment.
StatusesAreTrue ==
  \A c \in Calls : stage[c] = "answered" =>
    /\ status[c] # "none"
    /\ payment[c] \in {"sent", "settled", "void"} =>
         c \in recorded /\ status[c] \in {"200", "402", "lost"}
    /\ status[c] = "400" \/ (status[c] = "402" /\ payment[c] = "none") =>
         c \notin recorded \cup receipts
    /\ status[c] = "200" => c \in recorded /\ (Gated(c) => payment[c] = "settled")

\* A client has one call open at a time, and has learnt of every earlier one that it
\* was no success.
CallsAreSerial ==
  /\ \A c \in Calls :
       /\ c[2] > attempt[c[1]] => stage[c] = "none" /\ seen[c] = "none"
       /\ c[2] < attempt[c[1]] => seen[c] \notin {"none", "200"}
       /\ seen[c] \notin {"none", "timeout"} => stage[c] = "answered" /\ status[c] = seen[c]
  /\ \A d \in Decisions :
       /\ client[d] = "idle" <=> attempt[d] = 0
       /\ client[d] = "waiting" => seen[Current(d)] = "none"
       /\ client[d] = "done" => seen[Current(d)] = "200"
       /\ client[d] = "failed" => seen[Current(d)] \notin {"none", "200"}

\* The inductive invariant the proofs use: the types, and how client, gate, handler
\* and payment of a call keep in step.
IndInv == TypeOK /\ StagesAreOrdered /\ StatusesAreTrue /\ CallsAreSerial

\* Money moves, or is about to, only for an audit that is in the trail, and not for a
\* call its agent was told had failed (400, 500): a handler that failed, before or
\* after the record was stored, a client that went away and a crash cost nothing.  A
\* refused call left no record and no receipt either.
ChargesAreEarned ==
  \A c \in Calls :
    /\ payment[c] \in {"sent", "settled"} =>
         c \in recorded /\ seen[c] \notin {"400", "500"}
    /\ seen[c] = "400" => c \notin recorded \cup receipts

\* What the SDK returns is an audit on record.  It is paid for exactly if its client is
\* in x402 mode and the service has its gate installed: without the gate, which is how
\* a service starts if it is not told otherwise, the same call is answered for nothing,
\* and with it no 200 leaves before the payment has settled.
ResultIsRecordedAndPaid ==
  \A d \in Decisions : client[d] = "done" =>
    /\ Current(d) \in recorded
    /\ payment[Current(d)] = IF gated /\ d \in PayPerCall THEN "settled" ELSE "none"

\* One decision has two receipts or two records only when the agent did not learn
\* how the earlier call had ended: it timed out, the connection broke, the handler
\* failed half-way, or settling the payment failed after the audit.
DuplicatesAreExplained ==
  \A c, later \in recorded \cup receipts :
    c[1] = later[1] /\ c[2] < later[2] => seen[c] \in {"timeout", "lost", "500", "402"}
=============================================================================
