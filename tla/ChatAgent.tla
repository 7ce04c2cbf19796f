------------------------------ MODULE ChatAgent ------------------------------
(***************************************************************************)
(* The demo agent behind POST /api/audit and POST /api/chat, one request   *)
(* at a time: agent/payment_agent.py, agent/vendors.py and the two demo    *)
(* flows of sdk/audit_flow_v2.py.                                          *)
(*                                                                         *)
(* External: the language model.  It may answer with a text or with any    *)
(* tool calls, well formed or not, may choose vendors and amounts that     *)
(* nobody mentioned, and may fail (network, rate limit, no API key).       *)
(* Whether a prompt is about procurement is for the model to tell; the     *)
(* code never looks at it.  Its replies are bounded by MaxToolCalls.       *)
(*                                                                         *)
(* Nothing is shared between requests, so one is enough.  From the choice  *)
(* of the agent on, the audit is module AuditPipeline; here it succeeds,   *)
(* with a verdict, or fails.                                               *)
(***************************************************************************)
EXTENDS Integers, Sequences

CONSTANTS
  Vendors,         \* the ids in VENDOR_REGISTRY
  Strangers,       \* vendor ids that are not in it
  Amounts,         \* amounts in requests and in tool calls
  FallbackVendor,  \* VENDOR_REGISTRY[0] ...
  FallbackAmount,  \* ... and its price
  PolicyLimit,     \* POLICY_LIMIT
  MaxRounds,       \* the model is asked at most this often per chat (6)
  None

CONSTANT MaxToolCalls    \* bound: tool calls in one reply

ASSUME AgentAssumption == /\ Amounts \subseteq Int
                          /\ FallbackAmount \in Int
                          /\ PolicyLimit \in Int
                          /\ FallbackVendor \in Vendors
                          /\ Vendors \cap Strangers = {}
                          /\ None \notin Vendors \cup Strangers \cup Int
                          /\ MaxRounds \in Nat \ {0}
                          /\ MaxToolCalls \in Nat
ASSUME NoneIsNoRecord ==
  \A v \in Vendors, a \in Amounts : None # [vendor |-> v, amount |-> a]

VARIABLES
  request,         \* its kind and, for an audit, vendor and amount
  pc,              \* where the handler is
  round,           \* how often the model was asked
  todo,            \* the tool calls of its reply that are not invoked yet
  selected,        \* what finalize_vendor stored, or None
  trace,           \* the reasoning trace
  choice,          \* the agent's result, or None
  record,          \* the audited record, or None
  reply            \* how the request was answered

vars == <<request, pc, round, todo, selected, trace, choice, record, reply>>

Decision(ok) == IF ok THEN "approved" ELSE "rejected"

Step(tool, vendor, amount, ok) ==
  [tool |-> tool, vendor |-> vendor, amount |-> amount, ok |-> ok]

Pick(vendor, amount) == [vendor |-> vendor, amount |-> amount]

\* A tool call that stores a selection.
Finalizes(step) == step.tool = "finalize" /\ step.ok

\* A call of a tool that does not exist, or with arguments it does not take.
BadCall == Step("bad", None, None, FALSE)

ToolCalls ==
  {Step("list", None, None, TRUE), BadCall}
    \cup {Step("finalize", v, a, v \in Vendors) : v \in Vendors \cup Strangers, a \in Amounts}

Replies == UNION {[1..n -> ToolCalls] : n \in 1..MaxToolCalls}

\* The agent is done: the record is prepared and the audit begins.
Choose(vendor, amount, decision, steps) ==
  /\ choice' = [vendor |-> vendor, amount |-> amount, decision |-> decision]
  /\ trace' = steps
  /\ pc' = "auditing"

-----------------------------------------------------------------------------
(* POST /api/audit: run_payment_agent asks the model once *)

Deciding == pc = "asking" /\ request.kind = "audit"

\* decide_payment, after any failure.
DecidePayment ==
  /\ Deciding
  /\ LET decision == Decision(request.amount < PolicyLimit)
     IN Choose(request.vendor, request.amount, decision,
               <<Step("fallback", None, request.amount, decision = "approved")>>)
  /\ UNCHANGED <<request, round, todo, selected, record, reply>>

\* The model called check_payment_policy, with an amount of its choice; only the
\* first tool call of its reply is looked at.
ToolDecides(amount) ==
  /\ Deciding
  /\ LET ok == amount < PolicyLimit
     IN Choose(request.vendor, request.amount, Decision(ok),
               <<Step("check", None, amount, ok)>>)
  /\ UNCHANGED <<request, round, todo, selected, record, reply>>

\* It wrote a text, with or without "approved" in it.
TextDecides(approved) ==
  /\ Deciding
  /\ Choose(request.vendor, request.amount, Decision(approved),
            <<Step("text", None, request.amount, approved)>>)
  /\ UNCHANGED <<request, round, todo, selected, record, reply>>

-----------------------------------------------------------------------------
(* POST /api/chat: the loop of run_chat_agent *)

Chatting == pc = "asking" /\ request.kind = "chat"

\* The model calls tools.
CallsTools(calls) ==
  /\ Chatting
  /\ round < MaxRounds
  /\ round' = round + 1
  /\ todo' = calls
  /\ pc' = "tools"
  /\ UNCHANGED <<request, selected, trace, choice, record, reply>>

\* It calls none: the loop ends.
AnswersInText ==
  /\ Chatting
  /\ round < MaxRounds
  /\ round' = round + 1
  /\ pc' = "looped"
  /\ UNCHANGED <<request, todo, selected, trace, choice, record, reply>>

\* One tool call is invoked and goes on the trace; finalize_vendor stores a vendor
\* that is in the registry, over one stored before.
InvokeToolMutant ==
  /\ pc = "tools" /\ todo # << >> /\ Head(todo) # BadCall
  /\ LET tc == Head(todo)
     IN selected' = IF Finalizes(tc) /\ selected = None
                    THEN Pick(tc.vendor, tc.amount) ELSE selected
  /\ trace' = Append(trace, Head(todo))
  /\ todo' = Tail(todo)
  /\ UNCHANGED <<request, pc, round, choice, record, reply>>

InvokeUnknownMutant ==
  /\ pc = "tools" /\ todo # << >> /\ Head(todo) # BadCall
  /\ LET tc == Head(todo)
     IN selected' = IF tc.tool = "finalize" THEN Pick(tc.vendor, tc.amount) ELSE selected
  /\ trace' = Append(trace, Head(todo))
  /\ todo' = Tail(todo)
  /\ UNCHANGED <<request, pc, round, choice, record, reply>>

InvokeTool ==
  /\ pc = "tools" /\ todo # << >> /\ Head(todo) # BadCall
  /\ LET tc == Head(todo)
     IN selected' = IF Finalizes(tc) THEN Pick(tc.vendor, tc.amount) ELSE selected
  /\ trace' = Append(trace, Head(todo))
  /\ todo' = Tail(todo)
  /\ UNCHANGED <<request, pc, round, choice, record, reply>>

\* All calls of the reply are invoked: out of the loop with a selection, or round
\* again as long as there are rounds.
EndRoundMutant ==
  /\ pc = "tools" /\ todo = << >>
  /\ pc' = IF selected # None THEN "looped" ELSE "asking"
  /\ round' = IF selected = None /\ round = MaxRounds THEN 0 ELSE round
  /\ trace' = IF selected = None /\ round = MaxRounds THEN << >> ELSE trace
  /\ UNCHANGED <<request, todo, selected, choice, record, reply>>

EndRound ==
  /\ pc = "tools" /\ todo = << >>
  /\ pc' = IF selected # None \/ round = MaxRounds THEN "looped" ELSE "asking"
  /\ UNCHANGED <<request, round, todo, selected, trace, choice, record, reply>>

\* The model failed, or a tool call was bad: the fixed fallback selection, whatever
\* the trace and the selection were.
Fallback ==
  /\ Chatting \/ (pc = "tools" /\ todo # << >> /\ Head(todo) = BadCall)
  /\ Choose(FallbackVendor, FallbackAmount, "approved",
            <<Step("fallback", FallbackVendor, FallbackAmount, TRUE)>>)
  /\ UNCHANGED <<request, round, todo, selected, record, reply>>

\* The loop ended with a selection ...
Select ==
  /\ pc = "looped" /\ selected # None
  /\ Choose(selected.vendor, selected.amount, "approved", trace)
  /\ UNCHANGED <<request, round, todo, selected, record, reply>>

\* ... or without one: the chat is off topic, nothing is audited.
OffTopic ==
  /\ pc = "looped" /\ selected = None
  /\ trace' = Append(trace, Step("off_topic", None, None, TRUE))
  /\ pc' = "answered"
  /\ reply' = "off_topic"
  /\ UNCHANGED <<request, round, todo, selected, choice, record>>

-----------------------------------------------------------------------------
(* The audit of the choice *)

\* The record is stored; making the history entry and the answer may still fail.
Audit(verdict) ==
  /\ pc = "auditing"
  /\ record' = [vendor |-> choice.vendor, amount |-> choice.amount,
                agent_decision |-> choice.decision, decision |-> verdict,
                reasoning_trace |-> trace]
  /\ pc' = "answered"
  /\ reply' \in {verdict, "500"}
  /\ UNCHANGED <<request, round, todo, selected, trace, choice>>

\* It raised before that.
AuditFails ==
  /\ pc = "auditing"
  /\ pc' = "answered"
  /\ reply' = "500"
  /\ UNCHANGED <<request, round, todo, selected, trace, choice, record>>

-----------------------------------------------------------------------------

Requests ==
  [kind : {"chat"}, vendor : {None}, amount : {None}]
    \cup [kind : {"audit"}, vendor : Vendors \cup Strangers, amount : Amounts]

Init ==
  /\ request \in Requests
  /\ pc = "asking"
  /\ round = 0
  /\ todo = << >>
  /\ selected = None
  /\ trace = << >>
  /\ choice = None
  /\ record = None
  /\ reply = None

PaymentAgent ==
  \/ DecidePayment
  \/ \E a \in Amounts : ToolDecides(a)
  \/ \E approved \in BOOLEAN : TextDecides(approved)

ChatLoop ==
  \/ \E calls \in Replies : CallsTools(calls)
  \/ AnswersInText \/ InvokeTool \/ EndRound \/ Fallback \/ Select \/ OffTopic

Auditing == AuditFails \/ \E verdict \in {"approved", "rejected"} : Audit(verdict)

Next == PaymentAgent \/ ChatLoop \/ Auditing

\* The model's client gives up after its own timeout and raises; everything else is
\* the handler's own progress.
Spec == Init /\ [][Next]_vars /\ WF_vars(Next)

-----------------------------------------------------------------------------
(* Properties *)

\* Every variable has its type; only a chat has a loop.
TypeOK ==
  /\ request \in Requests
  /\ pc \in {"asking", "tools", "looped", "auditing", "answered"}
  /\ pc \in {"tools", "looped"} => request.kind = "chat"
  /\ round \in 0..MaxRounds
  /\ todo \in Seq(ToolCalls)
  /\ selected \in [vendor : Vendors, amount : Amounts] \cup {None}
  /\ trace \in Seq([tool : {"list", "finalize", "fallback", "check", "text", "off_topic"},
                    vendor : Vendors \cup Strangers \cup {None},
                    amount : Amounts \cup {FallbackAmount, None}, ok : BOOLEAN])
  /\ choice # None => choice.decision \in {"approved", "rejected"}
  /\ record # None => record.decision \in {"approved", "rejected"}
  /\ reply \in {None, "off_topic", "500", "approved", "rejected"}

\* n is the position of the last successful finalize_vendor call, or 0.
LastFinalize(steps, n) ==
  /\ n = 0 \/ Finalizes(steps[n])
  /\ \A i \in DOMAIN steps : Finalizes(steps[i]) => i <= n

\* The trace shows why the agent chose this.
Shows(steps, chose, decision) ==
  IF request.kind = "chat"
  THEN \E n \in 0..Len(steps) :
         /\ LastFinalize(steps, n)
         /\ n = 0 => Len(steps) = 1 /\ steps[1].tool = "fallback"
         /\ LET s == steps[IF n = 0 THEN 1 ELSE n] IN chose = Pick(s.vendor, s.amount)
  ELSE /\ Len(steps) = 1 /\ decision = Decision(steps[1].ok)
       /\ chose = Pick(request.vendor, request.amount)

\* What an audited record says was decided is what its own reasoning trace shows.  A
\* chat: the last successful finalize_vendor call, or the fallback as the only step -
\* whatever rounds, errors and earlier selections came before.  A payment request:
\* the verdict of its one step, for the request's vendor and amount.  (The amount
\* that step judged may be one the model made up.)
ChoiceIsTraced ==
  record # None =>
    Shows(record.reasoning_trace, Pick(record.vendor, record.amount), record.agent_decision)

\* The inductive invariant: in the loop the selection is what the trace shows last, and
\* the choice made of it is the one that is audited.
SelectionIsTraced ==
  \E n \in 0..Len(trace) :
    /\ LastFinalize(trace, n)
    /\ selected = IF n = 0 THEN None ELSE Pick(trace[n].vendor, trace[n].amount)

IndInv ==
  /\ TypeOK
  /\ request.kind = "chat" /\ pc \in {"asking", "tools", "looped"} => SelectionIsTraced
  /\ pc = "auditing" => Shows(trace, Pick(choice.vendor, choice.amount), choice.decision)
  /\ ChoiceIsTraced

\* Every request is answered, whatever the model does.
Answers == <>(pc = "answered")
=============================================================================
