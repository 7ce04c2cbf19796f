--------------------------- MODULE ChatAgentProofs ---------------------------
(***************************************************************************)
(* For any vendors, amounts and rounds, and whatever the language model    *)
(* answers: what is audited is what the reasoning trace shows.             *)
(***************************************************************************)
EXTENDS ChatAgent, TLAPS

\* The steps a trace is made of.
TraceSteps == [tool : {"list", "finalize", "fallback", "check", "text", "off_topic"},
               vendor : Vendors \cup Strangers \cup {None},
               amount : Amounts \cup {FallbackAmount, None}, ok : BOOLEAN]

\* A step with fields of these kinds is one of them.
LEMMA StepsAreTyped ==
  ASSUME NEW tool \in {"list", "finalize", "fallback", "check", "text", "off_topic"},
         NEW vendor \in Vendors \cup Strangers \cup {None},
         NEW amount \in Amounts \cup {FallbackAmount, None}, NEW ok \in BOOLEAN
  PROVE  Step(tool, vendor, amount, ok) \in TraceSteps
BY Zenon DEF Step, TraceSteps

\* A trace of one step, and of one step more.
LEMMA LongerTraces ==
  \A step \in TraceSteps : /\ <<step>> \in Seq(TraceSteps)
                           /\ \A steps \in Seq(TraceSteps) : Append(steps, step) \in Seq(TraceSteps)
OBVIOUS

\* A well-formed tool call can go on the trace, and one that stores a selection names a
\* vendor of the registry.
LEMMA CallFacts ==
  ASSUME NEW tc \in ToolCalls, tc # BadCall
  PROVE  /\ tc \in TraceSteps
         /\ Finalizes(tc) => Pick(tc.vendor, tc.amount) \in [vendor : Vendors, amount : Amounts]
<1>1. CASE tc = Step("list", None, None, TRUE)
  <2>0. Step("list", None, None, TRUE).tool = "list"
    BY Zenon DEF Step
  <2>1. tc.tool = "list"
    BY <1>1, <2>0, Zenon
  <2>2. ~Finalizes(tc)
    BY <2>1 DEF Finalizes
  <2>3. tc \in TraceSteps
    BY <1>1, StepsAreTyped
  <2> QED
    BY <2>2, <2>3
<1>2. ASSUME NEW v \in Vendors \cup Strangers, NEW a \in Amounts,
             tc = Step("finalize", v, a, v \in Vendors)
      PROVE  /\ tc \in TraceSteps
             /\ Finalizes(tc) =>
                  Pick(tc.vendor, tc.amount) \in [vendor : Vendors, amount : Amounts]
  <2>1. (v \in Vendors) \in BOOLEAN
    OBVIOUS
  <2>2. tc \in TraceSteps
    BY <1>2, <2>1, StepsAreTyped
  <2>0. PICK ok : ok = (v \in Vendors)
    OBVIOUS
  <2>5. /\ Step("finalize", v, a, ok).vendor = v /\ Step("finalize", v, a, ok).amount = a
        /\ Step("finalize", v, a, ok).ok = ok
    BY Zenon DEF Step
  <2>3. tc.vendor = v /\ tc.amount = a /\ (tc.ok <=> v \in Vendors)
    BY <1>2, <2>0, <2>5, Zenon
  <2>4. Finalizes(tc) => v \in Vendors
    BY <2>3, Zenon DEF Finalizes
  <2> QED
    BY <2>2, <2>3, <2>4 DEF Pick
<1>3. \/ tc = Step("list", None, None, TRUE)
      \/ \E v \in Vendors \cup Strangers, a \in Amounts : tc = Step("finalize", v, a, v \in Vendors)
  <2> DEFINE fixed  == {Step("list", None, None, TRUE), BadCall}
             chosen == {Step("finalize", v, a, v \in Vendors) :
                          v \in Vendors \cup Strangers, a \in Amounts}
  <2>1. ToolCalls = fixed \cup chosen
    BY DEF ToolCalls
  <2>2. tc \in fixed => tc = Step("list", None, None, TRUE)
    BY Zenon
  <2>3. tc \in chosen => \E v \in Vendors \cup Strangers, a \in Amounts :
                           tc = Step("finalize", v, a, v \in Vendors)
    OBVIOUS
  <2> HIDE DEF fixed, chosen
  <2>4. tc \in fixed \/ tc \in chosen
    BY <2>1, Zenon
  <2> QED
    BY <2>2, <2>3, <2>4, Zenon
<1> QED
  BY <1>1, <1>2, <1>3, Zenon

\* The model's replies are sequences of tool calls.
LEMMA RepliesAreCalls == \A calls \in Replies : calls \in Seq(ToolCalls)
<1> SUFFICES ASSUME NEW n \in 1..MaxToolCalls, NEW calls \in [1..n -> ToolCalls]
             PROVE  calls \in Seq(ToolCalls)
  BY DEF Replies
<1>1. n \in Nat
  BY AgentAssumption
<1> QED
  BY <1>1

-----------------------------------------------------------------------------

\* One more step on the trace is the last that stored a selection, or leaves it as it was.
LEMMA LastOfAppend ==
  ASSUME NEW steps \in Seq(TraceSteps), NEW tc \in TraceSteps, NEW n \in 0..Len(steps),
         LastFinalize(steps, n)
  PROVE  LET longer == Append(steps, tc)
             m      == IF Finalizes(tc) THEN Len(steps) + 1 ELSE n
         IN  /\ m \in 0..Len(longer) /\ LastFinalize(longer, m)
             /\ Finalizes(tc) => longer[m] = tc
             /\ ~Finalizes(tc) /\ n # 0 => longer[m] = steps[n]
<1> DEFINE longer == Append(steps, tc)
<1>1. /\ Len(longer) = Len(steps) + 1 /\ Len(steps) \in Nat
      /\ DOMAIN longer = 1..Len(steps) + 1 /\ DOMAIN steps = 1..Len(steps)
      /\ longer[Len(steps) + 1] = tc
      /\ \A i \in 1..Len(steps) : longer[i] = steps[i]
  OBVIOUS
<1> HIDE DEF longer
<1>2. CASE Finalizes(tc)
  <2>1. LastFinalize(longer, Len(steps) + 1)
    BY <1>1, <1>2 DEF LastFinalize
  <2> QED
    BY <1>1, <1>2, <2>1 DEF longer
<1>3. CASE ~Finalizes(tc)
  <2>1. \A i \in DOMAIN longer : Finalizes(longer[i]) => i \in DOMAIN steps /\ Finalizes(steps[i])
    BY <1>1, <1>3
  <2>2. n = 0 \/ (n \in 1..Len(steps) /\ Finalizes(steps[n]))
    BY <1>1 DEF LastFinalize
  <2>3. LastFinalize(longer, n)
    BY <1>1, <2>1, <2>2 DEF LastFinalize
  <2> QED
    BY <1>1, <1>3, <2>2, <2>3 DEF longer
<1> QED
  BY <1>2, <1>3

\* A chat that falls back has one step, which shows the choice.
LEMMA FallbackShows ==
  ASSUME request.kind = "chat", NEW vendor, NEW amount, NEW decision
  PROVE  Shows(<<Step("fallback", vendor, amount, TRUE)>>, Pick(vendor, amount), decision)
<1> DEFINE step  == Step("fallback", vendor, amount, TRUE)
           steps == <<step>>
<1>0. step.tool = "fallback" /\ step.vendor = vendor /\ step.amount = amount
  BY Zenon DEF Step
<1>1. /\ step.tool = "fallback" /\ step.vendor = vendor /\ step.amount = amount
      /\ ~Finalizes(step)
  BY <1>0 DEF Finalizes
<1> HIDE DEF step
<1>2. Len(steps) = 1 /\ steps[1] = step /\ DOMAIN steps = {1}
  OBVIOUS
<1> HIDE DEF steps
<1>3. LastFinalize(steps, 0)
  BY <1>1, <1>2 DEF LastFinalize
<1>4. Shows(steps, Pick(vendor, amount), decision)
  BY <1>1, <1>2, <1>3 DEF Shows
<1> QED
  BY <1>4 DEF steps, step

\* The verdict of a payment request's one step is the decision.
LEMMA VerdictShows ==
  ASSUME request.kind = "audit", NEW tool, NEW amount, NEW ok
  PROVE  Shows(<<Step(tool, None, amount, ok)>>, Pick(request.vendor, request.amount), Decision(ok))
<1> DEFINE step  == Step(tool, None, amount, ok)
           steps == <<step>>
<1>1. step.ok = ok
  BY Zenon DEF Step
<1> HIDE DEF step
<1>2. Len(steps) = 1 /\ steps[1] = step
  OBVIOUS
<1> HIDE DEF steps
<1>3. Decision(ok) = Decision(steps[1].ok)
  BY <1>1, <1>2, Zenon
<1>4. Shows(steps, Pick(request.vendor, request.amount), Decision(ok))
  BY <1>2, <1>3, Zenon DEF Shows
<1> QED
  BY <1>4 DEF steps, step

-----------------------------------------------------------------------------
(* The steps *)

\* What a record shows does not change, nor does what it is about.
LEMMA ShowsStays ==
  ASSUME UNCHANGED request, NEW steps, NEW chose, NEW decision
  PROVE  Shows(steps, chose, decision)' <=> Shows(steps, chose, decision)
BY DEF Shows

LEMMA RecordStays ==
  ASSUME ChoiceIsTraced, UNCHANGED <<request, record>>
  PROVE  ChoiceIsTraced'
<1> PICK r : r = record
  OBVIOUS
<1>1. Shows(r.reasoning_trace, Pick(r.vendor, r.amount), r.agent_decision)'
        <=> Shows(r.reasoning_trace, Pick(r.vendor, r.amount), r.agent_decision)
  BY ShowsStays
<1> QED
  BY <1>1 DEF ChoiceIsTraced

\* The agent chooses what its trace shows.
LEMMA ChoiceKeeps ==
  ASSUME IndInv, NEW vendor, NEW amount, NEW decision \in {"approved", "rejected"},
         NEW steps \in Seq(TraceSteps), Choose(vendor, amount, decision, steps),
         Shows(steps, Pick(vendor, amount), decision),
         UNCHANGED <<request, round, todo, selected, record, reply>>
  PROVE  IndInv'
<1>1. /\ choice' = [vendor |-> vendor, amount |-> amount, decision |-> decision]
      /\ trace' = steps /\ pc' = "auditing"
      /\ choice'.vendor = vendor /\ choice'.amount = amount /\ choice'.decision = decision
  BY DEF Choose
<1>2. TypeOK'
  BY <1>1 DEF IndInv, TypeOK, TraceSteps
<1>3. ChoiceIsTraced'
  BY RecordStays DEF IndInv
<1>4. Shows(trace, Pick(choice.vendor, choice.amount), choice.decision)'
  <2>1. Shows(steps, Pick(vendor, amount), decision)'
    BY ShowsStays
  <2>2. Pick(choice.vendor, choice.amount)' = Pick(vendor, amount)
    BY <1>1 DEF Pick
  <2>3. PICK t, c, d : t = trace' /\ c = Pick(choice.vendor, choice.amount)' /\ d = choice'.decision
    OBVIOUS
  <2> QED
    BY <1>1, <2>1, <2>2
<1> QED
  BY <1>1, <1>2, <1>3, <1>4 DEF IndInv

\* A payment request's one step is a verdict on it.
LEMMA DecidingKeeps ==
  ASSUME IndInv, PaymentAgent
  PROVE  IndInv'
<1>t. TypeOK
  BY DEF IndInv
<1>1. ASSUME NEW tool \in {"fallback", "check", "text"}, NEW amount \in Amounts, NEW ok \in BOOLEAN,
             request.kind = "audit",
             Choose(request.vendor, request.amount, Decision(ok), <<Step(tool, None, amount, ok)>>),
             UNCHANGED <<request, round, todo, selected, record, reply>>
      PROVE  IndInv'
  <2>1. Step(tool, None, amount, ok) \in TraceSteps
    BY StepsAreTyped
  <2>2. PICK step : step = Step(tool, None, amount, ok)
    OBVIOUS
  <2>3. <<step>> \in Seq(TraceSteps)
    BY <2>1, <2>2
  <2>4. Decision(ok) \in {"approved", "rejected"}
    BY DEF Decision
  <2>5. Shows(<<Step(tool, None, amount, ok)>>, Pick(request.vendor, request.amount), Decision(ok))
    BY <1>1, VerdictShows
  <2> QED
    BY <1>1, <2>2, <2>3, <2>4, <2>5, ChoiceKeeps
<1>2. request.kind = "audit" => request.amount \in Amounts
  BY <1>t DEF TypeOK, Requests
<1>3. CASE DecidePayment
  <2>1. PICK d : d = Decision(request.amount < PolicyLimit)
    OBVIOUS
  <2>2. PICK ok : ok = (d = "approved")
    OBVIOUS
  <2>3. ok \in BOOLEAN /\ d \in {"approved", "rejected"}
    BY <2>1, <2>2 DEF Decision
  <2>4. Decision(ok) = d
    <3>1. ok <=> d = "approved"
      BY <2>2, Zenon
    <3>2. d # "approved" => d = "rejected"
      BY <2>3
    <3> QED
      BY <3>1, <3>2 DEF Decision
  <2>5. Choose(request.vendor, request.amount, d, <<Step("fallback", None, request.amount, ok)>>)
    BY <1>3, <2>1, <2>2, Zenon DEF DecidePayment
  <2> QED
    BY <1>1, <1>2, <1>3, <2>3, <2>4, <2>5, Zenon DEF DecidePayment, Deciding
<1>4. ASSUME NEW a \in Amounts, ToolDecides(a)
      PROVE  IndInv'
  <2>1. PICK ok : ok = (a < PolicyLimit)
    OBVIOUS
  <2>2. ok \in BOOLEAN
    BY <2>1
  <2>3. Choose(request.vendor, request.amount, Decision(ok), <<Step("check", None, a, ok)>>)
    BY <1>4, <2>1, Zenon DEF ToolDecides
  <2> QED
    BY <1>1, <1>4, <2>2, <2>3, Zenon DEF ToolDecides, Deciding
<1>5. ASSUME NEW approved \in BOOLEAN, TextDecides(approved)
      PROVE  IndInv'
  BY <1>1, <1>2, <1>5 DEF TextDecides, Deciding
<1> QED
  BY <1>3, <1>4, <1>5 DEF PaymentAgent

\* A tool call goes on the trace, and the selection is again what the trace shows last.
LEMMA InvokeKeeps ==
  ASSUME IndInv, InvokeTool
  PROVE  IndInv'
<1>t. TypeOK /\ trace \in Seq(TraceSteps)
  BY DEF IndInv, TypeOK, TraceSteps
<1> PICK tc : tc = Head(todo)
  OBVIOUS
<1>s. /\ pc = "tools" /\ tc # BadCall /\ todo # << >>
      /\ selected' = IF Finalizes(tc) THEN Pick(tc.vendor, tc.amount) ELSE selected
      /\ trace' = Append(trace, tc) /\ todo' = Tail(todo)
      /\ UNCHANGED <<request, pc, round, choice, record, reply>>
  BY DEF InvokeTool
<1>1. tc \in ToolCalls /\ todo' \in Seq(ToolCalls)
  <2>1. todo \in Seq(ToolCalls)
    BY <1>t DEF TypeOK
  <2> QED
    BY <1>s, <2>1
<1>2. /\ tc \in TraceSteps
      /\ Finalizes(tc) => Pick(tc.vendor, tc.amount) \in [vendor : Vendors, amount : Amounts]
  BY <1>s, <1>1, CallFacts
<1>3. TypeOK'
  <2>1. trace' \in Seq(TraceSteps)
    BY <1>t, <1>s, <1>2
  <2>2. selected' \in [vendor : Vendors, amount : Amounts] \cup {None}
    BY <1>t, <1>s, <1>2 DEF TypeOK
  <2> QED
    BY <1>t, <1>s, <1>1, <2>1, <2>2 DEF TypeOK, TraceSteps
<1>4. SelectionIsTraced'
  <2>1. PICK n \in 0..Len(trace) :
          /\ LastFinalize(trace, n)
          /\ selected = IF n = 0 THEN None ELSE Pick(trace[n].vendor, trace[n].amount)
    BY <1>t, <1>s DEF IndInv, TypeOK, SelectionIsTraced
  <2>2. PICK longer : longer = Append(trace, tc)
    OBVIOUS
  <2>3. PICK m : m = IF Finalizes(tc) THEN Len(trace) + 1 ELSE n
    OBVIOUS
  <2>4. /\ m \in 0..Len(longer) /\ LastFinalize(longer, m)
        /\ Finalizes(tc) => longer[m] = tc
        /\ ~Finalizes(tc) /\ n # 0 => longer[m] = trace[n]
    BY <1>t, <1>2, <2>1, <2>2, <2>3, LastOfAppend
  <2>5. Finalizes(tc) => m # 0
    BY <1>t, <2>3
  <2>6. selected' = IF m = 0 THEN None ELSE Pick(longer[m].vendor, longer[m].amount)
    BY <1>s, <2>1, <2>3, <2>4, <2>5
  <2> QED
    BY <1>s, <2>2, <2>4, <2>6 DEF SelectionIsTraced, LastFinalize
<1>5. ChoiceIsTraced'
  BY <1>s, RecordStays DEF IndInv
<1> QED
  BY <1>s, <1>3, <1>4, <1>5 DEF IndInv

\* The loop ends with a selection, which the trace shows.
LEMMA SelectKeeps ==
  ASSUME IndInv, Select
  PROVE  IndInv'
<1>t. TypeOK /\ trace \in Seq(TraceSteps)
  BY DEF IndInv, TypeOK, TraceSteps
<1>s. /\ pc = "looped" /\ selected # None /\ request.kind = "chat"
      /\ Choose(selected.vendor, selected.amount, "approved", trace)
      /\ UNCHANGED <<request, round, todo, selected, record, reply>>
  BY <1>t DEF Select, TypeOK
<1>1. PICK n \in 0..Len(trace) :
        /\ LastFinalize(trace, n)
        /\ selected = IF n = 0 THEN None ELSE Pick(trace[n].vendor, trace[n].amount)
  BY <1>s DEF IndInv, SelectionIsTraced
<1>2. n # 0 /\ selected = Pick(trace[n].vendor, trace[n].amount)
  BY <1>s, <1>1
<1>3. Pick(selected.vendor, selected.amount) = selected
  BY <1>2 DEF Pick
<1>4. Shows(trace, Pick(selected.vendor, selected.amount), "approved")
  BY <1>s, <1>1, <1>2, <1>3 DEF Shows
<1> QED
  BY <1>t, <1>s, <1>4, ChoiceKeeps

\* The model fails, or calls a tool in a way the code cannot run.
LEMMA FallbackKeeps ==
  ASSUME IndInv, Fallback
  PROVE  IndInv'
<1>t. TypeOK
  BY DEF IndInv
<1> PICK step : step = Step("fallback", FallbackVendor, FallbackAmount, TRUE)
  OBVIOUS
<1>s. /\ request.kind = "chat"
      /\ Choose(FallbackVendor, FallbackAmount, "approved", <<step>>)
      /\ UNCHANGED <<request, round, todo, selected, record, reply>>
  BY <1>t DEF Fallback, Chatting, TypeOK
<1>1. <<step>> \in Seq(TraceSteps)
  <2>1. step \in TraceSteps
    BY StepsAreTyped, AgentAssumption
  <2> QED
    BY <2>1, LongerTraces, Zenon
<1>2. Shows(<<step>>, Pick(FallbackVendor, FallbackAmount), "approved")
  BY <1>s, FallbackShows
<1> QED
  BY <1>s, <1>1, <1>2, ChoiceKeeps

\* The rest of the loop leaves trace and selection alone, or ends it off topic.
LEMMA LoopKeeps ==
  ASSUME IndInv, ChatLoop
  PROVE  IndInv'
<1>t. TypeOK
  BY DEF IndInv
<1>r. round \in 0..MaxRounds /\ MaxRounds \in Nat
  BY <1>t, AgentAssumption DEF TypeOK
<1>0. ASSUME SelectionIsTraced, UNCHANGED <<trace, selected>>
      PROVE  SelectionIsTraced'
  BY <1>0 DEF SelectionIsTraced, LastFinalize
<1>1. ASSUME NEW calls \in Replies, CallsTools(calls)
      PROVE  IndInv'
  <2>1. TypeOK'
    BY <1>t, <1>r, <1>1, RepliesAreCalls DEF CallsTools, Chatting, TypeOK
  <2>2. ChoiceIsTraced' /\ SelectionIsTraced'
    BY <1>0, <1>1, RecordStays DEF CallsTools, Chatting, IndInv
  <2> QED
    BY <1>1, <2>1, <2>2 DEF CallsTools, IndInv
<1>2. CASE AnswersInText
  <2>1. TypeOK'
    BY <1>t, <1>r, <1>2 DEF AnswersInText, Chatting, TypeOK
  <2>2. ChoiceIsTraced' /\ SelectionIsTraced'
    BY <1>0, <1>2, RecordStays DEF AnswersInText, Chatting, IndInv
  <2> QED
    BY <1>2, <2>1, <2>2 DEF AnswersInText, IndInv
<1>3. CASE EndRound
  <2>1. TypeOK' /\ pc' \in {"looped", "asking"}
    BY <1>t, <1>3 DEF EndRound, TypeOK
  <2>2. ChoiceIsTraced' /\ SelectionIsTraced'
    BY <1>t, <1>0, <1>3, RecordStays DEF EndRound, IndInv, TypeOK
  <2> QED
    BY <1>3, <2>1, <2>2 DEF EndRound, IndInv
<1>4. CASE OffTopic
  <2>1. Step("off_topic", None, None, TRUE) \in TraceSteps
    BY StepsAreTyped
  <2>2. PICK step : step = Step("off_topic", None, None, TRUE)
    OBVIOUS
  <2>3. trace' = Append(trace, step) /\ trace \in Seq(TraceSteps)
    BY <1>t, <1>4, <2>2 DEF OffTopic, TypeOK, TraceSteps
  <2>4. trace' \in Seq(TraceSteps)
    BY <2>1, <2>2, <2>3, LongerTraces, Zenon
  <2>5. TypeOK'
    BY <1>t, <1>4, <2>4 DEF OffTopic, TypeOK, TraceSteps
  <2>6. ChoiceIsTraced'
    BY <1>4, RecordStays DEF OffTopic, IndInv
  <2> QED
    BY <1>4, <2>5, <2>6 DEF OffTopic, IndInv
<1> QED
  BY <1>1, <1>2, <1>3, <1>4, InvokeKeeps, SelectKeeps, FallbackKeeps DEF ChatLoop

\* The record carries the choice and the trace as they are.
LEMMA AuditKeeps ==
  ASSUME IndInv, Auditing
  PROVE  IndInv'
<1>t. TypeOK
  BY DEF IndInv
<1>1. ASSUME NEW verdict \in {"approved", "rejected"}, Audit(verdict)
      PROVE  IndInv'
  <2>1. TypeOK'
    BY <1>t, <1>1 DEF Audit, TypeOK
  <2>2. PICK vendor, amount, decision, steps :
          /\ vendor = choice.vendor /\ amount = choice.amount
          /\ decision = choice.decision /\ steps = trace
    OBVIOUS
  <2>3. /\ record'.vendor = vendor /\ record'.amount = amount
        /\ record'.agent_decision = decision /\ record'.reasoning_trace = steps
    BY <1>1, <2>2 DEF Audit
  <2>4. Shows(steps, Pick(vendor, amount), decision)
    BY <1>1, <2>2 DEF Audit, IndInv
  <2>5. Shows(steps, Pick(vendor, amount), decision)'
    BY <1>1, <2>4, ShowsStays DEF Audit
  <2>6. ChoiceIsTraced'
    BY <2>3, <2>5 DEF ChoiceIsTraced
  <2> QED
    BY <1>1, <2>1, <2>6 DEF Audit, IndInv
<1>2. CASE AuditFails
  <2>1. TypeOK'
    BY <1>t, <1>2 DEF AuditFails, TypeOK
  <2>2. ChoiceIsTraced'
    BY <1>2, RecordStays DEF AuditFails, IndInv
  <2> QED
    BY <1>2, <2>1, <2>2 DEF AuditFails, IndInv
<1> QED
  BY <1>1, <1>2 DEF Auditing

-----------------------------------------------------------------------------
(* The theorems *)

LEMMA InitHolds == Init => IndInv
<1> SUFFICES ASSUME Init PROVE IndInv
  OBVIOUS
<1>1. TypeOK
  BY AgentAssumption DEF Init, TypeOK
<1>2. SelectionIsTraced
  <2>1. Len(trace) = 0 /\ DOMAIN trace = {} /\ selected = None
    BY DEF Init
  <2>2. LastFinalize(trace, 0)
    BY <2>1 DEF LastFinalize
  <2> QED
    BY <2>1, <2>2 DEF SelectionIsTraced
<1>3. ChoiceIsTraced
  BY DEF Init, ChoiceIsTraced
<1> QED
  BY <1>1, <1>2, <1>3 DEF Init, IndInv

LEMMA StepHolds == IndInv /\ [Next]_vars => IndInv'
<1> SUFFICES ASSUME IndInv, [Next]_vars PROVE IndInv'
  OBVIOUS
<1>1. CASE UNCHANGED vars
  <2>1. TypeOK'
    BY <1>1 DEF vars, IndInv, TypeOK
  <2>2. ChoiceIsTraced'
    BY <1>1, RecordStays DEF vars, IndInv
  <2>3. SelectionIsTraced => SelectionIsTraced'
    BY <1>1 DEF vars, SelectionIsTraced, LastFinalize
  <2>4. Shows(trace, Pick(choice.vendor, choice.amount), choice.decision) =>
          Shows(trace, Pick(choice.vendor, choice.amount), choice.decision)'
    BY <1>1 DEF vars, Shows, LastFinalize
  <2> QED
    BY <1>1, <2>1, <2>2, <2>3, <2>4 DEF vars, IndInv
<1> QED
  BY <1>1, DecidingKeeps, LoopKeeps, AuditKeeps DEF Next

\* The inductive invariant holds in every reachable state: in the loop the selection is
\* what the trace shows last, and the choice made of it is what is audited.
THEOREM Invariance == Spec => []IndInv
BY InitHolds, StepHolds, PTL DEF Spec

\* What an audited record says was decided is what its own reasoning trace shows.
THEOREM RecordsShowTheirReasons == Spec => []ChoiceIsTraced
<1>1. IndInv => ChoiceIsTraced
  BY DEF IndInv
<1> QED
  BY <1>1, Invariance, PTL

-----------------------------------------------------------------------------
(* Every request ends *)

\* How far the handler is from its answer, the loop counting as one stage.
Rank == [asking |-> 3, tools |-> 3, looped |-> 2, auditing |-> 1, answered |-> 0]

\* What is left of the round: the calls not invoked yet, and the step that ends it.
Left == IF pc = "tools" THEN Len(todo) + 1 ELSE 0

StepsRunOut ==
  [][\/ Rank[pc'] < Rank[pc]
     \/ Rank[pc'] = Rank[pc] /\ round < round' /\ round' <= MaxRounds
     \/ /\ Rank[pc'] = Rank[pc] /\ round' = round
        /\ Left \in Nat /\ Left' \in Nat /\ Left' < Left]_vars

\* The handler cannot go round for ever, whatever the model answers: each step leaves a
\* stage for good, starts one of at most MaxRounds rounds or uses up a tool call.
THEOREM RequestsEnd == Spec => StepsRunOut
<1>1. ASSUME IndInv, Next
      PROVE  \/ Rank[pc'] < Rank[pc]
             \/ Rank[pc'] = Rank[pc] /\ round < round' /\ round' <= MaxRounds
             \/ /\ Rank[pc'] = Rank[pc] /\ round' = round
                /\ Left \in Nat /\ Left' \in Nat /\ Left' < Left
  <2>0. /\ Rank["asking"] = 3 /\ Rank["tools"] = 3 /\ Rank["looped"] = 2
        /\ Rank["auditing"] = 1 /\ Rank["answered"] = 0
    BY DEF Rank
  <2>1. round \in 0..MaxRounds /\ todo \in Seq(ToolCalls) /\ MaxRounds \in Nat
    BY <1>1, AgentAssumption DEF IndInv, TypeOK
  <2>2. CASE PaymentAgent
    BY <2>0, <2>2 DEF PaymentAgent, DecidePayment, ToolDecides, TextDecides, Deciding, Choose
  <2>3. CASE \E calls \in Replies : CallsTools(calls)
    <3>1. pc = "asking" /\ pc' = "tools" /\ round < MaxRounds /\ round' = round + 1
      BY <2>3 DEF CallsTools, Chatting
    <3> QED
      BY <2>0, <2>1, <3>1
  <2>4. CASE InvokeTool
    <3>1. pc = "tools" /\ pc' = "tools" /\ round' = round /\ todo # << >> /\ todo' = Tail(todo)
      BY <2>4 DEF InvokeTool
    <3>2. Len(todo) \in Nat /\ Len(todo) > 0 /\ Len(todo') = Len(todo) - 1
      BY <2>1, <3>1
    <3>3. Left = Len(todo) + 1 /\ Left' = Len(todo') + 1
      BY <3>1 DEF Left
    <3> QED
      BY <3>1, <3>2, <3>3
  <2>5. CASE EndRound
    <3>1. pc = "tools" /\ todo = << >> /\ pc' \in {"looped", "asking"} /\ round' = round
      BY <2>5 DEF EndRound
    <3>2. Left = 1 /\ Left' = 0
      BY <3>1 DEF Left
    <3> QED
      BY <2>0, <3>1, <3>2
  <2>6. CASE AnswersInText \/ Fallback \/ Select \/ OffTopic
    <3>1. \/ pc \in {"asking", "tools"} /\ pc' \in {"looped", "auditing"}
          \/ pc = "looped" /\ pc' \in {"auditing", "answered"}
      BY <2>6 DEF AnswersInText, Fallback, Select, OffTopic, Chatting, Choose
    <3> QED
      BY <2>0, <3>1
  <2>7. CASE Auditing
    BY <2>0, <2>7 DEF Auditing, AuditFails, Audit
  <2> QED
    BY <1>1, <2>2, <2>3, <2>4, <2>5, <2>6, <2>7 DEF Next, ChatLoop
<1>2. IndInv /\ [Next]_vars =>
        [\/ Rank[pc'] < Rank[pc]
         \/ Rank[pc'] = Rank[pc] /\ round < round' /\ round' <= MaxRounds
         \/ /\ Rank[pc'] = Rank[pc] /\ round' = round
            /\ Left \in Nat /\ Left' \in Nat /\ Left' < Left]_vars
  BY <1>1
<1> QED
  BY <1>2, Invariance, PTL DEF Spec, StepsRunOut
=============================================================================
