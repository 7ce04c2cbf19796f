---------------------------- MODULE Verification ----------------------------
(***************************************************************************)
(* What GET /api/verify says of an audit, while the tenant the audit       *)
(* belongs to may be deleted and onboarded again: authentication and the   *)
(* reads of the tenant store in api/main.py and sdk/audit_flow_v2.py,      *)
(* verify and its helpers in api/main.py, crypto/payload.py, and           *)
(* reverify_mode2 of tenancy/provisioning.py.                              *)
(*                                                                         *)
(* All tenants here have one org id.  A tenant is one onboarding of it: it *)
(* draws its own encryption key, API key and opaque agent id, so a tenant  *)
(* stands for each of these.  scripts/reset_demo.py and                    *)
(* scripts/onboard_org.py are other processes on the same SQLite file:     *)
(* they get in between any two reads of a handler.  (Only the two reads at *)
(* the end of verify are one step: their results go to different parts of  *)
(* the answer.)  The policy contract keeps the rules of an agent for good. *)
(*                                                                         *)
(* Onboarding step by step is module Onboarding, its result is one step    *)
(* here; evaluation in full is PolicyEngine, here a rule allows a set of   *)
(* values.  What can happen to a transaction, a record or a root after the *)
(* arguments were sent is AuditPipeline; here they land or fail.           *)
(***************************************************************************)
EXTENDS Integers, Sequences

CONSTANTS
  Tenants,         \* onboardings of the org id
  Calls,           \* audit calls
  Queries,         \* GET /api/verify requests
  Fields,          \* the names of decision fields
  Rules,           \* per tenant, the policies it declares, in order
  Reports,         \* the decisions agents report: field -> value or None
  NotInts,         \* the values int() raises on
  Zero, Empty,     \* what a public rule gets for a missing number, string
  BadHex,          \* an X-Auditor-Key that parse_hex_key refuses
  None             \* no row, no field, no header, JSON null

Rule == [field : Fields, private : BOOLEAN, numeric : BOOLEAN, allowed : SUBSET
           (UNION {{d[f] : f \in Fields} : d \in Reports} \cup {Zero, Empty})]

ASSUME RulesAssumption   == \A t \in Tenants : Rules[t] # << >> /\ Rules[t] \in Seq(Rule)
ASSUME ReportsAssumption == \A d \in Reports : DOMAIN d = Fields
ASSUME NamesAssumption   == {None, BadHex} \cap Tenants = {} /\ None # BadHex
                              /\ {None, Zero, Empty} \cap NotInts = {}
                              /\ None \notin Reports /\ None \notin BOOLEAN
ASSUME NoneIsNoRecheck ==
  \A t \in Tenants : \A places \in SUBSET DOMAIN Rules[t] :
    None \notin [places -> [matches : BOOLEAN, recheck : BOOLEAN \cup {None}]]

VARIABLES
  org,             \* table orgs: the tenant that has the org id now, or None
  onboarded,       \* the tenants onboarded so far
  pc,              \* where the handler of each call is
  ask,             \* per call, the agent id and the fields in its body
  encKey,          \* per call, the key its record was encrypted under
  stored,          \* per call, the rules build_check_args read
  leaf,            \* per call, its record in the batch store, or None
  anchored,        \* the calls whose leaf has a batch id and a proof
  labels,          \* per call, the policy labels of its recent_audits entry
  qpc,             \* where the handler of each verify request is
  about,           \* the call whose action id it asks for
  auditorKey,      \* its X-Auditor-Key: a tenant's key, BadHex or None
  answer           \* the response

tenancy == <<org, onboarded>>
audits  == <<pc, ask, encKey, stored, leaf, anchored, labels>>
queries == <<qpc, about, auditorKey, answer>>
vars    == <<tenancy, audits, queries>>

Stages == {"idle", "authorised", "checked", "uploading", "building", "recorded",
           "done", "failed"}

\* get_rules(org_id, agent): delete_org removes the rows.
StoredRulesMutant(agent) == IF agent \in onboarded THEN Rules[agent] ELSE << >>

RulesByOrgMutant(agent) == IF org = None THEN << >> ELSE Rules[org]

StoredRules(agent) == IF org = agent THEN Rules[agent] ELSE << >>

Goto(c, stage) == pc' = [pc EXCEPT ![c] = stage]

-----------------------------------------------------------------------------
(* Tenants come and go *)

Onboard(t) ==
  /\ org = None /\ t \notin onboarded
  /\ org' = t
  /\ onboarded' = onboarded \cup {t}
  /\ UNCHANGED <<audits, queries>>

DeleteOrg ==
  /\ org # None
  /\ org' = None
  /\ UNCHANGED <<onboarded, audits, queries>>

-----------------------------------------------------------------------------
(* An audit, as far as it reads the tenant store.  Nobody knows an agent id    *)
(* before it was handed out.                                                   *)

\* require_org: the API key of tenant t names the org.  It is a plain function, so
\* it runs in the thread pool and the handler starts some time after it.
Authenticate(c, t, body) ==
  /\ pc[c] = "idle"
  /\ t \in onboarded /\ body.agent \in onboarded
  /\ Goto(c, IF org = t THEN "authorised" ELSE "failed")
  /\ ask' = [ask EXCEPT ![c] = body]
  /\ UNCHANGED <<tenancy, encKey, stored, leaf, anchored, labels, queries>>

\* The x402 handler: the body names the org.
LookUpOrg(c, body) ==
  /\ pc[c] = "idle"
  /\ body.agent \in onboarded
  /\ Goto(c, IF org # None THEN "authorised" ELSE "failed")
  /\ ask' = [ask EXCEPT ![c] = body]
  /\ UNCHANGED <<tenancy, encKey, stored, leaf, anchored, labels, queries>>

\* The demo endpoints look up nothing before _execute_pipeline.
StartDemo(c, body) ==
  /\ pc[c] = "idle"
  /\ body.agent \in onboarded
  /\ Goto(c, "checked")
  /\ ask' = [ask EXCEPT ![c] = body]
  /\ UNCHANGED <<tenancy, encKey, stored, leaf, anchored, labels, queries>>

\* No policy registered for the agent: 400.
CheckRules(c) ==
  /\ pc[c] = "authorised"
  /\ Goto(c, IF StoredRules(ask[c].agent) # << >> THEN "checked" ELSE "failed")
  /\ UNCHANGED <<tenancy, ask, encKey, stored, leaf, anchored, labels, queries>>

\* get_org, encrypt_payload, and the upload begins.  No org: 500.
Encrypt(c) ==
  /\ pc[c] = "checked"
  /\ IF org = None
     THEN Goto(c, "failed") /\ UNCHANGED encKey
     ELSE Goto(c, "uploading") /\ encKey' = [encKey EXCEPT ![c] = org]
  /\ UNCHANGED <<tenancy, ask, stored, leaf, anchored, labels, queries>>

UploadFails(c) ==
  /\ pc[c] = "uploading"
  /\ Goto(c, "failed")
  /\ UNCHANGED <<tenancy, ask, encKey, stored, leaf, anchored, labels, queries>>

\* build_check_args reads the rules ...
ReadRules(c) ==
  /\ pc[c] = "uploading"
  /\ Goto(c, "building")
  /\ stored' = [stored EXCEPT ![c] = StoredRules(ask[c].agent)]
  /\ UNCHANGED <<tenancy, ask, encKey, leaf, anchored, labels, queries>>

\* ... then, in a second query, the key.  int() raises on what is no number; a
\* private rule needs its document, which only its own tenant's key opens.
Raises(rule, val) == rule.numeric /\ val \in NotInts

Buildable(rules, fields, agent) ==
  \A i \in DOMAIN rules :
    LET val == fields[rules[i].field]
    IN  ~Raises(rules[i], val) /\ (rules[i].private /\ val # None => org = agent)

\* What the contract is sent for a rule, and what it makes of it.
Default(rule) == IF rule.numeric THEN Zero ELSE Empty
Attested(rule, val) == val # None /\ val \in rule.allowed

Token(rule, val) ==
  IF rule.private THEN Attested(rule, val)
  ELSE (IF val = None THEN Default(rule) ELSE val) \in rule.allowed

\* check_and_mint wants as many arguments as the agent has rules on chain; then
\* the record is stored.
PolicyCheck(c) ==
  LET agent  == ask[c].agent
      fields == ask[c].fields
  IN  /\ pc[c] = "building"
      /\ Buildable(stored[c], fields, agent)
      /\ Len(stored[c]) = Len(Rules[agent])
      /\ leaf' = [leaf EXCEPT ![c] =
           [agent |-> agent, fields |-> fields, key |-> encKey[c],
            tokens |-> [i \in DOMAIN stored[c] |->
                          Token(Rules[agent][i], fields[stored[c][i].field])]]]
      /\ Goto(c, "recorded")
      /\ UNCHANGED <<tenancy, ask, encKey, stored, anchored, labels, queries>>

\* One of these raised, or the transaction did not go through: 500.
PolicyCheckFails(c) ==
  /\ pc[c] = "building"
  /\ Goto(c, "failed")
  /\ UNCHANGED <<tenancy, ask, encKey, stored, leaf, anchored, labels, queries>>

\* _policy_breakdown: a label for each token, or "rule_i" if there is no such rule.
PolicyBreakdown(record) ==
  LET rules == StoredRules(record.agent)
  IN  [i \in DOMAIN record.tokens |-> IF i \in DOMAIN rules THEN rules[i].field ELSE None]

\* The handler's entry in recent_audits, and its answer.
Respond(c) ==
  /\ pc[c] = "recorded"
  /\ labels' = [labels EXCEPT ![c] = PolicyBreakdown(leaf[c])]
  /\ Goto(c, "done")
  /\ UNCHANGED <<tenancy, ask, encKey, stored, leaf, anchored, queries>>

\* Making them raised: 500, and the record stays.
RespondFails(c) ==
  /\ pc[c] = "recorded"
  /\ Goto(c, "failed")
  /\ UNCHANGED <<tenancy, ask, encKey, stored, leaf, anchored, labels, queries>>

\* POST /api/batch/submit takes every pending leaf.
AnchorMutant ==
  /\ \E c \in Calls : encKey[c] # None /\ c \notin anchored
  /\ anchored' = {c \in Calls : encKey[c] # None}
  /\ UNCHANGED <<tenancy, pc, ask, encKey, stored, leaf, labels, queries>>

Anchor ==
  /\ \E c \in Calls : leaf[c] # None /\ c \notin anchored
  /\ anchored' = {c \in Calls : leaf[c] # None}
  /\ UNCHANGED <<tenancy, pc, ask, encKey, stored, leaf, labels, queries>>

-----------------------------------------------------------------------------
(* GET /api/verify *)

\* decrypt_payload(envelope, key): AES-GCM tells a wrong key.
DecryptsMutant(sealedUnder, key) == key # BadHex
Decrypts(sealedUnder, key) == key = sealedUnder

\* _attempt_decryption.  `fetched`: the gateway answered with the envelope.
Decryption(record, key, fetched) ==
  [key_provided |-> fetched /\ key # None,
   key_valid    |-> IF ~fetched \/ key = None THEN None ELSE Decrypts(record.key, key),
   record       |-> IF fetched /\ Decrypts(record.key, key) THEN record.fields ELSE None]

\* reverify_mode2, one entry per private rule that is stored for the agent.
RecheckOf(rule, record, key) ==
  LET val == record.fields[rule.field]
  IN  IF Decrypts(record.agent, key)
      THEN [matches |-> TRUE, recheck |-> IF val = None THEN None ELSE val \in rule.allowed]
      ELSE [matches |-> FALSE, recheck |-> None]

\* _reverify_mode2: null without a usable key, when evaluating raised, or when
\* there is nothing to check.  A function from rule positions.
ReverifyMode2Mutant(record, key) ==
  LET rules   == StoredRules(record.agent)
      private == {i \in DOMAIN rules : rules[i].private}
      raised  == \E i \in private : record.fields[rules[i].field] \in NotInts \cup {None}
  IN  IF key \in {None, BadHex} \/ private = {} \/ raised THEN None
      ELSE [i \in private |-> RecheckOf(rules[i], record, key)]

ReverifyMode2(record, key) ==
  LET rules   == StoredRules(record.agent)
      private == {i \in DOMAIN rules : rules[i].private}
      raised  == Decrypts(record.agent, key)
                   /\ \E i \in private : Raises(rules[i], record.fields[rules[i].field])
  IN  IF key \in {None, BadHex} \/ private = {} \/ raised THEN None
      ELSE [i \in private |-> RecheckOf(rules[i], record, key)]

Answer(q, status, decryption, recheck, summary) ==
  /\ qpc' = [qpc EXCEPT ![q] = "answered"]
  /\ answer' = [answer EXCEPT ![q] =
       [status |-> status, decryption |-> decryption, recheck |-> recheck,
        labels |-> summary, org |-> org]]

\* get_leaf: 404, or the record is pending and nothing else is looked at, or the
\* root is read from the chain (502 when that fails) and the envelope fetched.
LookUp(q, c, key) ==
  /\ qpc[q] = "idle"
  /\ about' = [about EXCEPT ![q] = c]
  /\ auditorKey' = [auditorKey EXCEPT ![q] = key]
  /\ \/ leaf[c] = None /\ Answer(q, "404", None, None, None)
     \/ /\ leaf[c] # None /\ c \notin anchored
        /\ Answer(q, "pending", None, None, PolicyBreakdown(leaf[c]))
     \/ /\ leaf[c] # None /\ c \in anchored
        /\ qpc' = [qpc EXCEPT ![q] = "fetching"]
        /\ UNCHANGED answer
  /\ UNCHANGED <<tenancy, audits>>

RootUnreadable(q, c, key) ==
  /\ qpc[q] = "idle"
  /\ leaf[c] # None /\ c \in anchored
  /\ about' = [about EXCEPT ![q] = c]
  /\ auditorKey' = [auditorKey EXCEPT ![q] = key]
  /\ Answer(q, "502", None, None, None)
  /\ UNCHANGED <<tenancy, audits>>

\* The gateway answered, or failed, or took more than 15 s: the rest of the answer
\* is made from the tenant store as it is by now.
Verified(q, fetched) ==
  LET record == leaf[about[q]]
      key    == auditorKey[q]
  IN  /\ qpc[q] = "fetching"
      /\ Answer(q, "anchored", Decryption(record, key, fetched),
                ReverifyMode2(record, key), PolicyBreakdown(record))
      /\ UNCHANGED <<tenancy, audits, about, auditorKey>>

-----------------------------------------------------------------------------

Bodies == [agent : Tenants, fields : Reports]

Init ==
  /\ org = None
  /\ onboarded = {}
  /\ pc = [c \in Calls |-> "idle"]
  /\ ask = [c \in Calls |-> None]
  /\ encKey = [c \in Calls |-> None]
  /\ stored = [c \in Calls |-> << >>]
  /\ leaf = [c \in Calls |-> None]
  /\ anchored = {}
  /\ labels = [c \in Calls |-> None]
  /\ qpc = [q \in Queries |-> "idle"]
  /\ about = [q \in Queries |-> None]
  /\ auditorKey = [q \in Queries |-> None]
  /\ answer = [q \in Queries |-> None]

Audit(c) ==
  \/ \E body \in Bodies : \/ \E t \in Tenants : Authenticate(c, t, body)
                          \/ LookUpOrg(c, body) \/ StartDemo(c, body)
  \/ CheckRules(c) \/ Encrypt(c) \/ UploadFails(c) \/ ReadRules(c)
  \/ PolicyCheck(c) \/ PolicyCheckFails(c) \/ Respond(c) \/ RespondFails(c)

Verify(q) ==
  \/ \E c \in Calls, key \in Tenants \cup {BadHex, None} :
       LookUp(q, c, key) \/ RootUnreadable(q, c, key)
  \/ \E fetched \in BOOLEAN : Verified(q, fetched)

Next ==
  \/ \E t \in Tenants : Onboard(t)
  \/ DeleteOrg
  \/ \E c \in Calls : Audit(c)
  \/ Anchor
  \/ \E q \in Queries : Verify(q)

Spec == Init /\ [][Next]_vars

-----------------------------------------------------------------------------
(* Properties *)

\* Every variable has its type.
TypeOK ==
  /\ org \in onboarded \cup {None}
  /\ onboarded \subseteq Tenants
  /\ pc \in [Calls -> Stages]
  /\ ask \in [Calls -> Bodies \cup {None}]
  /\ encKey \in [Calls -> Tenants \cup {None}]
  /\ stored \in [Calls -> {Rules[t] : t \in Tenants} \cup {<< >>}]
  /\ DOMAIN leaf = Calls /\ DOMAIN labels = Calls
  /\ anchored \subseteq {c \in Calls : leaf[c] # None}
  /\ qpc \in [Queries -> {"idle", "fetching", "answered"}]
  /\ about \in [Queries -> Calls \cup {None}]
  /\ auditorKey \in [Queries -> Tenants \cup {BadHex, None}]
  /\ DOMAIN answer = Queries

\* The key is read before the upload and the rules after it; an org that was deleted
\* in between comes back as another tenant, never as the one whose agent asked.
KeyFitsRules ==
  \A c \in Calls :
    /\ pc[c] # "idle" => ask[c] \in Bodies /\ ask[c].agent \in onboarded
    /\ pc[c] = "uploading" /\ org = ask[c].agent => encKey[c] = ask[c].agent
    /\ pc[c] = "building" /\ stored[c] # << >> =>
         stored[c] = Rules[ask[c].agent] /\ encKey[c] = ask[c].agent

\* The record of a decision: sealed under the key of its own tenant, with the
\* verdicts of its own tenant's rules.
RecordOf(body) ==
  LET rules == Rules[body.agent]
  IN  [agent |-> body.agent, fields |-> body.fields, key |-> body.agent,
       tokens |-> [i \in DOMAIN rules |-> Token(rules[i], body.fields[rules[i].field])]]

\* The backend could evaluate every rule on the decision.
Evaluates(body) ==
  LET rules == Rules[body.agent]
  IN  \A i \in DOMAIN rules : ~Raises(rules[i], body.fields[rules[i].field])

\* A record is made once, and is that of the decision its call reported.
RecordsAreTrue ==
  \A c \in Calls :
    /\ leaf[c] # None => pc[c] \in {"recorded", "done", "failed"}
    /\ leaf[c] # None \/ pc[c] = "recorded" =>
         leaf[c] = RecordOf(ask[c]) /\ Evaluates(ask[c])
    /\ labels[c] # None => pc[c] = "done"

\* An answer that shows a record is about one.
AnswersAreAbout ==
  \A q \in Queries :
    /\ qpc[q] = "fetching" => about[q] \in Calls /\ leaf[about[q]] # None
    /\ answer[q] # None =>
         /\ qpc[q] = "answered" /\ about[q] \in Calls
         /\ answer[q].status = "anchored" \/ answer[q].labels # None =>
              leaf[about[q]] # None

\* A record that made it into the trail can be read by the tenant it belongs to:
\* it is sealed under the key of the onboarding its agent id comes from - although
\* the key is read before the upload and the rules after it, and the org may have
\* been deleted and onboarded again before, between or after the two.
OwnerCanRead ==
  \A c \in Calls : leaf[c] # None => leaf[c].key = leaf[c].agent

\* The answer that was made after the root and the envelope were asked for.
Anchored(q) == answer[q] # None /\ answer[q].status = "anchored"

\* An auditor's key is called valid, and the record shown, exactly when it is the
\* key of the record's own tenant and the gateway had the envelope: not when it is
\* the key of whoever has the org id now.
KeyValidIsOwners ==
  \A q \in Queries : Anchored(q) =>
    LET d == answer[q].decryption
        c == about[q]
    IN  /\ d.key_valid = TRUE <=> d.key_provided /\ auditorKey[q] = ask[c].agent
        /\ d.record # None <=> d.key_valid = TRUE
        /\ d.record # None => d.record = ask[c].fields

\* A re-check whose document matches its commitment comes to the verdict that was
\* attested on chain when the decision was audited, whatever rules the org id has
\* been given since.
RecheckAgrees ==
  \A q \in Queries : Anchored(q) /\ answer[q].recheck # None =>
    \A i \in DOMAIN answer[q].recheck :
      LET r == answer[q].recheck[i]
      IN  r.matches =>
            /\ i \in DOMAIN leaf[about[q]].tokens
            /\ Rules[ask[about[q]].agent][i].private
            /\ IF r.recheck = None
               THEN leaf[about[q]].tokens[i] = FALSE
               ELSE r.recheck = leaf[about[q]].tokens[i]

\* The owner's key re-checks every private policy of a recorded decision as long as
\* the tenant is there: what the audit could evaluate, verify can.
RecordedIsRecheckable ==
  \A q \in Queries : Anchored(q) =>
    LET agent == ask[about[q]].agent
        private == {i \in DOMAIN Rules[agent] : Rules[agent][i].private}
    IN  auditorKey[q] = agent /\ answer[q].org = agent /\ private # {} =>
          /\ answer[q].recheck # None
          /\ DOMAIN answer[q].recheck = private
          /\ \A i \in private : answer[q].recheck[i].matches

\* A verdict is shown under the name of the policy it is about, or under none:
\* never under that of a rule which took the same place later.
Tells(names, body) ==
  \A i \in DOMAIN names : names[i] \in {None, Rules[body.agent][i].field}

LabelsTellTheRule ==
  /\ \A c \in Calls : labels[c] # None => Tells(labels[c], ask[c])
  /\ \A q \in Queries : answer[q] # None /\ answer[q].labels # None =>
       Tells(answer[q].labels, ask[about[q]])

\* The inductive invariant the proofs use.
IndInv ==
  /\ TypeOK /\ KeyFitsRules /\ RecordsAreTrue /\ AnswersAreAbout
  /\ KeyValidIsOwners /\ RecheckAgrees /\ RecordedIsRecheckable /\ LabelsTellTheRule
=============================================================================
