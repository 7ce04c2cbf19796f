------------------------ MODULE VerificationProofs ------------------------
(***************************************************************************)
(* For any tenants, rules, decisions, calls and requests: what module      *)
(* Verification claims of records and of the answers about them.  IndInv   *)
(* is inductive (lemmas Start and Step); the theorems follow from it.      *)
(***************************************************************************)
EXTENDS Verification, TLAPS

\* What a record is made of.
LEMMA RecordFacts ==
  ASSUME NEW body \in Bodies
  PROVE  /\ body.agent \in Tenants /\ body.fields \in Reports
         /\ RecordOf(body).agent = body.agent
         /\ RecordOf(body).fields = body.fields
         /\ RecordOf(body).key = body.agent
         /\ DOMAIN RecordOf(body).tokens = DOMAIN Rules[body.agent]
         /\ \A i \in DOMAIN Rules[body.agent] :
              RecordOf(body).tokens[i] =
                Token(Rules[body.agent][i], body.fields[Rules[body.agent][i].field])
BY DEF Bodies, RecordOf

\* Rules that are stored for an agent are its own.
LEMMA StoredRulesAreOwn ==
  ASSUME NEW agent \in Tenants
  PROVE  /\ StoredRules(agent) \in {Rules[agent], << >>}
         /\ StoredRules(agent) # << >> => org = agent
BY DEF StoredRules

\* _policy_breakdown names the policy of the record's own tenant, or none.
LEMMA BreakdownTells ==
  ASSUME NEW body \in Bodies, NEW i \in DOMAIN PolicyBreakdown(RecordOf(body))
  PROVE  PolicyBreakdown(RecordOf(body))[i] \in {None, Rules[body.agent][i].field}
<1>1. RecordOf(body).agent = body.agent /\ body.agent \in Tenants
  BY RecordFacts
<1>2. CASE i \in DOMAIN StoredRules(body.agent)
  <2>1. StoredRules(body.agent) = Rules[body.agent]
    BY <1>1, <1>2, StoredRulesAreOwn
  <2> QED
    BY <1>1, <1>2, <2>1 DEF PolicyBreakdown
<1>3. CASE i \notin DOMAIN StoredRules(body.agent)
  BY <1>1, <1>3 DEF PolicyBreakdown
<1> QED
  BY <1>2, <1>3

\* _attempt_decryption accepts the key of the record's tenant, and no other.
LEMMA DecryptionTells ==
  ASSUME NEW body \in Bodies, NEW key \in Tenants \cup {BadHex, None},
         NEW fetched \in BOOLEAN
  PROVE  LET d == Decryption(RecordOf(body), key, fetched)
         IN  /\ d.key_valid = TRUE <=> d.key_provided /\ key = body.agent
             /\ d.record # None <=> d.key_valid = TRUE
             /\ d.record # None => d.record = body.fields
<1> DEFINE d == Decryption(RecordOf(body), key, fetched)
<1>1. RecordOf(body).key = body.agent /\ RecordOf(body).fields = body.fields
  BY RecordFacts
<1>2. body.agent # None /\ body.fields # None
  BY RecordFacts, NamesAssumption
<1>3. /\ d.key_provided = (fetched /\ key # None)
      /\ d.key_valid = IF ~fetched \/ key = None THEN None ELSE key = body.agent
      /\ d.record = IF fetched /\ key = body.agent THEN body.fields ELSE None
  BY <1>1 DEF Decryption, Decrypts
<1>4. TRUE # None /\ FALSE # None
  BY NamesAssumption
<1>5. CASE fetched /\ key = body.agent
  BY <1>2, <1>3, <1>5
<1>6. CASE ~(fetched /\ key = body.agent)
  BY <1>2, <1>3, <1>4, <1>6
<1> QED
  BY <1>5, <1>6

\* reverify_mode2 gives a matching document the verdict the contract came to.
LEMMA RecheckTells ==
  ASSUME NEW body \in Bodies, NEW key \in Tenants \cup {BadHex, None},
         ReverifyMode2(RecordOf(body), key) # None,
         NEW i \in DOMAIN ReverifyMode2(RecordOf(body), key),
         ReverifyMode2(RecordOf(body), key)[i].matches
  PROVE  LET r == ReverifyMode2(RecordOf(body), key)
         IN  /\ i \in DOMAIN RecordOf(body).tokens
             /\ Rules[body.agent][i].private
             /\ IF r[i].recheck = None THEN RecordOf(body).tokens[i] = FALSE
                ELSE r[i].recheck = RecordOf(body).tokens[i]
<1> DEFINE r == ReverifyMode2(RecordOf(body), key)
           rules == StoredRules(body.agent)
           private == {j \in DOMAIN rules : rules[j].private}
<1>1. RecordOf(body).agent = body.agent /\ RecordOf(body).fields = body.fields
  BY RecordFacts
<1>2. r = [j \in private |-> RecheckOf(rules[j], RecordOf(body), key)]
  BY <1>1 DEF ReverifyMode2
<1>3. i \in DOMAIN rules /\ rules[i].private /\ r[i] = RecheckOf(rules[i], RecordOf(body), key)
  BY <1>2
<1>4. rules = Rules[body.agent]
  BY <1>3, StoredRulesAreOwn, RecordFacts
<1> DEFINE rule == Rules[body.agent][i]
           val == body.fields[rule.field]
<1>5. r[i].recheck = IF val = None THEN None ELSE val \in rule.allowed
  BY <1>1, <1>3, <1>4 DEF RecheckOf
<1>6. RecordOf(body).tokens[i] = (val # None /\ val \in rule.allowed)
  <2>1. RecordOf(body).tokens[i] = Token(rule, val)
    BY <1>3, <1>4, RecordFacts
  <2> QED
    BY <1>3, <1>4, <2>1 DEF Token, Attested
<1>7. i \in DOMAIN RecordOf(body).tokens /\ rule.private
  BY <1>3, <1>4, RecordFacts
<1>8. IF r[i].recheck = None THEN RecordOf(body).tokens[i] = FALSE
      ELSE r[i].recheck = RecordOf(body).tokens[i]
  <2> HIDE DEF rule, val
  <2>1. CASE val = None
    BY <1>5, <1>6, <2>1
  <2>2. CASE val # None /\ val \in rule.allowed
    <3>1. (val \in rule.allowed) = TRUE
      BY <2>2
    <3>2. r[i].recheck = TRUE /\ RecordOf(body).tokens[i] = TRUE
      BY <1>5, <1>6, <2>2, <3>1
    <3> QED
      BY <3>2, NamesAssumption
  <2>3. CASE val # None /\ val \notin rule.allowed
    <3>1. (val \in rule.allowed) = FALSE
      BY <2>3
    <3>2. r[i].recheck = FALSE /\ RecordOf(body).tokens[i] = FALSE
      BY <1>5, <1>6, <2>3, <3>1
    <3> QED
      BY <3>2, NamesAssumption
  <2> QED
    BY <2>1, <2>2, <2>3
<1> QED
  BY <1>7, <1>8

\* reverify_mode2 with the owner's key, while the tenant is there, has an entry for each
\* private policy, and each matches.
LEMMA RecheckIsComplete ==
  ASSUME NEW body \in Bodies, Evaluates(body), org = body.agent,
         NEW private, private = {i \in DOMAIN Rules[body.agent] : Rules[body.agent][i].private},
         private # {}
  PROVE  LET r == ReverifyMode2(RecordOf(body), body.agent)
         IN  /\ r # None /\ DOMAIN r = private
             /\ \A i \in private : r[i].matches
<1> DEFINE rules == Rules[body.agent]
           record == RecordOf(body)
           entry(i) == RecheckOf(rules[i], record, body.agent)
           r == [i \in private |-> entry(i)]
<1>1. record.agent = body.agent /\ record.fields = body.fields /\ body.agent \in Tenants
  BY RecordFacts
<1>2. StoredRules(body.agent) = rules
  BY DEF StoredRules
<1>3. ReverifyMode2(record, body.agent) = r
  <2>1. body.agent \notin {None, BadHex}
    BY <1>1, NamesAssumption
  <2>2. \A i \in private : ~Raises(rules[i], record.fields[rules[i].field])
    BY <1>1 DEF Evaluates
  <2>3. Decrypts(record.agent, body.agent)
    BY <1>1 DEF Decrypts
  <2>4. PICK own : own = StoredRules(record.agent)
    OBVIOUS
  <2>5. own = rules /\ private = {i \in DOMAIN own : own[i].private}
    BY <1>1, <1>2, <2>4
  <2> HIDE DEF rules, record
  <2>6. ReverifyMode2(record, body.agent) =
          IF body.agent \in {None, BadHex} \/ private = {}
               \/ (Decrypts(record.agent, body.agent)
                     /\ \E i \in private : Raises(own[i], record.fields[own[i].field]))
          THEN None ELSE [i \in private |-> RecheckOf(own[i], record, body.agent)]
    BY <2>4, <2>5, Zenon DEF ReverifyMode2
  <2>7. ReverifyMode2(record, body.agent) =
          [i \in private |-> RecheckOf(rules[i], record, body.agent)]
    BY <2>1, <2>2, <2>5, <2>6
  <2> QED
    BY <2>7
<1>4. ASSUME NEW i \in private
      PROVE  /\ r[i].matches
             /\ r[i] \in [matches : BOOLEAN, recheck : BOOLEAN \cup {None}]
  BY <1>1 DEF RecheckOf, Decrypts
<1>5. r # None
  <2>1. r \in [private -> [matches : BOOLEAN, recheck : BOOLEAN \cup {None}]]
    BY <1>4
  <2> HIDE DEF r
  <2> QED
    BY <1>1, <2>1, NoneIsNoRecheck
<1> QED
  BY <1>3, <1>4, <1>5

\* Answers stay true as long as they stand and the records they are about, with the
\* decisions those are of, stay as they are.
LEMMA AnswersKept ==
  ASSUME IndInv, UNCHANGED queries, DOMAIN ask' = Calls,
         \A c \in Calls : leaf[c] # None => leaf'[c] = leaf[c] /\ ask'[c] = ask[c]
  PROVE  /\ AnswersAreAbout' /\ KeyValidIsOwners' /\ RecheckAgrees' /\ RecordedIsRecheckable'
         /\ \A q \in Queries : answer'[q] # None /\ answer'[q].labels # None =>
              Tells(answer'[q].labels, ask'[about'[q]])
<1> USE DEF IndInv, queries
<1>1. AnswersAreAbout'
  BY DEF AnswersAreAbout
<1>2. ASSUME NEW q \in Queries, answer[q] # None,
             answer[q].status = "anchored" \/ answer[q].labels # None
      PROVE  leaf'[about[q]] = leaf[about[q]] /\ ask'[about[q]] = ask[about[q]]
  BY <1>2 DEF AnswersAreAbout
<1>3. KeyValidIsOwners'
  BY <1>2 DEF KeyValidIsOwners, Anchored
<1>4. RecheckAgrees'
  BY <1>2 DEF RecheckAgrees, Anchored
<1>5. ASSUME NEW q \in Queries, answer'[q] # None, answer'[q].labels # None
      PROVE  Tells(answer'[q].labels, ask'[about'[q]])
  BY <1>2, <1>5 DEF LabelsTellTheRule
<1>6. RecordedIsRecheckable'
  BY <1>2 DEF RecordedIsRecheckable, Anchored
<1> QED
  BY <1>1, <1>3, <1>4, <1>5, <1>6

\* Every step of a tenant or an audit preserves the inductive invariant.
LEMMA AuditStep ==
  ASSUME IndInv,
         \/ \E t \in Tenants : Onboard(t)
         \/ DeleteOrg
         \/ \E c \in Calls : Audit(c)
         \/ Anchor
  PROVE  IndInv'
<1> USE NamesAssumption, RulesAssumption
    DEF IndInv, TypeOK, tenancy, audits, queries, Stages, Goto, Bodies
<1>1. ASSUME NEW t \in Tenants, Onboard(t)
      PROVE  IndInv'
  <2> USE <1>1 DEF Onboard
  <2>1. TypeOK' /\ RecordsAreTrue'
    BY DEF RecordsAreTrue
  <2>2. KeyFitsRules'
    BY DEF KeyFitsRules
  <2>3. /\ AnswersAreAbout' /\ KeyValidIsOwners' /\ RecheckAgrees'
        /\ RecordedIsRecheckable' /\ LabelsTellTheRule'
    BY AnswersKept DEF LabelsTellTheRule
  <2> QED
    BY <2>1, <2>2, <2>3
<1>2. ASSUME DeleteOrg
      PROVE  IndInv'
  <2> USE <1>2 DEF DeleteOrg
  <2>1. TypeOK' /\ RecordsAreTrue'
    BY DEF RecordsAreTrue
  <2>2. KeyFitsRules'
    BY DEF KeyFitsRules
  <2>3. /\ AnswersAreAbout' /\ KeyValidIsOwners' /\ RecheckAgrees'
        /\ RecordedIsRecheckable' /\ LabelsTellTheRule'
    BY AnswersKept DEF LabelsTellTheRule
  <2> QED
    BY <2>1, <2>2, <2>3
<1>3. ASSUME NEW c \in Calls, NEW body \in Bodies,
             (\E t \in Tenants : Authenticate(c, t, body)) \/ LookUpOrg(c, body)
               \/ StartDemo(c, body)
      PROVE  IndInv'
  <2>1. /\ pc[c] = "idle" /\ body.agent \in onboarded
        /\ ask' = [ask EXCEPT ![c] = body]
        /\ \E stage \in {"authorised", "checked", "failed"} : Goto(c, stage)
        /\ UNCHANGED <<tenancy, encKey, stored, leaf, anchored, labels, queries>>
    BY <1>3 DEF Authenticate, LookUpOrg, StartDemo
  <2>2. leaf[c] = None /\ labels[c] = None
    BY <2>1 DEF RecordsAreTrue
  <2>3. TypeOK'
    BY <2>1
  <2>4. KeyFitsRules'
    BY <2>1 DEF KeyFitsRules
  <2>5. RecordsAreTrue'
    BY <2>1, <2>2 DEF RecordsAreTrue
  <2>6. /\ AnswersAreAbout' /\ KeyValidIsOwners' /\ RecheckAgrees'
        /\ RecordedIsRecheckable' /\ LabelsTellTheRule'
    BY <2>1, <2>2, AnswersKept DEF LabelsTellTheRule
  <2> QED
    BY <2>3, <2>4, <2>5, <2>6
<1>4. ASSUME NEW c \in Calls,
             CheckRules(c) \/ Encrypt(c) \/ UploadFails(c) \/ ReadRules(c)
               \/ PolicyCheckFails(c) \/ RespondFails(c)
      PROVE  IndInv'
  <2> USE <1>4 DEF CheckRules, Encrypt, UploadFails, ReadRules, PolicyCheckFails, RespondFails
  <2>0. ask[c] \in Bodies /\ ask[c].agent \in Tenants /\ org \in Tenants \cup {None}
        /\ StoredRules(ask[c].agent) \in {Rules[ask[c].agent], << >>}
        /\ (StoredRules(ask[c].agent) # << >> => org = ask[c].agent)
    BY StoredRulesAreOwn DEF KeyFitsRules
  <2>1. TypeOK'
    <3>1. pc' \in [Calls -> Stages]
      OBVIOUS
    <3>2. encKey' \in [Calls -> Tenants \cup {None}] /\ org' = org
      BY <2>0
    <3>3. stored' \in [Calls -> {Rules[t] : t \in Tenants} \cup {<< >>}]
      BY <2>0
    <3>4. UNCHANGED <<tenancy, ask, leaf, anchored, labels, queries>>
      OBVIOUS
    <3> QED
      BY <3>1, <3>2, <3>3, <3>4
  <2>2. KeyFitsRules'
    BY <2>0 DEF KeyFitsRules
  <2>3. RecordsAreTrue'
    BY DEF RecordsAreTrue
  <2>4. /\ AnswersAreAbout' /\ KeyValidIsOwners' /\ RecheckAgrees'
        /\ RecordedIsRecheckable' /\ LabelsTellTheRule'
    BY AnswersKept DEF LabelsTellTheRule
  <2> QED
    BY <2>1, <2>2, <2>3, <2>4
<1>5. ASSUME NEW c \in Calls, PolicyCheck(c)
      PROVE  IndInv'
  <2> USE <1>5
  <2>0. /\ pc[c] = "building" /\ pc' = [pc EXCEPT ![c] = "recorded"]
        /\ UNCHANGED <<tenancy, ask, encKey, stored, anchored, labels, queries>>
        /\ ask[c] \in Bodies /\ ask[c].agent \in Tenants /\ leaf[c] = None
        /\ Len(stored[c]) = Len(Rules[ask[c].agent])
    BY DEF PolicyCheck, KeyFitsRules, RecordsAreTrue
  <2>1. stored[c] = Rules[ask[c].agent] /\ encKey[c] = ask[c].agent
    <3>1. Rules[ask[c].agent] # << >> /\ Rules[ask[c].agent] \in Seq(Rule)
      BY <2>0
    <3>2. stored[c] # << >>
      BY <2>0, <3>1
    <3> QED
      BY <2>0, <3>2 DEF KeyFitsRules
  <2>2. leaf' = [leaf EXCEPT ![c] = RecordOf(ask[c])]
    BY <2>1 DEF PolicyCheck, RecordOf
  <2>3. TypeOK'
    BY <2>0, <2>2
  <2>4. KeyFitsRules'
    BY <2>0 DEF KeyFitsRules
  <2>5. RecordsAreTrue'
    <3>1. Evaluates(ask[c])
      BY <2>1 DEF PolicyCheck, Buildable, Evaluates
    <3> QED
      BY <2>0, <2>2, <3>1 DEF RecordsAreTrue
  <2>6. /\ AnswersAreAbout' /\ KeyValidIsOwners' /\ RecheckAgrees'
        /\ RecordedIsRecheckable' /\ LabelsTellTheRule'
    BY <2>0, <2>2, AnswersKept DEF LabelsTellTheRule
  <2> QED
    BY <2>3, <2>4, <2>5, <2>6
<1>6. ASSUME NEW c \in Calls, Respond(c)
      PROVE  IndInv'
  <2> USE <1>6 DEF Respond
  <2>0. leaf[c] = RecordOf(ask[c]) /\ ask[c] \in Bodies
    BY DEF RecordsAreTrue, KeyFitsRules
  <2>1. TypeOK'
    OBVIOUS
  <2>2. KeyFitsRules'
    BY DEF KeyFitsRules
  <2>3. RecordsAreTrue'
    BY DEF RecordsAreTrue
  <2>4. Tells(PolicyBreakdown(leaf[c]), ask[c])
    BY <2>0, BreakdownTells DEF Tells
  <2>5. /\ AnswersAreAbout' /\ KeyValidIsOwners' /\ RecheckAgrees'
        /\ RecordedIsRecheckable' /\ LabelsTellTheRule'
    BY <2>4, AnswersKept DEF LabelsTellTheRule
  <2> QED
    BY <2>1, <2>2, <2>3, <2>5
<1>7. ASSUME Anchor
      PROVE  IndInv'
  <2> USE <1>7 DEF Anchor
  <2>1. TypeOK' /\ RecordsAreTrue'
    BY DEF RecordsAreTrue
  <2>2. KeyFitsRules'
    BY DEF KeyFitsRules
  <2>3. /\ AnswersAreAbout' /\ KeyValidIsOwners' /\ RecheckAgrees'
        /\ RecordedIsRecheckable' /\ LabelsTellTheRule'
    BY AnswersKept DEF LabelsTellTheRule
  <2> QED
    BY <2>1, <2>2, <2>3
<1> QED
  BY <1>1, <1>2, <1>3, <1>4, <1>5, <1>6, <1>7 DEF Audit

\* An answer of request q that shows record c is true of c, when all else stays.
LEMMA OneMoreAnswer ==
  ASSUME IndInv, NEW q \in Queries, TypeOK', UNCHANGED <<tenancy, audits>>,
         \A p \in Queries : p # q =>
           UNCHANGED <<qpc[p], about[p], auditorKey[p], answer[p]>>,
         qpc'[q] \in {"fetching", "answered"},
         NEW c \in Calls, about'[q] = c,
         qpc'[q] = "fetching" => leaf[c] # None /\ answer'[q] = None,
         answer'[q] # None =>
           /\ qpc'[q] = "answered"
           /\ answer'[q].status = "anchored" \/ answer'[q].labels # None => leaf[c] # None
           /\ answer'[q].labels # None => answer'[q].labels = PolicyBreakdown(leaf[c])
           /\ answer'[q].status = "anchored" =>
                /\ answer'[q].recheck = ReverifyMode2(leaf[c], auditorKey'[q])
                /\ answer'[q].org = org
                /\ \E fetched \in BOOLEAN :
                     answer'[q].decryption = Decryption(leaf[c], auditorKey'[q], fetched)
  PROVE  IndInv'
<1> USE DEF IndInv, tenancy, audits
<1>0. leaf[c] # None => leaf[c] = RecordOf(ask[c]) /\ ask[c] \in Bodies /\ Evaluates(ask[c])
  BY DEF RecordsAreTrue, KeyFitsRules
<1>1. KeyFitsRules' /\ RecordsAreTrue'
  BY DEF KeyFitsRules, RecordsAreTrue
<1>2. AnswersAreAbout'
  BY DEF AnswersAreAbout
<1>3. KeyValidIsOwners'
  <2> SUFFICES ASSUME NEW p \in Queries, Anchored(p)'
               PROVE  LET d == answer'[p].decryption
                      IN  /\ d.key_valid = TRUE <=>
                               d.key_provided /\ auditorKey'[p] = ask[about'[p]].agent
                          /\ d.record # None <=> d.key_valid = TRUE
                          /\ d.record # None => d.record = ask[about'[p]].fields
    BY DEF KeyValidIsOwners
  <2>1. CASE p = q
    <3>1. PICK fetched \in BOOLEAN :
            answer'[q].decryption = Decryption(RecordOf(ask[c]), auditorKey'[q], fetched)
      BY <2>1, <1>0 DEF Anchored
    <3>2. ask[c] \in Bodies /\ auditorKey'[q] \in Tenants \cup {BadHex, None}
      BY <2>1, <1>0 DEF Anchored, TypeOK
    <3> DEFINE d == answer'[q].decryption
    <3>3. /\ d.key_valid = TRUE <=> d.key_provided /\ auditorKey'[q] = ask[c].agent
          /\ d.record # None <=> d.key_valid = TRUE
          /\ d.record # None => d.record = ask[c].fields
      <4> HIDE DEF IndInv, d
      <4>1. d = Decryption(RecordOf(ask[c]), auditorKey'[q], fetched)
        BY <3>1 DEF d
      <4> QED
        BY <4>1, <3>2, DecryptionTells
    <3> QED
      BY <2>1, <3>3
  <2>2. CASE p # q
    BY <2>2 DEF KeyValidIsOwners, Anchored
  <2> QED
    BY <2>1, <2>2
<1>4. RecheckAgrees'
  <2> SUFFICES ASSUME NEW p \in Queries, Anchored(p)', answer'[p].recheck # None,
                      NEW i \in DOMAIN answer'[p].recheck, answer'[p].recheck[i].matches
               PROVE  LET r == answer'[p].recheck[i]
                      IN  /\ i \in DOMAIN leaf[about'[p]].tokens
                          /\ Rules[ask[about'[p]].agent][i].private
                          /\ IF r.recheck = None
                             THEN leaf[about'[p]].tokens[i] = FALSE
                             ELSE r.recheck = leaf[about'[p]].tokens[i]
    BY DEF RecheckAgrees
  <2>1. CASE p = q
    <3>1. /\ leaf[c] = RecordOf(ask[c]) /\ ask[c] \in Bodies
          /\ answer'[q].recheck = ReverifyMode2(RecordOf(ask[c]), auditorKey'[q])
          /\ auditorKey'[q] \in Tenants \cup {BadHex, None}
      BY <2>1, <1>0 DEF Anchored, TypeOK
    <3> DEFINE r == answer'[q].recheck
    <3>2. /\ i \in DOMAIN RecordOf(ask[c]).tokens
          /\ Rules[ask[c].agent][i].private
          /\ IF r[i].recheck = None THEN RecordOf(ask[c]).tokens[i] = FALSE
             ELSE r[i].recheck = RecordOf(ask[c]).tokens[i]
      <4>1. r # None /\ i \in DOMAIN r /\ r[i].matches
        BY <2>1
      <4>2. /\ r = ReverifyMode2(RecordOf(ask[c]), auditorKey'[q])
            /\ ask[c] \in Bodies /\ auditorKey'[q] \in Tenants \cup {BadHex, None}
        BY <3>1
      <4> HIDE DEF IndInv, r
      <4> QED
        BY <4>1, <4>2, RecheckTells
    <3> QED
      BY <2>1, <3>1, <3>2
  <2>2. CASE p # q
    BY <2>2 DEF RecheckAgrees, Anchored
  <2> QED
    BY <2>1, <2>2
<1>5. LabelsTellTheRule'
  <2>1. ASSUME NEW p \in Queries, answer'[p] # None, answer'[p].labels # None
        PROVE  Tells(answer'[p].labels, ask[about'[p]])
    <3>1. CASE p = q
      BY <2>1, <3>1, <1>0, BreakdownTells DEF Tells
    <3>2. CASE p # q
      BY <2>1, <3>2 DEF LabelsTellTheRule
    <3> QED
      BY <3>1, <3>2
  <2> QED
    BY <2>1 DEF LabelsTellTheRule, Tells
<1>6. RecordedIsRecheckable'
  <2> SUFFICES ASSUME NEW p \in Queries, Anchored(p)'
               PROVE  LET agent == ask[about'[p]].agent
                          private == {i \in DOMAIN Rules[agent] : Rules[agent][i].private}
                      IN  auditorKey'[p] = agent /\ answer'[p].org = agent /\ private # {} =>
                            /\ answer'[p].recheck # None
                            /\ DOMAIN answer'[p].recheck = private
                            /\ \A i \in private : answer'[p].recheck[i].matches
    BY DEF RecordedIsRecheckable
  <2>1. CASE p = q
    <3>1. /\ leaf[c] = RecordOf(ask[c]) /\ ask[c] \in Bodies /\ Evaluates(ask[c])
          /\ answer'[q].recheck = ReverifyMode2(RecordOf(ask[c]), auditorKey'[q])
          /\ answer'[q].org = org
      BY <2>1, <1>0 DEF Anchored
    <3> HIDE DEF IndInv
    <3>2. PICK private : private = {i \in DOMAIN Rules[ask[c].agent] : Rules[ask[c].agent][i].private}
      OBVIOUS
    <3>3. org = ask[c].agent /\ private # {} =>
            LET r == ReverifyMode2(RecordOf(ask[c]), ask[c].agent)
            IN  r # None /\ DOMAIN r = private /\ \A i \in private : r[i].matches
      BY <3>1, <3>2, RecheckIsComplete
    <3> QED
      BY <2>1, <3>1, <3>2, <3>3
  <2>2. CASE p # q
    BY <2>2 DEF RecordedIsRecheckable, Anchored
  <2> QED
    BY <2>1, <2>2
<1> QED
  BY <1>1, <1>2, <1>3, <1>4, <1>5, <1>6

\* Every step of a verify request preserves the inductive invariant.
LEMMA VerifyStep ==
  ASSUME IndInv, NEW q \in Queries, Verify(q)
  PROVE  IndInv'
<1> USE DEF tenancy, audits, Answer
<1>1. ASSUME NEW c \in Calls, NEW key \in Tenants \cup {BadHex, None},
             LookUp(q, c, key) \/ RootUnreadable(q, c, key)
      PROVE  IndInv'
  <2>0. /\ qpc[q] = "idle" /\ answer[q] = None
        /\ DOMAIN answer = Queries
    BY <1>1 DEF LookUp, RootUnreadable, IndInv, AnswersAreAbout, TypeOK
  <2>1. TypeOK'
    BY <1>1 DEF LookUp, RootUnreadable, IndInv, TypeOK
  <2>2. /\ UNCHANGED <<tenancy, audits>>
        /\ \A p \in Queries : p # q =>
             UNCHANGED <<qpc[p], about[p], auditorKey[p], answer[p]>>
        /\ about'[q] = c /\ qpc'[q] \in {"fetching", "answered"}
    BY <1>1 DEF LookUp, RootUnreadable, IndInv, TypeOK
  <2>3. CASE qpc'[q] = "fetching"
    <3>1. leaf[c] # None /\ answer'[q] = None
      BY <1>1, <2>0, <2>3 DEF LookUp, RootUnreadable, IndInv, TypeOK
    <3> QED
      BY <2>1, <2>2, <2>3, <3>1, OneMoreAnswer
  <2>4. CASE qpc'[q] = "answered"
    <3>1. /\ answer'[q].status # "anchored"
          /\ answer'[q].labels # None =>
               leaf[c] # None /\ answer'[q].labels = PolicyBreakdown(leaf[c])
      BY <1>1, <2>0, <2>4 DEF LookUp, RootUnreadable, IndInv, TypeOK
    <3> QED
      BY <2>1, <2>2, <2>4, <3>1, OneMoreAnswer
  <2> QED
    BY <2>2, <2>3, <2>4
<1>2. ASSUME NEW fetched \in BOOLEAN, Verified(q, fetched)
      PROVE  IndInv'
  <2>0. qpc[q] = "fetching" /\ about[q] \in Calls /\ leaf[about[q]] # None
    BY <1>2 DEF Verified, IndInv, AnswersAreAbout
  <2>1. TypeOK'
    BY <1>2 DEF Verified, IndInv, TypeOK
  <2>2. /\ UNCHANGED <<tenancy, audits, about, auditorKey>>
        /\ \A p \in Queries : p # q => UNCHANGED <<qpc[p], answer[p]>>
        /\ qpc'[q] = "answered"
        /\ answer'[q].labels = PolicyBreakdown(leaf[about[q]])
        /\ answer'[q].recheck = ReverifyMode2(leaf[about[q]], auditorKey[q])
        /\ answer'[q].org = org
        /\ answer'[q].decryption = Decryption(leaf[about[q]], auditorKey[q], fetched)
    BY <1>2 DEF Verified, IndInv, TypeOK
  <2> QED
    BY <2>0, <2>1, <2>2, OneMoreAnswer
<1> QED
  BY <1>1, <1>2 DEF Verify

\* Whatever happens preserves the inductive invariant.
LEMMA Step == IndInv /\ [Next]_vars => IndInv'
<1>1. ASSUME IndInv, UNCHANGED vars
      PROVE  IndInv'
  <2>1. /\ TypeOK' /\ KeyFitsRules' /\ RecordsAreTrue' /\ LabelsTellTheRule'
    BY <1>1 DEF vars, tenancy, audits, queries, IndInv, TypeOK, KeyFitsRules, RecordsAreTrue,
       LabelsTellTheRule, Tells
  <2>2. AnswersAreAbout' /\ KeyValidIsOwners' /\ RecheckAgrees' /\ RecordedIsRecheckable'
    BY <1>1, AnswersKept DEF vars, audits, queries, IndInv, TypeOK
  <2> QED
    BY <2>1, <2>2 DEF IndInv
<1> QED
  BY <1>1, AuditStep, VerifyStep DEF Next

-----------------------------------------------------------------------------
(* The theorems *)

\* Before the first tenant is onboarded, the inductive invariant holds.
LEMMA Start == Init => IndInv
BY DEF Init, IndInv, TypeOK, Stages, KeyFitsRules, RecordsAreTrue, AnswersAreAbout,
   KeyValidIsOwners, RecheckAgrees, RecordedIsRecheckable, LabelsTellTheRule, Anchored

\* Records and answers stay true, whoever is onboarded, deleted and onboarded again
\* between the steps of the handlers.
THEOREM Invariance == Spec => []IndInv
BY Start, Step, PTL DEF Spec

\* A record in the trail is sealed under the key of the tenant it belongs to.
THEOREM OwnersCanRead == Spec => []OwnerCanRead
<1>1. IndInv => OwnerCanRead
  BY RecordFacts DEF IndInv, RecordsAreTrue, KeyFitsRules, OwnerCanRead
<1> QED
  BY <1>1, Invariance, PTL

\* Exactly the key of the record's tenant is called valid, and shows the record.
THEOREM ValidKeysAreOwners == Spec => []KeyValidIsOwners
<1>1. IndInv => KeyValidIsOwners
  BY DEF IndInv
<1> QED
  BY <1>1, Invariance, PTL

\* A re-check of a matching document agrees with what was attested on chain.
THEOREM RechecksAgree == Spec => []RecheckAgrees
<1>1. IndInv => RecheckAgrees
  BY DEF IndInv
<1> QED
  BY <1>1, Invariance, PTL

\* While its tenant is there, the owner's key re-checks every private policy of a record.
THEOREM RecordsAreRecheckable == Spec => []RecordedIsRecheckable
<1>1. IndInv => RecordedIsRecheckable
  BY DEF IndInv
<1> QED
  BY <1>1, Invariance, PTL

\* No verdict is shown under the name of another policy.
THEOREM LabelsTell == Spec => []LabelsTellTheRule
<1>1. IndInv => LabelsTellTheRule
  BY DEF IndInv
<1> QED
  BY <1>1, Invariance, PTL
=============================================================================
