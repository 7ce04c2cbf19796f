----------------------------- MODULE Onboarding -----------------------------
(***************************************************************************)
(* Provisioning a tenant, step by step: POST /v1/onboard (api/main.py),    *)
(* scripts/onboard_org.py, and the functions of tenancy/provisioning.py    *)
(* they call, over the tenant store (SQLite) and the policy contract.      *)
(*                                                                         *)
(* A run is one attempt.  The runs of the API never interleave with each   *)
(* other: nothing between the 409 check and the answer gives up the event  *)
(* loop.  The command-line script is another process on the same SQLite    *)
(* file, and so is scripts/reset_demo.py, which deletes orgs.  A run draws *)
(* a fresh opaque agent id, so a run stands for its agent as well as for   *)
(* the credentials in its org row.                                         *)
(*                                                                         *)
(* Members[o][k] lists the values that seed the membership set of run o's  *)
(* k-th policy; it is empty for a numeric or private policy.               *)
(***************************************************************************)
EXTENDS Integers, Sequences, FiniteSets

CONSTANTS
  Runs,            \* onboarding attempts
  Names,           \* org ids
  Name,            \* the org id each run asks for
  ApiRuns,         \* the runs of POST /v1/onboard; the others are scripts
  Members,         \* per run, per policy, the values to seed
  None             \* no such row

CONSTANTS MaxResets, MaxCrashes    \* bounds

ASSUME OnboardingAssumption ==
  /\ ApiRuns \subseteq Runs
  /\ Name \in [Runs -> Names]
  /\ None \notin Runs
  /\ MaxResets \in Nat /\ MaxCrashes \in Nat
ASSUME MembersAssumption ==
  \A o \in Runs : /\ Len(Members[o]) \in Nat
                  /\ \A k \in 1..Len(Members[o]) : Len(Members[o][k]) \in Nat

VARIABLES
  orgs,            \* table orgs: the run that created the row, or None
  agents,          \* table agents: <<org, agent>>
  agent_rules,     \* table agent_rules: [org, agent, idx, rule]
  chain,           \* per agent, the rule boxes in index order
  sets,            \* membership boxes: <<agent, value>>
  pool,            \* transactions sent and not landed: <<run, k, j>>
  pc,              \* what each run does next
  at,              \* per run, <<k, j>>: policy k, its rule (j = 0) or its j-th member
  resets, crashes  \* how many so far (bounds)

tables == <<orgs, agents, agent_rules>>
ledger == <<chain, sets, pool>>
vars   == <<tables, ledger, pc, at, resets, crashes>>

Steps == {"check", "create", "agent", "add_agent", "next", "wait", "failing",
          "refused", "done", "failed", "dead"}
Ended == {"refused", "done", "failed", "dead"}

\* Only one API run is between its first and its last step.
MayRunMutant(o) == TRUE
MayRun(o) ==
  o \in ApiRuns => \A q \in ApiRuns \ {o} : pc[q] \in Ended \cup {"check"}

Goto(o, step) == pc' = [pc EXCEPT ![o] = step]

\* An exception: the API handler goes on to its rollback, a script just ends.
Raise(o) == Goto(o, IF o \in ApiRuns THEN "failing" ELSE "failed")

\* delete_org: one SQLite transaction over the three tables.
DeleteOrg(n) ==
  /\ orgs' = [orgs EXCEPT ![n] = None]
  /\ agents' = {row \in agents : row[1] # n}
  /\ agent_rules' = {row \in agent_rules : row.org # n}

-----------------------------------------------------------------------------
(* One run *)

\* The caller's own check: 409, or a message and exit.
CheckName(o) ==
  /\ pc[o] = "check" /\ MayRun(o)
  /\ Goto(o, IF orgs[Name[o]] = None THEN "create" ELSE "refused")
  /\ UNCHANGED <<tables, ledger, at, resets, crashes>>

\* create_org: it checks again and inserts; either may raise.
CreateOrg(o) ==
  /\ pc[o] = "create"
  /\ IF orgs[Name[o]] = None
     THEN orgs' = [orgs EXCEPT ![Name[o]] = o] /\ Goto(o, "agent")
     ELSE Raise(o) /\ UNCHANGED orgs
  /\ UNCHANGED <<agents, agent_rules, ledger, at, resets, crashes>>

\* register_agent: the org must exist ...
CheckOrg(o) ==
  /\ pc[o] = "agent"
  /\ IF orgs[Name[o]] = None THEN Raise(o) ELSE Goto(o, "add_agent")
  /\ UNCHANGED <<tables, ledger, at, resets, crashes>>

\* ... and the row is inserted without looking again.
AddAgent(o) ==
  /\ pc[o] = "add_agent"
  /\ agents' = agents \cup {<<Name[o], o>>}
  /\ Goto(o, "next")
  /\ UNCHANGED <<orgs, agent_rules, ledger, at, resets, crashes>>

\* register_policy for policy k, up to sending register_rule.  It checks the org
\* row once; seeding its members does not.
SendTxMutant(o) ==
  /\ pc[o] = "next"
  /\ at[o][1] <= Len(Members[o]) + 1
  /\ Goto(o, "wait")
  /\ pool' = pool \cup {<<o, at[o][1], at[o][2]>>}
  /\ UNCHANGED <<tables, chain, sets, at, resets, crashes>>

SendTx(o) ==
  /\ pc[o] = "next"
  /\ at[o][1] <= Len(Members[o])
  /\ IF at[o][2] = 0 /\ orgs[Name[o]] = None
     THEN Raise(o) /\ UNCHANGED pool
     ELSE Goto(o, "wait") /\ pool' = pool \cup {<<o, at[o][1], at[o][2]>>}
  /\ UNCHANGED <<tables, chain, sets, at, resets, crashes>>

\* wait_for_confirmation returned.  For a rule the index in the log names the row
\* that add_rule inserts or replaces; then come its members, then the next policy.
LandedMutant(o, k, j) == TRUE
Landed(o, k, j) == IF j = 0 THEN Len(chain[o]) = k ELSE <<o, Members[o][k][j]>> \in sets

After(o, k, j) == IF j < Len(Members[o][k]) THEN <<k, j + 1>> ELSE <<k + 1, 0>>

AddRule(o, k) ==
  agent_rules' = {row \in agent_rules :
                    ~(row.org = Name[o] /\ row.agent = o /\ row.idx = k - 1)}
                   \cup {[org |-> Name[o], agent |-> o, idx |-> k - 1, rule |-> k]}

Confirmed(o) ==
  LET k == at[o][1]
      j == at[o][2]
  IN  /\ pc[o] = "wait"
      /\ Landed(o, k, j)
      /\ IF j = 0 THEN AddRule(o, k) ELSE UNCHANGED agent_rules
      /\ at' = [at EXCEPT ![o] = After(o, k, j)]
      /\ Goto(o, "next")
      /\ UNCHANGED <<orgs, agents, ledger, resets, crashes>>

\* The node refused the transaction or it was not confirmed in time.
TxFails(o) ==
  /\ pc[o] = "wait"
  /\ Raise(o)
  /\ UNCHANGED <<tables, ledger, at, resets, crashes>>

\* Roll back the half-provisioned org, by its name.
RollbackMutant(o) ==
  /\ pc[o] = "failing"
  /\ Goto(o, "failed")
  /\ orgs' = [orgs EXCEPT ![Name[o]] = None]
  /\ UNCHANGED <<agents, agent_rules, ledger, at, resets, crashes>>

Rollback(o) ==
  /\ pc[o] = "failing"
  /\ DeleteOrg(Name[o])
  /\ Goto(o, "failed")
  /\ UNCHANGED <<ledger, at, resets, crashes>>

\* All policies are registered: the credentials and the agent id are handed out.
FinishMutant(o) ==
  /\ pc[o] = "next"
  /\ at[o][1] >= Len(Members[o])
  /\ Goto(o, "done")
  /\ UNCHANGED <<tables, ledger, at, resets, crashes>>

Finish(o) ==
  /\ pc[o] = "next"
  /\ at[o][1] > Len(Members[o])
  /\ Goto(o, "done")
  /\ UNCHANGED <<tables, ledger, at, resets, crashes>>

\* The process dies in the middle; the tables and the chain stay as they are.
Die(o) ==
  /\ pc[o] \notin Ended \cup {"check"}
  /\ crashes < MaxCrashes
  /\ crashes' = crashes + 1
  /\ Goto(o, "dead")
  /\ UNCHANGED <<tables, ledger, at, resets>>

-----------------------------------------------------------------------------
(* The rest of the world *)

\* register_rule appends at the count; add_to_set writes its box.
LandTx(tx) ==
  LET o == tx[1]
      k == tx[2]
      j == tx[3]
  IN  /\ tx \in pool
      /\ pool' = pool \ {tx}
      /\ IF j = 0
         THEN chain' = [chain EXCEPT ![o] = Append(@, k)] /\ UNCHANGED sets
         ELSE sets' = sets \cup {<<o, Members[o][k][j]>>} /\ UNCHANGED chain
      /\ UNCHANGED <<tables, pc, at, resets, crashes>>

\* The transaction was refused, or expired.
DropTx(tx) ==
  /\ tx \in pool
  /\ pool' = pool \ {tx}
  /\ UNCHANGED <<tables, chain, sets, pc, at, resets, crashes>>

\* reset_demo.py deletes an org it finds in the store.
Reset(n) ==
  /\ orgs[n] # None
  /\ resets < MaxResets
  /\ resets' = resets + 1
  /\ DeleteOrg(n)
  /\ UNCHANGED <<ledger, pc, at, crashes>>

-----------------------------------------------------------------------------

Init ==
  /\ orgs = [n \in Names |-> None]
  /\ agents = {}
  /\ agent_rules = {}
  /\ chain = [o \in Runs |-> << >>]
  /\ sets = {}
  /\ pool = {}
  /\ pc = [o \in Runs |-> "check"]
  /\ at = [o \in Runs |-> <<1, 0>>]
  /\ resets = 0
  /\ crashes = 0

Next ==
  \/ \E o \in Runs :
       \/ CheckName(o) \/ CreateOrg(o) \/ CheckOrg(o) \/ AddAgent(o)
       \/ SendTx(o) \/ Confirmed(o) \/ TxFails(o)
       \/ Rollback(o) \/ Finish(o) \/ Die(o)
  \/ \E tx \in pool : LandTx(tx) \/ DropTx(tx)
  \/ \E n \in Names : Reset(n)

Spec == Init /\ [][Next]_vars

-----------------------------------------------------------------------------
(* Properties *)

\* Every variable has its type.
TypeOK ==
  /\ orgs \in [Names -> Runs \cup {None}]
  /\ agents \subseteq Names \X Runs
  /\ \A row \in agent_rules : /\ DOMAIN row = {"org", "agent", "idx", "rule"}
                              /\ row.org \in Names /\ row.agent \in Runs
                              /\ row.idx \in Nat /\ row.rule \in Nat
  /\ chain \in [Runs -> Seq(Nat)]
  /\ \A box \in sets : box[1] \in Runs
  /\ pool \subseteq Runs \X Nat \X Nat
  /\ \A tx \in pool : tx[2] \in 1..Len(Members[tx[1]])
  /\ pc \in [Runs -> Steps]
  /\ at \in [Runs -> Nat \X Nat]
  /\ resets \in 0..MaxResets
  /\ crashes \in 0..MaxCrashes

\* A rule in the store is on chain, at the same index: build_check_args lines its
\* arrays up with the chain by position.
StoredRulesAreOnChain ==
  \A row \in agent_rules :
     /\ row.idx + 1 \in DOMAIN chain[row.agent]
     /\ chain[row.agent][row.idx + 1] = row.rule

\* An onboarding that handed out its agent id, whose org was not deleted since,
\* left exactly the declared policy set behind: on chain in the declared order,
\* mirrored rule by rule in the store, every membership set seeded.  Timeouts,
\* late transactions and other runs on the same name do not change that.
DoneIsComplete ==
  \A o \in Runs : pc[o] = "done" /\ orgs[Name[o]] = o =>
     /\ <<Name[o], o>> \in agents
     /\ chain[o] = [k \in 1..Len(Members[o]) |-> k]
     /\ {row.idx : row \in {r \in agent_rules : r.agent = o}} = 0..Len(Members[o]) - 1
     /\ \A k \in 1..Len(Members[o]) : \A j \in 1..Len(Members[o][k]) :
          <<o, Members[o][k][j]>> \in sets

\* No script ran and no org was reset so far.
OnlyApi == resets = 0 /\ \A o \in Runs \ ApiRuns : pc[o] = "check"

\* While only the API provisions, a row of any table belongs to an org that exists:
\* a failed attempt leaves nothing behind, nor does a crash leave a stray row.
NoOrphanRows ==
  OnlyApi =>
    /\ \A row \in agents : orgs[row[1]] = row[2]
    /\ \A row \in agent_rules : orgs[row.org] = row.agent

\* What a step deletes, other than a reset, is the org whose own run just failed.
OwnDeletion ==
  \A n \in Names : orgs[n] # None /\ orgs'[n] = None =>
     pc[orgs[n]] = "failing" \/ resets' # resets

\* While only the API provisions, no attempt on a taken name destroys the org that
\* has it, although the rollback goes by the name.
RollbackDeletesOwnOrg == [][OnlyApi => OwnDeletion]_vars

-----------------------------------------------------------------------------
(* The inductive invariant of the safety properties *)

Early   == {"check", "create", "agent", "add_agent", "refused"}
Settled == Early \cup {"next", "done"}   \* every transaction of the run is accounted for

\* How many of its rules a run knows to be on chain.
Known(o) == IF at[o][2] = 0 THEN at[o][1] - 1 ELSE at[o][1]

\* A run goes through its policies, and the members of each, in order.
AtIsInRange ==
  \A o \in Runs :
    /\ at[o][1] \in 1..Len(Members[o]) + 1
    /\ IF at[o][1] \in 1..Len(Members[o]) THEN at[o][2] \in 0..Len(Members[o][at[o][1]])
       ELSE at[o][2] = 0 /\ pc[o] # "wait"
    /\ pc[o] \in Early => at[o] = <<1, 0>>
    /\ pc[o] = "done" => at[o][1] = Len(Members[o]) + 1

\* At most one rule of a run is in the pool or on chain without the run knowing it:
\* the one it waits for, or waited for when it ended.
OneRuleAtATime ==
  \A o \in Runs :
    /\ \A tx \in pool : tx[1] = o /\ tx[3] = 0 =>
         /\ tx[2] = at[o][1] /\ at[o][2] = 0 /\ Len(chain[o]) = Known(o)
         /\ pc[o] \notin Settled
    /\ \/ Len(chain[o]) = Known(o)
       \/ at[o][2] = 0 /\ Len(chain[o]) = at[o][1] /\ pc[o] \notin Settled

\* Rules land in the declared order, and only a landed rule is mirrored.
RulesAreInOrder ==
  /\ \A o \in Runs : \A i \in 1..Len(chain[o]) : chain[o][i] = i
  /\ \A row \in agent_rules : /\ row.org = Name[row.agent] /\ row.rule = row.idx + 1
                              /\ row.rule <= Known(row.agent)

\* Whatever a run has passed is seeded.
SeededSoFar ==
  \A o \in Runs : \A k \in 1..Len(Members[o]) : \A j \in 1..Len(Members[o][k]) :
    k < at[o][1] \/ (k = at[o][1] /\ j < at[o][2]) => <<o, Members[o][k][j]>> \in sets

\* An org row is of the name its run asked for, and a run creates its row once.
OrgsAreOwned ==
  \A n \in Names : orgs[n] # None =>
    Name[orgs[n]] = n /\ pc[orgs[n]] \notin {"check", "create", "refused"}

\* As long as its org row stands, what a run knows to be registered is mirrored.
MirroredSoFar ==
  \A o \in Runs : orgs[Name[o]] = o /\ pc[o] \in {"next", "wait", "done"} =>
    /\ <<Name[o], o>> \in agents
    /\ \A i \in 1..Known(o) : \E row \in agent_rules : row.agent = o /\ row.rule = i

\* The event loop is given to one API run at a time.
OneApiRun ==
  \A o, q \in ApiRuns : o # q => pc[o] \in Ended \cup {"check"} \/ pc[q] \in Ended \cup {"check"}

\* While only the API provisions, the org row is free until its run takes it and
\* stays that run's own as long as it goes on.
ApiOwnsItsRow ==
  OnlyApi => \A o \in Runs :
    /\ pc[o] = "create" => orgs[Name[o]] = None
    /\ pc[o] \in {"agent", "add_agent", "next", "wait", "failing"} => orgs[Name[o]] = o

IndInv ==
  /\ TypeOK
  /\ AtIsInRange
  /\ OneRuleAtATime
  /\ RulesAreInOrder
  /\ SeededSoFar
  /\ OrgsAreOwned
  /\ MirroredSoFar
  /\ OneApiRun
  /\ ApiOwnsItsRow
  /\ NoOrphanRows
=============================================================================
