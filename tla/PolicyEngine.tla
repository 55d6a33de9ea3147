---------------------------- MODULE PolicyEngine ----------------------------
(***************************************************************************)
(* The policy, kill-switch and admission core of the guardrail engine      *)
(* (crates/oppen-core/src/guardrail/engine.rs, kill.rs, kill_release.rs,   *)
(* activation.rs) over the durable policy journal (ledger/policy.rs,       *)
(* ledger/policy_release.rs, the signing permit of ledger/mod.rs).         *)
(*                                                                         *)
(* The engine's state mutex is released between the steps of nearly every  *)
(* operation, so each action below is one critical section of that mutex   *)
(* (or one ledger transaction).  Two adjacent sections are one action only *)
(* where the second commutes with whatever may run between them.           *)
(*                                                                         *)
(*   mut     the operation that holds the mutation mutex, if any           *)
(*   review  the document the operator has in hand (an observation, an     *)
(*           activation review or a kill-release review)                   *)
(*   orders  one evaluate - sign - dispatch pipeline per slot              *)
(*                                                                         *)
(* halted, durable and the fields late and (in acknowledged) pol are       *)
(* history: no guard reads them, the properties do.                        *)
(***************************************************************************)
EXTENDS Naturals, FiniteSets

CONSTANTS
  Agents,           \* agent identities
  Global,           \* KillScope::Global
  Limits,           \* values of the guardrail and account limits of a policy
  Orders,           \* concurrent order pipelines
  AgentOf,          \* the agent an order pipeline serves
  NoAck,            \* acknowledged = None
  NoRoute,          \* activation_scope = None
  MaxRevision,      \* bound on policy revisions (ledger sequence numbers)
  MaxGeneration,    \* u64::MAX of stop_generation
  Operations,       \* the operator operations a deployment exposes besides HALT
  SupervisedAlpha,  \* new_supervised_alpha: acknowledgment only by activation
  StoreFaults,      \* the store may fail, before or after its commit
  PeerWrites,       \* another process may write the same ledger
  Restarts          \* the process may crash and start again

ASSUME ConstantsAssumption ==
  /\ Global \notin Agents
  /\ AgentOf \in [Orders -> Agents]
  /\ Limits # {}
  /\ MaxRevision \in Nat \ {0}
  /\ MaxGeneration \in Nat \ {0}
  /\ Operations \subseteq {"edit", "release", "reviewed_release"}
  /\ SupervisedAlpha \in BOOLEAN
  /\ StoreFaults \in BOOLEAN
  /\ PeerWrites \in BOOLEAN
  /\ Restarts \in BOOLEAN

VARIABLES
  store,            \* the durable policy: revision, predecessor and content
  rev,              \* EngineState.policy_revision
  pol,              \* EngineState.{guardrails, account_limits, kill}
  acknowledged,     \* EngineState.acknowledged
  activation_scope, \* EngineState.activation_scope
  gen,              \* EngineState.stop_generation
  emergency,        \* EngineState.emergency, its scopes
  pending,          \* PendingOperatorKill tokens not yet persisted, per scope
  mut,              \* the holder of the mutation mutex
  review,           \* the operator's document
  orders,           \* the order pipelines
  halted,           \* scopes stopped by this process and not released since
  durable           \* scopes whose durable engagement was confirmed

engine == <<rev, pol, acknowledged, activation_scope, gen, emergency>>
vars == <<store, rev, pol, acknowledged, activation_scope, gen, emergency,
          pending, mut, review, orders, halted, durable>>

-----------------------------------------------------------------------------
(* The kill switch, kill.rs.  Engagements carry a time and a reason; here  *)
(* a scope is engaged or not.                                              *)

Scopes == Agents \cup {Global}

Covers(scope, agent) == scope = Global \/ scope = agent

Blocking(kill, agent) == \E scope \in kill : Covers(scope, agent)

Engage(p, scope) == [p EXCEPT !.kill = @ \cup {scope}]

Release(p, scope) == [p EXCEPT !.kill = @ \ {scope}]

-----------------------------------------------------------------------------
(* Types *)

Policy == [kill : SUBSET Scopes, known : SUBSET Agents, limits : Limits]

Version == [rev : 0..MaxRevision, pol : Policy]

Acknowledgment == [rev : 0..MaxRevision, gen : 0..MaxGeneration,
                   pol : Policy, late : SUBSET Scopes]

EmptyPolicy == [kill |-> {}, known |-> {}, limits |-> CHOOSE l \in Limits : TRUE]

Ops == {"none", "persist", "trip", "edit", "release", "ack", "activate", "confirm"}

Steps == {"idle", "load", "capture", "cas", "adopt", "finish", "verify",
          "acknowledge", "commit", "settle"}

Mutation == [op : Ops, step : Steps, scope : Scopes, base : 0..MaxRevision,
             gen : 0..MaxGeneration, next : Policy, snap : Version,
             late : SUBSET Scopes]

NoMutation == [op |-> "none", step |-> "idle", scope |-> Global, base |-> 0,
               gen |-> 0, next |-> EmptyPolicy,
               snap |-> [rev |-> 0, pol |-> EmptyPolicy], late |-> {}]

Documents == {"none", "reading", "observation", "activation", "reviewed", "release"}

Review == [kind : Documents, scope : Scopes, local : BOOLEAN,
           rev : 0..MaxRevision, gen : 0..MaxGeneration, pol : Policy,
           late : SUBSET Scopes]

NoReview == [kind |-> "none", scope |-> Global, local |-> FALSE, rev |-> 0,
             gen |-> 0, pol |-> EmptyPolicy, late |-> {}]

OrderSteps == {"idle", "loaded", "cleared", "signing", "signed", "sent", "tripped"}

OrderState == [step : OrderSteps, scope : Scopes, rev : 0..MaxRevision, pol : Policy]

NoOrder == [step |-> "idle", scope |-> Global, rev |-> 0, pol |-> EmptyPolicy]

(* Every variable has its type; the generation stays a u64. *)
TypeOK ==
  /\ store \in [rev : 1..MaxRevision, prev : 0..MaxRevision, pol : Policy]
  /\ rev \in 0..MaxRevision
  /\ pol \in Policy
  /\ acknowledged \in Acknowledgment \cup {NoAck}
  /\ activation_scope \in Scopes \cup {NoRoute}
  /\ gen \in 0..MaxGeneration
  /\ emergency \in SUBSET Scopes
  /\ pending \in [Scopes -> SUBSET {"current", "replaced"}]
  /\ mut \in Mutation
  /\ review \in Review
  /\ orders \in [Orders -> OrderState]
  /\ halted \in SUBSET Scopes
  /\ durable \in SUBSET Scopes

-----------------------------------------------------------------------------
(* EngineState *)

EffectiveKill == pol.kill \cup emergency

(* check_acknowledgment, with r the cached policy revision *)
Acknowledged(r) ==
  /\ r # 0
  /\ acknowledged # NoAck
  /\ acknowledged.rev = r
  /\ acknowledged.gen = gen

(* check_scoped_acknowledgment *)
AcknowledgedFor(r, agent) ==
  /\ Acknowledged(r)
  /\ (SupervisedAlpha \/ activation_scope # NoRoute) => activation_scope = agent

NextGeneration_Unsaturated(g) == g + 1

NextGeneration(g) == IF g = MaxGeneration THEN g ELSE g + 1

Inhibit ==
  /\ acknowledged' = NoAck
  /\ activation_scope' = NoRoute
  /\ gen' = NextGeneration(gen)

(* publish succeeds iff the observation neither regresses nor contradicts *)
Publishable(version) ==
  /\ version.rev # 0
  /\ version.rev >= rev
  /\ version.rev = rev => version.pol = pol

Publish(version) == rev' = version.rev /\ pol' = version.pol

CachedPolicyUnchanged == UNCHANGED <<rev, pol>>

AdmissionUnchanged == UNCHANGED <<acknowledged, activation_scope, gen>>

(* stop: the overlay, the inhibition and, as history, the halt itself.  A  *)
(* document or a running operation captured before it becomes late.        *)
Stop(scope) ==
  /\ emergency' = emergency \cup {scope}
  /\ Inhibit
  /\ halted' = halted \cup {scope}
  /\ mut' = IF mut.op \in {"release", "ack", "activate", "confirm"}
            THEN [mut EXCEPT !.late = @ \cup {scope}] ELSE mut
  /\ review' = IF review.kind \in {"observation", "activation", "reviewed", "release"}
               THEN [review EXCEPT !.late = @ \cup {scope}] ELSE review

-----------------------------------------------------------------------------
(* The ledger guard: an OS lock and a connection mutex, held by a signing  *)
(* permit through evidence publication, by an activation through its audit *)
(* row and by a reviewed release through its final check.                  *)

LedgerFree ==
  /\ \A o \in Orders : orders[o].step # "signing"
  /\ mut.step \notin {"acknowledge", "commit", "settle"} \/ mut.op = "ack"

StoreVersion == [rev |-> store.rev, pol |-> store.pol]

(* replace_checked: the outcomes of a compare-and-replace.  An exact retry *)
(* compares engagement times as well, which the model does not keep, so it *)
(* may also be refused as stale.                                           *)
ExactRetry(expected, next) == store.prev = expected /\ expected # 0 /\ store.pol = next

CanCommit_Unchecked(expected, next) == TRUE

CanCommit(expected, next) ==
  store.rev = expected /\ (store.pol = next \/ store.rev < MaxRevision)

Committed_SameRevision(next) == [store EXCEPT !.pol = next]

Committed(next) ==
  IF store.pol = next THEN store
  ELSE [rev |-> store.rev + 1, prev |-> store.rev, pol |-> next]

-----------------------------------------------------------------------------
(* Operator stop, operator edit and plain release.  Every operation that   *)
(* changes policy runs under the mutation mutex: mut.op # "none".          *)

MutationFree == mut.op = "none"

Done == mut' = NoMutation

(* begin_operator_kill: no ledger, no mutation mutex *)
BeginOperatorKill(scope) ==
  /\ Stop(scope)
  /\ pending' = [pending EXCEPT ![scope] = @ \cup {"current"}]
  /\ CachedPolicyUnchanged
  /\ UNCHANGED <<store, orders, durable>>

(* persist_operator_kill takes the mutation mutex and checks that its      *)
(* incarnation is still the one registered for the scope.                  *)
PersistOperatorKill(scope) ==
  /\ MutationFree
  /\ \/ /\ "current" \in pending[scope]
        /\ pending' = [pending EXCEPT ![scope] = @ \ {"current"}]
        /\ mut' = [NoMutation EXCEPT !.op = "persist", !.step = "load", !.scope = scope]
     \/ /\ "replaced" \in pending[scope]
        /\ pending' = [pending EXCEPT ![scope] = @ \ {"replaced"}]
        /\ UNCHANGED mut
  /\ UNCHANGED <<store, engine, review, orders, halted, durable>>

(* refresh_policy, first half: the ledger read, outside the state mutex *)
RefreshLoad ==
  /\ mut.step = "load"
  /\ LedgerFree
  /\ \/ /\ mut' = [mut EXCEPT !.step = IF mut.op = "ack" THEN "verify" ELSE "capture",
                             !.snap = StoreVersion]
        /\ AdmissionUnchanged
     \/ /\ StoreFaults
        /\ Inhibit
        /\ Done
  /\ CachedPolicyUnchanged
  /\ UNCHANGED <<store, emergency, pending, review, orders, halted, durable>>

PersistCandidate_Dropped(p, scope) == p

(* The engagement a persisted stop adds to the refreshed policy *)
PersistCandidate(p, scope) == Engage(p, scope)

(* refresh_policy, second half, then policy_candidate and the first        *)
(* statement of commit_policy.  A stop between them commutes with both.    *)
PersistCapture ==
  /\ mut.step = "capture"
  /\ IF Publishable(mut.snap)
     THEN /\ Publish(mut.snap)
          /\ acknowledged' = NoAck
          /\ mut' = [mut EXCEPT !.step = "cas", !.base = mut.snap.rev,
                               !.next = PersistCandidate(mut.snap.pol, mut.scope),
                               !.snap = NoMutation.snap]
          /\ UNCHANGED <<activation_scope, gen>>
     ELSE /\ Inhibit
          /\ Done
          /\ CachedPolicyUnchanged
  /\ UNCHANGED <<store, emergency, pending, review, orders, halted, durable>>

(* register_agent, operator_set_guardrails, operator_set_account_limits:   *)
(* the whole next policy is computed from the cached one.                  *)
EditCandidates(p) ==
  [kill : {p.kill},
   known : {p.known} \cup {p.known \cup {a} : a \in Agents},
   limits : Limits]

EditPolicy(next) ==
  /\ "edit" \in Operations
  /\ MutationFree
  /\ rev # 0
  /\ next \in EditCandidates(pol)
  /\ acknowledged' = NoAck
  /\ mut' = [NoMutation EXCEPT !.op = "edit", !.step = "cas", !.base = rev, !.next = next]
  /\ CachedPolicyUnchanged
  /\ UNCHANGED <<store, activation_scope, gen, emergency, pending, review, orders,
                 halted, durable>>

(* operator_release_kill up to its commit: captures revision, policy and   *)
(* stop generation in one critical section.                                *)
OperatorReleaseKill(scope) ==
  /\ "release" \in Operations
  /\ MutationFree
  /\ rev # 0
  /\ acknowledged' = NoAck
  /\ mut' = [NoMutation EXCEPT !.op = "release", !.step = "cas", !.scope = scope,
                              !.base = rev, !.gen = gen, !.next = Release(pol, scope)]
  /\ CachedPolicyUnchanged
  /\ UNCHANGED <<store, activation_scope, gen, emergency, pending, review, orders,
                 halted, durable>>

(* What a returned compare_exchange settles about the scope of mut *)
DurableAfter(op, scope) ==
  CASE op \in {"persist", "trip"}     -> durable \cup {scope}
    [] op \in {"release", "confirm"}  -> durable \ {scope}
    [] OTHER                          -> durable

(* commit_policy: the compare-and-replace of ledger/policy.rs.  It returns *)
(* a version, or an error that left the journal alone, or an error after   *)
(* the row was committed (the anchor could not be published).              *)
CompareExchange ==
  /\ mut.step = "cas"
  /\ LedgerFree
  /\ \/ /\ CanCommit(mut.base, mut.next)
        /\ store' = Committed(mut.next)
        /\ durable' = DurableAfter(mut.op, mut.scope)
        /\ mut' = [mut EXCEPT !.step = "adopt", !.base = 0, !.next = EmptyPolicy,
                     !.snap = [rev |-> Committed(mut.next).rev, pol |-> mut.next]]
        /\ AdmissionUnchanged
     \/ /\ ExactRetry(mut.base, mut.next)
        /\ durable' = DurableAfter(mut.op, mut.scope)
        /\ mut' = [mut EXCEPT !.step = "adopt", !.base = 0, !.next = EmptyPolicy,
                     !.snap = StoreVersion]
        /\ AdmissionUnchanged
        /\ UNCHANGED store
     \/ /\ StoreFaults \/ ~CanCommit(mut.base, mut.next)
        /\ Inhibit
        /\ Done
        /\ UNCHANGED <<store, durable>>
     \/ /\ StoreFaults
        /\ CanCommit(mut.base, mut.next)
        /\ store' = Committed(mut.next)
        /\ durable' = IF mut.op = "release" THEN durable \ {mut.scope} ELSE durable
        /\ Inhibit
        /\ Done
  /\ CachedPolicyUnchanged
  /\ UNCHANGED <<emergency, pending, review, orders, halted>>

(* The end of commit_policy: publish what the store returned. *)
AdoptCommitted ==
  /\ mut.step = "adopt"
  /\ IF Publishable(mut.snap)
     THEN /\ Publish(mut.snap)
          /\ AdmissionUnchanged
          /\ mut' = IF mut.op = "release" THEN [mut EXCEPT !.step = "finish",
                       !.snap = NoMutation.snap] ELSE NoMutation
     ELSE /\ Inhibit
          /\ Done
          /\ CachedPolicyUnchanged
  /\ UNCHANGED <<store, emergency, pending, review, orders, halted, durable>>

(* Clearing the local overlay also retires the incarnation, so a persist   *)
(* still waiting for the mutation mutex will refuse.                       *)
ClearOverlay(scope) ==
  /\ emergency' = emergency \ {scope}
  /\ pending' = [pending EXCEPT ![scope] = IF @ = {} THEN @ ELSE {"replaced"}]
  /\ halted' = IF scope \in mut.late THEN halted ELSE halted \ {scope}

NoNewStop_Unchecked(generation) == TRUE

(* Whether no stop arrived since the release captured its generation *)
NoNewStop(generation) == gen = generation

(* The last critical section of operator_release_kill *)
ReleaseFinish ==
  /\ mut.step = "finish"
  /\ IF NoNewStop(mut.gen) THEN ClearOverlay(mut.scope)
     ELSE UNCHANGED <<emergency, pending, halted>>
  /\ Done
  /\ CachedPolicyUnchanged
  /\ AdmissionUnchanged
  /\ UNCHANGED <<store, review, orders, durable>>

-----------------------------------------------------------------------------
(* Acknowledgment of the reviewed policy and stop generation *)

(* policy_observation: refresh_policy without the mutation mutex, then the *)
(* pair the operator reviews.                                              *)
ObserveLoad ==
  /\ LedgerFree
  /\ ~SupervisedAlpha
  /\ \/ /\ review' = [NoReview EXCEPT !.kind = "reading", !.rev = store.rev, !.pol = store.pol]
        /\ AdmissionUnchanged
     \/ /\ StoreFaults
        /\ review' = NoReview
        /\ Inhibit
  /\ CachedPolicyUnchanged
  /\ UNCHANGED <<store, emergency, pending, mut, orders, halted, durable>>

ObservePublish ==
  /\ review.kind = "reading"
  /\ LET version == [rev |-> review.rev, pol |-> review.pol] IN
     IF Publishable(version)
     THEN /\ Publish(version)
          /\ AdmissionUnchanged
          /\ review' = [review EXCEPT !.kind = "observation", !.gen = gen, !.late = {}]
     ELSE /\ Inhibit
          /\ review' = NoReview
          /\ CachedPolicyUnchanged
  /\ UNCHANGED <<store, emergency, pending, mut, orders, halted, durable>>

(* operator_acknowledge_policy; the operator keeps the observation and may *)
(* present it again.                                                       *)
OperatorAcknowledgePolicy ==
  /\ ~SupervisedAlpha
  /\ MutationFree
  /\ review.kind = "observation"
  /\ mut' = [NoMutation EXCEPT !.op = "ack", !.step = "load", !.base = review.rev,
                !.gen = review.gen, !.next = review.pol, !.late = review.late]
  /\ UNCHANGED <<store, engine, pending, review, orders, halted, durable>>

ObservedCurrent_RevisionOnly(r) == mut.base = r

(* The observed pair is still current, with r the cached revision, and the *)
(* generation is not exhausted.                                            *)
ObservedCurrent(r) ==
  /\ mut.base = r
  /\ mut.gen = gen
  /\ mut.gen # MaxGeneration

(* The refresh's publication, the first check and the clearing of any      *)
(* earlier acknowledgment                                                  *)
AckVerify ==
  /\ mut.op = "ack" /\ mut.step = "verify"
  /\ IF Publishable(mut.snap) THEN Publish(mut.snap) ELSE CachedPolicyUnchanged
  /\ IF Publishable(mut.snap) /\ ObservedCurrent(mut.snap.rev)
     THEN /\ acknowledged' = NoAck
          /\ mut' = [mut EXCEPT !.step = "acknowledge", !.snap = NoMutation.snap]
          /\ UNCHANGED <<activation_scope, gen>>
     ELSE Inhibit /\ Done
  /\ UNCHANGED <<store, emergency, pending, review, orders, halted, durable>>

(* The audit row, which may fail, and the second check *)
AckFinish ==
  /\ mut.op = "ack" /\ mut.step = "acknowledge"
  /\ LedgerFree
  /\ \/ /\ ObservedCurrent(rev)
        /\ acknowledged' = [rev |-> mut.base, gen |-> mut.gen, pol |-> mut.next, late |-> mut.late]
        /\ UNCHANGED <<activation_scope, gen>>
     \/ /\ StoreFaults \/ ~ObservedCurrent(rev)
        /\ Inhibit
  /\ Done
  /\ CachedPolicyUnchanged
  /\ UNCHANGED <<store, emergency, pending, review, orders, halted, durable>>

-----------------------------------------------------------------------------
(* Supervised alpha: activation.rs.  Evidence, deadlines, feed and pairing *)
(* checks may refuse at any point.                                         *)

(* check_local of activation.rs, with r the revision read from the ledger *)
ActivationLocal(r, generation, agent) ==
  /\ generation # MaxGeneration
  /\ gen = generation
  /\ rev = r
  /\ acknowledged = NoAck
  /\ ~Blocking(EffectiveKill, agent)

(* begin_activation_review: inhibits first, then publishes the policy it   *)
(* reads under the ledger guard.                                           *)
BeginActivationReview(agent) ==
  /\ SupervisedAlpha
  /\ MutationFree
  /\ LedgerFree
  /\ Inhibit
  /\ \/ /\ Publishable(StoreVersion)
        /\ Publish(StoreVersion)
        /\ \/ /\ NextGeneration(gen) # MaxGeneration
              /\ ~Blocking(store.pol.kill \cup emergency, agent)
              /\ review' = [NoReview EXCEPT !.kind = "activation", !.scope = agent,
                              !.rev = store.rev, !.gen = NextGeneration(gen), !.pol = store.pol]
           \/ review' = NoReview
     \/ /\ review' = NoReview
        /\ CachedPolicyUnchanged
  /\ UNCHANGED <<store, emergency, pending, mut, orders, halted, durable>>

(* review_activation: without the mutation mutex; failure inhibits *)
ReviewActivation ==
  /\ review.kind = "activation"
  /\ LedgerFree
  /\ \/ /\ store.rev = review.rev
        /\ store.pol = review.pol
        /\ ActivationLocal(store.rev, review.gen, review.scope)
        /\ review' = [review EXCEPT !.kind = "reviewed"]
        /\ AdmissionUnchanged
     \/ /\ review' = NoReview
        /\ Inhibit
  /\ CachedPolicyUnchanged
  /\ UNCHANGED <<store, emergency, pending, mut, orders, halted, durable>>

(* confirm_activation up to its audit row; the ledger guard stays held *)
ConfirmActivation ==
  /\ SupervisedAlpha
  /\ MutationFree
  /\ review.kind = "reviewed"
  /\ LedgerFree
  /\ review' = NoReview
  /\ \/ /\ store.rev = review.rev
        /\ store.pol = review.pol
        /\ ActivationLocal(store.rev, review.gen, review.scope)
        /\ mut' = [NoMutation EXCEPT !.op = "activate", !.step = "acknowledge",
                     !.scope = review.scope, !.base = review.rev, !.gen = review.gen,
                     !.next = review.pol, !.late = review.late]
        /\ AdmissionUnchanged
     \/ /\ Inhibit
        /\ UNCHANGED mut
  /\ CachedPolicyUnchanged
  /\ UNCHANGED <<store, emergency, pending, orders, halted, durable>>

(* The rest of confirm_activation: every local check again, then the       *)
(* acknowledgment and the one route it covers.                             *)
ActivationFinish ==
  /\ mut.op = "activate" /\ mut.step = "acknowledge"
  /\ \/ /\ ActivationLocal(mut.base, mut.gen, mut.scope)
        /\ acknowledged' = [rev |-> mut.base, gen |-> mut.gen, pol |-> mut.next, late |-> mut.late]
        /\ activation_scope' = mut.scope
        /\ UNCHANGED gen
     \/ Inhibit
  /\ Done
  /\ CachedPolicyUnchanged
  /\ UNCHANGED <<store, emergency, pending, review, orders, halted, durable>>

-----------------------------------------------------------------------------
(* Reviewed release: kill_release.rs and ledger/policy_release.rs *)

(* review_kill_release: inhibits, publishes and captures the stop evidence *)
ReviewKillRelease(scope) ==
  /\ "reviewed_release" \in Operations
  /\ MutationFree
  /\ LedgerFree
  /\ Inhibit
  /\ \/ /\ Publishable(StoreVersion)
        /\ Publish(StoreVersion)
        /\ \/ /\ scope \in store.pol.kill \cup emergency
              /\ scope = Global \/ scope \in store.pol.known
              /\ NextGeneration(gen) # MaxGeneration
              /\ review' = [NoReview EXCEPT !.kind = "release", !.scope = scope,
                              !.local = scope \in emergency, !.rev = store.rev,
                              !.gen = NextGeneration(gen), !.pol = store.pol]
           \/ review' = NoReview
     \/ /\ review' = NoReview
        /\ CachedPolicyUnchanged
  /\ UNCHANGED <<store, emergency, pending, mut, orders, halted, durable>>

(* confirm_kill_release up to its commit: the overlay is raised first, so  *)
(* a release that commits but cannot prove it leaves the scope stopped.    *)
ConfirmKillRelease ==
  /\ MutationFree
  /\ review.kind = "release"
  /\ LedgerFree
  /\ review' = NoReview
  /\ \/ /\ store.rev = review.rev /\ store.pol = review.pol
        /\ gen = review.gen /\ gen # MaxGeneration
        /\ rev = review.rev
        /\ (review.scope \in emergency) = review.local
        /\ emergency' = emergency \cup {review.scope}
        /\ acknowledged' = NoAck
        /\ activation_scope' = NoRoute
        /\ mut' = [NoMutation EXCEPT !.op = "confirm", !.step = "commit",
                     !.scope = review.scope, !.base = review.rev, !.gen = review.gen,
                     !.next = Release(review.pol, review.scope), !.late = review.late]
     \/ UNCHANGED <<emergency, acknowledged, activation_scope, mut>>
  /\ CachedPolicyUnchanged
  /\ UNCHANGED <<store, gen, pending, orders, halted, durable>>

(* ReleasePermit::commit with its final gate; always a new policy row, and *)
(* one that no compare-and-replace takes for its own retry.                *)
CommitKillRelease ==
  /\ mut.step = "commit"
  /\ \/ /\ gen = mut.gen
        /\ store.rev < MaxRevision
        /\ store' = [rev |-> store.rev + 1, prev |-> 0, pol |-> mut.next]
        /\ durable' = DurableAfter(mut.op, mut.scope)
        /\ \/ mut' = [mut EXCEPT !.step = "settle",
                        !.snap = [rev |-> store.rev + 1, pol |-> mut.next]]
           \/ StoreFaults /\ Done
     \/ /\ Done
        /\ UNCHANGED <<store, durable>>
  /\ UNCHANGED <<engine, pending, review, orders, halted>>

(* The end of confirm_kill_release, still under the ledger guard *)
SettleKillRelease ==
  /\ mut.step = "settle"
  /\ \/ /\ NoNewStop(mut.gen)
        /\ Publishable(mut.snap)
        /\ Publish(mut.snap)
        /\ ClearOverlay(mut.scope)
        /\ Inhibit
     \/ UNCHANGED <<engine, pending, halted>>
  /\ Done
  /\ UNCHANGED <<store, review, orders, durable>>

-----------------------------------------------------------------------------
(* An order: evaluate, sign, dispatch.  Everything decide measures that is *)
(* not policy (freshness, exposure, caps, rate) may refuse at any point.   *)

Becomes(o, state) == orders' = [orders EXCEPT ![o] = state]

AtStep(o, step) == [orders[o] EXCEPT !.step = step]

(* decide: refresh_policy's ledger read *)
EvaluateLoad(o) ==
  /\ orders[o].step = "idle"
  /\ LedgerFree
  /\ \/ /\ Becomes(o, [NoOrder EXCEPT !.step = "loaded", !.rev = store.rev, !.pol = store.pol])
        /\ AdmissionUnchanged
     \/ /\ StoreFaults
        /\ Inhibit
        /\ UNCHANGED orders
  /\ CachedPolicyUnchanged
  /\ UNCHANGED <<store, emergency, pending, mut, review, halted, durable>>

Loaded(o) == [rev |-> orders[o].rev, pol |-> orders[o].pol]

(* What decide asks of the published policy before it measures the order *)
MayTrade(o) ==
  /\ AgentOf[o] \in orders[o].pol.known
  /\ ~Blocking(orders[o].pol.kill \cup emergency, AgentOf[o])
  /\ AcknowledgedFor(orders[o].rev, AgentOf[o])

(* decide: publication and verdict, one action because a stop between the  *)
(* two is the same stop before both                                        *)
Evaluate(o) ==
  /\ orders[o].step = "loaded"
  /\ \/ /\ ~Publishable(Loaded(o))
        /\ Inhibit
        /\ Becomes(o, NoOrder)
        /\ CachedPolicyUnchanged
     \/ /\ Publishable(Loaded(o))
        /\ Publish(Loaded(o))
        /\ AdmissionUnchanged
        /\ \/ MayTrade(o) /\ Becomes(o, AtStep(o, "cleared"))
           \/ Becomes(o, NoOrder)
  /\ UNCHANGED <<store, emergency, pending, mut, review, halted, durable>>

(* decide: a loss limit is breached.  The switch is engaged locally, and   *)
(* the next policy is fixed at the evaluated revision before the mutation  *)
(* mutex is taken.                                                         *)
EvaluateBreach(o, scope) ==
  /\ orders[o].step = "loaded"
  /\ scope \in {AgentOf[o], Global}
  /\ Publishable(Loaded(o))
  /\ MayTrade(o)
  /\ Publish(Loaded(o))
  /\ Stop(scope)
  /\ Becomes(o, [step |-> "tripped", scope |-> scope, rev |-> orders[o].rev,
                 pol |-> Engage(orders[o].pol, scope)])
  /\ UNCHANGED <<store, pending, durable>>

TripCommit(o) ==
  /\ orders[o].step = "tripped"
  /\ MutationFree
  /\ acknowledged' = NoAck
  /\ mut' = [NoMutation EXCEPT !.op = "trip", !.step = "cas", !.scope = orders[o].scope,
                !.base = orders[o].rev, !.next = orders[o].pol]
  /\ Becomes(o, NoOrder)
  /\ CachedPolicyUnchanged
  /\ UNCHANGED <<store, activation_scope, gen, emergency, pending, review, halted, durable>>

BeforeSign_AnyRevision(o) == AgentOf[o] \in store.pol.known

(* check_signing_in: the ledger's own view of the clearance *)
BeforeSign(o) ==
  /\ store.rev = orders[o].rev
  /\ AgentOf[o] \in store.pol.known
  /\ ~Blocking(store.pol.kill, AgentOf[o])

(* The policy part of check_state *)
PolicyHolds(o) ==
  /\ orders[o].rev = rev
  /\ AcknowledgedFor(rev, AgentOf[o])

(* check_state of an order *)
CheckState(o) ==
  /\ PolicyHolds(o)
  /\ AgentOf[o] \in pol.known
  /\ ~Blocking(EffectiveKill, AgentOf[o])

(* sign_common up to the signature: takes the signing permit *)
SignCheck(o) ==
  /\ orders[o].step = "cleared"
  /\ LedgerFree
  /\ \/ /\ BeforeSign(o) /\ CheckState(o)
        /\ Becomes(o, AtStep(o, "signing"))
        /\ AdmissionUnchanged
     \/ /\ Becomes(o, NoOrder)
        /\ AdmissionUnchanged
     \/ /\ StoreFaults \/ store.rev # orders[o].rev \/ ~PolicyHolds(o)
        /\ Becomes(o, NoOrder)
        /\ Inhibit
  /\ CachedPolicyUnchanged
  /\ UNCHANGED <<store, emergency, pending, mut, review, halted, durable>>

(* The signature's evidence is published with the state mutex released and *)
(* the permit held; every local predicate is then checked again.           *)
SignFinish(o) ==
  /\ orders[o].step = "signing"
  /\ \/ /\ BeforeSign(o) /\ CheckState(o)
        /\ Becomes(o, AtStep(o, "signed"))
        /\ AdmissionUnchanged
     \/ /\ Becomes(o, NoOrder)
        /\ AdmissionUnchanged
     \/ /\ StoreFaults \/ ~PolicyHolds(o)
        /\ Becomes(o, NoOrder)
        /\ Inhibit
  /\ CachedPolicyUnchanged
  /\ UNCHANGED <<store, emergency, pending, mut, review, halted, durable>>

(* post_authorized: the same gate, then the first poll of the HTTP request *)
(* while ledger permit and state mutex are held                            *)
Dispatch(o) ==
  /\ orders[o].step = "signed"
  /\ LedgerFree
  /\ \/ BeforeSign(o) /\ CheckState(o) /\ Becomes(o, [NoOrder EXCEPT !.step = "sent"])
     \/ Becomes(o, NoOrder)
  /\ UNCHANGED <<store, engine, pending, mut, review, halted, durable>>

(* The venue answered, or the transport gave up: the pipeline ends *)
PostResult(o) ==
  /\ orders[o].step = "sent"
  /\ Becomes(o, NoOrder)
  /\ UNCHANGED <<store, engine, pending, mut, review, halted, durable>>

-----------------------------------------------------------------------------
(* The world around the engine *)

(* Another process with the same ledger replaces the policy: it engages or *)
(* releases one scope, adds an agent or changes the limits.                *)
PeerWrite(next, released) ==
  /\ PeerWrites
  /\ LedgerFree
  /\ store.rev < MaxRevision
  /\ next # store.pol
  /\ store' = [rev |-> store.rev + 1, prev |-> store.rev, pol |-> next]
  /\ durable' = durable \ released
  /\ UNCHANGED <<engine, pending, mut, review, orders, halted>>

(* A crash, then build: everything in memory is gone, and the journal is   *)
(* published when it can be read.                                          *)
Restart ==
  /\ Restarts
  /\ \/ rev' = store.rev /\ pol' = store.pol
     \/ StoreFaults /\ rev' = 0 /\ pol' = EmptyPolicy
  /\ acknowledged' = NoAck
  /\ activation_scope' = NoRoute
  /\ gen' = 0
  /\ emergency' = {}
  /\ pending' = [s \in Scopes |-> {}]
  /\ mut' = NoMutation
  /\ review' = NoReview
  /\ orders' = [o \in Orders |-> NoOrder]
  /\ halted' = {}
  /\ UNCHANGED <<store, durable>>

(* PolicyInitialized demands an explicit global engagement. *)
Init ==
  /\ store \in [rev : {1}, prev : {0}, pol : [kill : {{Global}}, known : SUBSET Agents, limits : Limits]]
  /\ rev = store.rev
  /\ pol = store.pol
  /\ acknowledged = NoAck
  /\ activation_scope = NoRoute
  /\ gen = 0
  /\ emergency = {}
  /\ pending = [s \in Scopes |-> {}]
  /\ mut = NoMutation
  /\ review = NoReview
  /\ orders = [o \in Orders |-> NoOrder]
  /\ halted = {}
  /\ durable = {Global}

Mutating ==
  \/ RefreshLoad \/ PersistCapture \/ CompareExchange \/ AdoptCommitted
  \/ ReleaseFinish \/ AckVerify \/ AckFinish \/ ActivationFinish
  \/ CommitKillRelease \/ SettleKillRelease

Operator ==
  \/ \E scope \in Scopes :
        \/ BeginOperatorKill(scope) \/ PersistOperatorKill(scope)
        \/ OperatorReleaseKill(scope) \/ ReviewKillRelease(scope)
  \/ \E next \in EditCandidates(pol) : EditPolicy(next)
  \/ ObserveLoad \/ ObservePublish \/ OperatorAcknowledgePolicy
  \/ \E agent \in Agents : BeginActivationReview(agent)
  \/ ReviewActivation \/ ConfirmActivation \/ ConfirmKillRelease

Trading ==
  \E o \in Orders :
    \/ EvaluateLoad(o) \/ Evaluate(o) \/ TripCommit(o)
    \/ \E scope \in Scopes : EvaluateBreach(o, scope)
    \/ SignCheck(o) \/ SignFinish(o) \/ Dispatch(o) \/ PostResult(o)

Environment ==
  \/ \E scope \in Scopes : PeerWrite(Engage(store.pol, scope), {})
  \/ \E scope \in Scopes : PeerWrite(Release(store.pol, scope), {scope})
  \/ \E next \in EditCandidates(store.pol) : PeerWrite(next, {})
  \/ Restart

Next == Mutating \/ Operator \/ Trading \/ Environment

Spec == Init /\ [][Next]_vars

(* A holder of the mutation mutex runs to its end, as does a signer with   *)
(* the ledger permit; a HALT waiting for the mutation mutex gets it.       *)
Fairness ==
  /\ WF_vars(Mutating)
  /\ \A o \in Orders : WF_vars(SignFinish(o))
  /\ \A scope \in Scopes : SF_vars(PersistOperatorKill(scope))

FairSpec == Spec /\ Fairness

-----------------------------------------------------------------------------
(* Properties *)

Admitted == [o \in Orders |-> IF orders[o].step \in {"signed", "sent"}
                              THEN orders[o].step ELSE "no"]

HG == INSTANCE HaltGate WITH admitted <- Admitted

(* The engine implements HaltGate: whatever releases, persists, breaker    *)
(* trips, acknowledgments and peers interleave, no order is signed or sent *)
(* while a stop of its scope is unreleased, and a confirmed engagement     *)
(* outlives a crash (spec item 26; begin_operator_kill, check_state).      *)
HaltHonoured == HG!Spec

(* "Persisted before it is reported, so an engagement the operator has     *)
(* been shown is an engagement that survives a restart" (doc comment of    *)
(* operator_engage_kill): no later full-state replacement, by any writer,  *)
(* drops a confirmed engagement that nobody released.                      *)
ConfirmedKillIsDurable == durable \subseteq store.pol.kill

(* A valid acknowledgment names exactly the policy the operator reviewed,  *)
(* and no stop was requested after that review (stop_generation is never   *)
(* reused, not even when it is exhausted).                                 *)
AckReflectsReview ==
  Acknowledged(rev) => acknowledged.pol = pol /\ acknowledged.late = {}

(* An order is signed or sent only under the durable policy it was         *)
(* evaluated against, whoever wrote the ledger in between                  *)
(* (check_signing_in under the signing permit).                            *)
AdmittedUnderEvaluatedPolicy ==
  [][\A o \in Orders :
       orders'[o].step \in {"signed", "sent"} /\ orders'[o].step # orders[o].step
         => store.rev = orders[o].rev /\ store.pol = orders[o].pol]_vars

(* Without store failures, a requested stop reaches the journal: whatever  *)
(* else queues for the mutation mutex, its persist neither starves nor     *)
(* loses its compare-and-replace, unless the scope was released meanwhile  *)
(* (or the bound on revisions is reached).                                 *)
HaltBecomesDurable ==
  \A scope \in Scopes :
    "current" \in pending[scope]
      ~> \/ scope \in store.pol.kill
         \/ scope \notin emergency
         \/ store.rev = MaxRevision

(* The caches never run ahead of the journal, and equal revisions mean     *)
(* equal policies: publish never has to refuse "policy changed without a   *)
(* revision".                                                              *)
RevisionNamesPolicy ==
  /\ rev <= store.rev
  /\ rev = store.rev => pol = store.pol

=============================================================================
