------------------------- MODULE PolicyEngineProofs -------------------------
(***************************************************************************)
(* Types and safety of PolicyEngine for every value of its constants.      *)
(*                                                                         *)
(* One inductive invariant carries all of them.  Its parts say why the     *)
(* engine may drop its mutex around every ledger access: each copy of the  *)
(* policy that is kept across such a gap agrees with the journal if it     *)
(* names the journal's revision, each candidate keeps what the revision it *)
(* is based on engages, each document the operator holds was published     *)
(* before it was handed out, and a stop generation that is still current   *)
(* has seen no stop since it was captured.                                 *)
(***************************************************************************)
EXTENDS PolicyEngine, TLAPS

-----------------------------------------------------------------------------
(* Types *)

(* The policy of an engine that has read nothing is a policy. *)
LEMMA EmptyPolicyType == EmptyPolicy \in Policy
BY ConstantsAssumption DEF EmptyPolicy, Policy

(* The records for no mutation, no review and no order have their types. *)
LEMMA EmptyRecordsType ==
  /\ NoMutation \in Mutation
  /\ NoReview \in Review
  /\ NoOrder \in OrderState
<1> USE EmptyPolicyType, ConstantsAssumption
<1>1. NoMutation \in Mutation
  BY DEF NoMutation, Mutation, Ops, Steps, Scopes, Version
<1>2. NoReview \in Review
  BY DEF NoReview, Review, Documents, Scopes
<1>3. NoOrder \in OrderState
  BY DEF NoOrder, OrderState, OrderSteps, Scopes
<1> QED BY <1>1, <1>2, <1>3

(* The kill switch operators stay within policies. *)
LEMMA KillSwitchType ==
  ASSUME NEW p \in Policy, NEW scope \in Scopes
  PROVE  Engage(p, scope) \in Policy /\ Release(p, scope) \in Policy
BY DEF Engage, Release, Policy

(* next_stop_generation saturates: it stays within its bound. *)
LEMMA NextGenerationType ==
  ASSUME NEW g \in 0..MaxGeneration
  PROVE  NextGeneration(g) \in 0..MaxGeneration
BY ConstantsAssumption DEF NextGeneration

(* Withdrawing the acknowledgment and the route keeps their types. *)
LEMMA InhibitType ==
  ASSUME TypeOK, Inhibit
  PROVE  /\ acknowledged' \in Acknowledgment \cup {NoAck}
         /\ activation_scope' \in Scopes \cup {NoRoute}
         /\ gen' \in 0..MaxGeneration
BY NextGenerationType DEF TypeOK, Inhibit

(* A stop keeps the variables it touches in their types. *)
LEMMA StopType ==
  ASSUME TypeOK, NEW scope \in Scopes, Stop(scope)
  PROVE  /\ emergency' \in SUBSET Scopes
         /\ acknowledged' \in Acknowledgment \cup {NoAck}
         /\ activation_scope' \in Scopes \cup {NoRoute}
         /\ gen' \in 0..MaxGeneration
         /\ halted' \in SUBSET Scopes
         /\ mut' \in Mutation
         /\ review' \in Review
<1>1. mut' \in Mutation
  BY DEF TypeOK, Stop, Mutation
<1>2. review' \in Review
  BY DEF TypeOK, Stop, Review
<1> QED BY <1>1, <1>2, InhibitType DEF TypeOK, Stop

(* What the type invariant says of the operation that holds the mutation *)
(* mutex.                                                                *)
LEMMA MutationFields ==
  ASSUME TypeOK
  PROVE  /\ mut \in Mutation /\ NoMutation \in Mutation
         /\ mut.scope \in Scopes /\ mut.base \in 0..MaxRevision
         /\ mut.gen \in 0..MaxGeneration /\ mut.next \in Policy
         /\ mut.snap \in Version /\ NoMutation.snap \in Version
         /\ mut.snap.rev \in 0..MaxRevision /\ mut.snap.pol \in Policy
         /\ mut.late \in SUBSET Scopes
BY EmptyRecordsType DEF TypeOK, Mutation, Version

(* What the type invariant says of the operator's document. *)
LEMMA ReviewFields ==
  ASSUME TypeOK
  PROVE  /\ review \in Review /\ NoReview \in Review
         /\ review.scope \in Scopes /\ review.rev \in 0..MaxRevision
         /\ review.gen \in 0..MaxGeneration /\ review.pol \in Policy
         /\ review.late \in SUBSET Scopes
BY EmptyRecordsType DEF TypeOK, Review

(* What the type invariant says of the journal and of the cached copy. *)
LEMMA StoreFields ==
  ASSUME TypeOK
  PROVE  /\ store.rev \in 0..MaxRevision /\ store.pol \in Policy
         /\ StoreVersion \in Version
BY ConstantsAssumption DEF TypeOK, StoreVersion, Version

(* Every action keeps every variable in its type. *)
LEMMA TypeStep == TypeOK /\ [Next]_vars => TypeOK'
<1> SUFFICES ASSUME TypeOK, [Next]_vars PROVE TypeOK'
  OBVIOUS
<1>1. ASSUME NEW scope \in Scopes, BeginOperatorKill(scope) PROVE TypeOK'
  BY <1>1, StopType DEF BeginOperatorKill, CachedPolicyUnchanged, TypeOK
<1>2. ASSUME NEW scope \in Scopes, PersistOperatorKill(scope) PROVE TypeOK'
  <2>1. [NoMutation EXCEPT !.op = "persist", !.step = "load", !.scope = scope] \in Mutation
    BY MutationFields DEF Mutation, Ops, Steps
  <2>2. mut' \in Mutation
    BY <1>2, MutationFields, <2>1 DEF PersistOperatorKill
  <2>3. pending' \in [Scopes -> SUBSET {"current", "replaced"}]
    BY <1>2 DEF PersistOperatorKill, TypeOK
  <2> QED BY <1>2, <2>2, <2>3 DEF PersistOperatorKill, engine, TypeOK
<1>3. ASSUME NEW scope \in Scopes, OperatorReleaseKill(scope) PROVE TypeOK'
  <2>1. Release(pol, scope) \in Policy
    BY KillSwitchType DEF TypeOK
  <2>2. rev \in 0..MaxRevision /\ gen \in 0..MaxGeneration
    BY DEF TypeOK
  <2>3. [NoMutation EXCEPT !.op = "release", !.step = "cas", !.scope = scope,
          !.base = rev, !.gen = gen, !.next = Release(pol, scope)] \in Mutation
    BY MutationFields, <2>1, <2>2 DEF Mutation, Ops, Steps
  <2>4. mut' \in Mutation
    BY <1>3, <2>3 DEF OperatorReleaseKill
  <2> QED BY <1>3, <2>4 DEF OperatorReleaseKill, CachedPolicyUnchanged, TypeOK
<1>4. ASSUME NEW scope \in Scopes, ReviewKillRelease(scope) PROVE TypeOK'
  <2>1. /\ acknowledged' \in Acknowledgment \cup {NoAck}
        /\ activation_scope' \in Scopes \cup {NoRoute}
        /\ gen' \in 0..MaxGeneration
    BY <1>4, InhibitType DEF ReviewKillRelease, AdmissionUnchanged, TypeOK
  <2>2. rev' \in 0..MaxRevision /\ pol' \in Policy
    BY <1>4 DEF ReviewKillRelease, Publish, CachedPolicyUnchanged, StoreVersion, TypeOK
  <2>3. NextGeneration(gen) \in 0..MaxGeneration
    BY NextGenerationType DEF TypeOK
  <2>4. ASSUME NEW b \in BOOLEAN
        PROVE  [NoReview EXCEPT !.kind = "release", !.scope = scope, !.local = b,
                  !.rev = store.rev, !.gen = NextGeneration(gen), !.pol = store.pol] \in Review
    BY StoreFields, ReviewFields, <2>3 DEF Review, Documents
  <2>5. (scope \in emergency) \in BOOLEAN
    OBVIOUS
  <2>6. review' \in Review
    BY <1>4, ReviewFields, <2>4, <2>5 DEF ReviewKillRelease
  <2> QED BY <1>4, <2>1, <2>2, <2>6 DEF ReviewKillRelease, TypeOK
<1>5. ASSUME NEW next \in EditCandidates(pol), EditPolicy(next) PROVE TypeOK'
  <2>1. pol \in Policy /\ rev \in 0..MaxRevision
    BY DEF TypeOK
  <2>2. next \in Policy
    BY <2>1 DEF EditCandidates, Policy
  <2>3. [NoMutation EXCEPT !.op = "edit", !.step = "cas", !.base = rev, !.next = next] \in Mutation
    BY MutationFields, <2>1, <2>2 DEF Mutation, Ops, Steps
  <2>4. mut' \in Mutation
    BY <1>5, <2>3 DEF EditPolicy
  <2> QED BY <1>5, <2>4 DEF EditPolicy, CachedPolicyUnchanged, TypeOK
<1>6. ASSUME NEW agent \in Agents, BeginActivationReview(agent) PROVE TypeOK'
  <2>1. /\ acknowledged' \in Acknowledgment \cup {NoAck}
        /\ activation_scope' \in Scopes \cup {NoRoute}
        /\ gen' \in 0..MaxGeneration
    BY <1>6, InhibitType DEF BeginActivationReview, AdmissionUnchanged, TypeOK
  <2>2. rev' \in 0..MaxRevision /\ pol' \in Policy
    BY <1>6 DEF BeginActivationReview, Publish, CachedPolicyUnchanged, StoreVersion, TypeOK
  <2>3. NextGeneration(gen) \in 0..MaxGeneration
    BY NextGenerationType DEF TypeOK
  <2>4. [NoReview EXCEPT !.kind = "activation", !.scope = agent, !.rev = store.rev,
          !.gen = NextGeneration(gen), !.pol = store.pol] \in Review
    BY StoreFields, ReviewFields, <2>3 DEF Review, Documents, Scopes
  <2>5. review' \in Review
    BY <1>6, ReviewFields, <2>4 DEF BeginActivationReview
  <2> QED BY <1>6, <2>1, <2>2, <2>5 DEF BeginActivationReview, TypeOK
<1>7. CASE RefreshLoad
  <2>1. /\ acknowledged' \in Acknowledgment \cup {NoAck}
        /\ activation_scope' \in Scopes \cup {NoRoute}
        /\ gen' \in 0..MaxGeneration
    BY <1>7, InhibitType DEF RefreshLoad, AdmissionUnchanged, TypeOK
  <2>2. rev' \in 0..MaxRevision /\ pol' \in Policy
    BY <1>7 DEF RefreshLoad, Publish, CachedPolicyUnchanged, StoreVersion, TypeOK
  <2>3. [mut EXCEPT !.step = IF mut.op = "ack" THEN "verify" ELSE "capture",
          !.snap = StoreVersion] \in Mutation
    BY MutationFields, StoreFields DEF Mutation, Steps
  <2>4. mut' \in Mutation
    BY <1>7, MutationFields, <2>3 DEF RefreshLoad, Done
  <2> QED BY <1>7, <2>1, <2>2, <2>4 DEF RefreshLoad, TypeOK
<1>8. CASE PersistCapture
  <2>1. /\ acknowledged' \in Acknowledgment \cup {NoAck}
        /\ activation_scope' \in Scopes \cup {NoRoute}
        /\ gen' \in 0..MaxGeneration
    BY <1>8, InhibitType DEF PersistCapture, AdmissionUnchanged, TypeOK
  <2>2. rev' \in 0..MaxRevision /\ pol' \in Policy
    BY <1>8, MutationFields DEF PersistCapture, Publish, CachedPolicyUnchanged, StoreVersion, TypeOK
  <2>3. PersistCandidate(mut.snap.pol, mut.scope) \in Policy
    BY MutationFields, KillSwitchType DEF PersistCandidate
  <2>4. [mut EXCEPT !.step = "cas", !.base = mut.snap.rev,
          !.next = PersistCandidate(mut.snap.pol, mut.scope),
          !.snap = NoMutation.snap] \in Mutation
    BY MutationFields, <2>3 DEF Mutation, Steps
  <2>5. mut' \in Mutation
    BY <1>8, MutationFields, <2>4 DEF PersistCapture, Done
  <2> QED BY <1>8, <2>1, <2>2, <2>5 DEF PersistCapture, TypeOK
<1>9. CASE CompareExchange
  <2>1. /\ acknowledged' \in Acknowledgment \cup {NoAck}
        /\ activation_scope' \in Scopes \cup {NoRoute}
        /\ gen' \in 0..MaxGeneration
    BY <1>9, InhibitType DEF CompareExchange, AdmissionUnchanged, TypeOK
  <2>2. rev' \in 0..MaxRevision /\ pol' \in Policy
    BY <1>9 DEF CompareExchange, Publish, CachedPolicyUnchanged, StoreVersion, TypeOK
  <2>3. store' \in [rev : 1..MaxRevision, prev : 0..MaxRevision, pol : Policy]
    BY <1>9, MutationFields, ConstantsAssumption DEF CompareExchange, CanCommit, Committed, TypeOK
  <2>4. durable' \in SUBSET Scopes
    BY <1>9, MutationFields DEF CompareExchange, DurableAfter, TypeOK
  <2>5. ASSUME CanCommit(mut.base, mut.next)
        PROVE  [rev |-> Committed(mut.next).rev, pol |-> mut.next] \in Version
    BY MutationFields, StoreFields, <2>5, ConstantsAssumption DEF CanCommit, Committed, Version
  <2>6. ASSUME NEW v \in Version, NEW b \in 0..MaxRevision, NEW p \in Policy
        PROVE  [mut EXCEPT !.step = "adopt", !.base = b, !.next = p, !.snap = v] \in Mutation
    BY MutationFields DEF Mutation, Steps
  <2>7. 0 \in 0..MaxRevision
    BY ConstantsAssumption
  <2>8. ASSUME NEW v \in Version
        PROVE  [mut EXCEPT !.step = "adopt", !.base = 0, !.next = EmptyPolicy, !.snap = v] \in Mutation
    BY <2>6, <2>7, EmptyPolicyType
  <2>9. mut' \in Mutation
    BY <1>9, MutationFields, StoreFields, <2>5, <2>8 DEF CompareExchange, Done
  <2> QED BY <1>9, <2>1, <2>2, <2>3, <2>4, <2>9 DEF CompareExchange, TypeOK
<1>10. CASE AdoptCommitted
  <2>1. /\ acknowledged' \in Acknowledgment \cup {NoAck}
        /\ activation_scope' \in Scopes \cup {NoRoute}
        /\ gen' \in 0..MaxGeneration
    BY <1>10, InhibitType DEF AdoptCommitted, AdmissionUnchanged, TypeOK
  <2>2. rev' \in 0..MaxRevision /\ pol' \in Policy
    BY <1>10, MutationFields DEF AdoptCommitted, Publish, CachedPolicyUnchanged, StoreVersion, TypeOK
  <2>3. [mut EXCEPT !.step = "finish", !.snap = NoMutation.snap] \in Mutation
    BY MutationFields DEF Mutation, Steps
  <2>4. mut' \in Mutation
    BY <1>10, MutationFields, <2>3 DEF AdoptCommitted, Done
  <2> QED BY <1>10, <2>1, <2>2, <2>4 DEF AdoptCommitted, TypeOK
<1>11. CASE ReleaseFinish
  BY <1>11, EmptyRecordsType DEF ReleaseFinish, ClearOverlay, AdmissionUnchanged, CachedPolicyUnchanged, Done, TypeOK
<1>12. CASE ObserveLoad
  <2>1. /\ acknowledged' \in Acknowledgment \cup {NoAck}
        /\ activation_scope' \in Scopes \cup {NoRoute}
        /\ gen' \in 0..MaxGeneration
    BY <1>12, InhibitType DEF ObserveLoad, AdmissionUnchanged, TypeOK
  <2>2. rev' \in 0..MaxRevision /\ pol' \in Policy
    BY <1>12 DEF ObserveLoad, Publish, CachedPolicyUnchanged, StoreVersion, TypeOK
  <2>3. [NoReview EXCEPT !.kind = "reading", !.rev = store.rev, !.pol = store.pol] \in Review
    BY StoreFields, ReviewFields DEF Review, Documents
  <2>4. review' \in Review
    BY <1>12, ReviewFields, <2>3 DEF ObserveLoad
  <2> QED BY <1>12, <2>1, <2>2, <2>4 DEF ObserveLoad, TypeOK
<1>13. CASE ObservePublish
  <2>1. /\ acknowledged' \in Acknowledgment \cup {NoAck}
        /\ activation_scope' \in Scopes \cup {NoRoute}
        /\ gen' \in 0..MaxGeneration
    BY <1>13, InhibitType DEF ObservePublish, AdmissionUnchanged, TypeOK
  <2>2. rev' \in 0..MaxRevision /\ pol' \in Policy
    BY <1>13, ReviewFields DEF ObservePublish, Publish, CachedPolicyUnchanged, StoreVersion, TypeOK
  <2>3. gen \in 0..MaxGeneration
    BY DEF TypeOK
  <2>4. [review EXCEPT !.kind = "observation", !.gen = gen, !.late = {}] \in Review
    BY ReviewFields, <2>3 DEF Review, Documents
  <2>5. review' \in Review
    BY <1>13, ReviewFields, <2>4 DEF ObservePublish
  <2> QED BY <1>13, <2>1, <2>2, <2>5 DEF ObservePublish, TypeOK
<1>14. CASE OperatorAcknowledgePolicy
  <2>1. [NoMutation EXCEPT !.op = "ack", !.step = "load", !.base = review.rev,
          !.gen = review.gen, !.next = review.pol, !.late = review.late] \in Mutation
    BY MutationFields, ReviewFields DEF Mutation, Ops, Steps
  <2>2. mut' \in Mutation
    BY <1>14, <2>1 DEF OperatorAcknowledgePolicy
  <2> QED BY <1>14, <2>2 DEF OperatorAcknowledgePolicy, engine, TypeOK
<1>15. CASE AckVerify
  <2>1. /\ acknowledged' \in Acknowledgment \cup {NoAck}
        /\ activation_scope' \in Scopes \cup {NoRoute}
        /\ gen' \in 0..MaxGeneration
    BY <1>15, InhibitType DEF AckVerify, AdmissionUnchanged, TypeOK
  <2>2. rev' \in 0..MaxRevision /\ pol' \in Policy
    BY <1>15, MutationFields DEF AckVerify, Publish, CachedPolicyUnchanged, StoreVersion, TypeOK
  <2>3. [mut EXCEPT !.step = "acknowledge", !.snap = NoMutation.snap] \in Mutation
    BY MutationFields DEF Mutation, Steps
  <2>4. mut' \in Mutation
    BY <1>15, MutationFields, <2>3 DEF AckVerify, Done
  <2> QED BY <1>15, <2>1, <2>2, <2>4 DEF AckVerify, TypeOK
<1>16. CASE AckFinish
  <2>1. [rev |-> mut.base, gen |-> mut.gen, pol |-> mut.next, late |-> mut.late] \in Acknowledgment
    BY MutationFields DEF Acknowledgment
  <2>2. /\ acknowledged' \in Acknowledgment \cup {NoAck}
        /\ activation_scope' \in Scopes \cup {NoRoute}
        /\ gen' \in 0..MaxGeneration
    BY <1>16, <2>1, InhibitType DEF AckFinish, TypeOK
  <2> QED BY <1>16, MutationFields, <2>2 DEF AckFinish, CachedPolicyUnchanged, Done, TypeOK
<1>17. CASE ReviewActivation
  <2>1. /\ acknowledged' \in Acknowledgment \cup {NoAck}
        /\ activation_scope' \in Scopes \cup {NoRoute}
        /\ gen' \in 0..MaxGeneration
    BY <1>17, InhibitType DEF ReviewActivation, AdmissionUnchanged, TypeOK
  <2>2. [review EXCEPT !.kind = "reviewed"] \in Review
    BY ReviewFields DEF Review, Documents
  <2>3. review' \in Review
    BY <1>17, ReviewFields, <2>2 DEF ReviewActivation
  <2> QED BY <1>17, <2>1, <2>3 DEF ReviewActivation, CachedPolicyUnchanged, TypeOK
<1>18. CASE ConfirmActivation
  <2>1. /\ acknowledged' \in Acknowledgment \cup {NoAck}
        /\ activation_scope' \in Scopes \cup {NoRoute}
        /\ gen' \in 0..MaxGeneration
    BY <1>18, InhibitType DEF ConfirmActivation, AdmissionUnchanged, TypeOK
  <2>2. [NoMutation EXCEPT !.op = "activate", !.step = "acknowledge", !.scope = review.scope,
          !.base = review.rev, !.gen = review.gen, !.next = review.pol,
          !.late = review.late] \in Mutation
    BY MutationFields, ReviewFields DEF Mutation, Ops, Steps
  <2>3. mut' \in Mutation
    BY <1>18, MutationFields, <2>2 DEF ConfirmActivation
  <2> QED BY <1>18, <2>1, ReviewFields, <2>3 DEF ConfirmActivation, CachedPolicyUnchanged, TypeOK
<1>19. CASE ActivationFinish
  <2>1. [rev |-> mut.base, gen |-> mut.gen, pol |-> mut.next, late |-> mut.late] \in Acknowledgment
    BY MutationFields DEF Acknowledgment
  <2>2. /\ acknowledged' \in Acknowledgment \cup {NoAck}
        /\ activation_scope' \in Scopes \cup {NoRoute}
        /\ gen' \in 0..MaxGeneration
    BY <1>19, MutationFields, <2>1, InhibitType DEF ActivationFinish, TypeOK
  <2> QED BY <1>19, MutationFields, <2>2 DEF ActivationFinish, CachedPolicyUnchanged, Done, TypeOK
<1>20. CASE ConfirmKillRelease
  <2>1. Release(review.pol, review.scope) \in Policy
    BY ReviewFields, KillSwitchType
  <2>2. [NoMutation EXCEPT !.op = "confirm", !.step = "commit", !.scope = review.scope,
          !.base = review.rev, !.gen = review.gen,
          !.next = Release(review.pol, review.scope), !.late = review.late] \in Mutation
    BY MutationFields, ReviewFields, <2>1 DEF Mutation, Ops, Steps
  <2>3. mut' \in Mutation
    BY <1>20, MutationFields, <2>2 DEF ConfirmKillRelease
  <2> QED BY <1>20, ReviewFields, <2>3 DEF ConfirmKillRelease, CachedPolicyUnchanged, TypeOK
<1>21. CASE CommitKillRelease
  <2>1. store' \in [rev : 1..MaxRevision, prev : 0..MaxRevision, pol : Policy]
    BY <1>21, MutationFields, ConstantsAssumption DEF CommitKillRelease, TypeOK
  <2>2. ASSUME store.rev < MaxRevision
        PROVE  [rev |-> store.rev + 1, pol |-> mut.next] \in Version
    BY MutationFields, StoreFields, <2>2, ConstantsAssumption DEF Version
  <2>3. ASSUME NEW v \in Version PROVE [mut EXCEPT !.step = "settle", !.snap = v] \in Mutation
    BY MutationFields DEF Mutation, Steps
  <2>4. mut' \in Mutation
    BY <1>21, MutationFields, <2>2, <2>3 DEF CommitKillRelease, Done
  <2>5. durable' \in SUBSET Scopes
    BY <1>21, MutationFields DEF CommitKillRelease, DurableAfter, TypeOK
  <2> QED BY <1>21, <2>1, <2>4, <2>5 DEF CommitKillRelease, engine, TypeOK
<1>22. CASE SettleKillRelease
  <2>1. /\ acknowledged' \in Acknowledgment \cup {NoAck}
        /\ activation_scope' \in Scopes \cup {NoRoute}
        /\ gen' \in 0..MaxGeneration
    BY <1>22, InhibitType DEF SettleKillRelease, engine, TypeOK
  <2>2. rev' \in 0..MaxRevision /\ pol' \in Policy
    BY <1>22, MutationFields DEF SettleKillRelease, Publish, engine, TypeOK
  <2> QED BY <1>22, MutationFields, <2>1, <2>2 DEF SettleKillRelease, engine, ClearOverlay, Done, TypeOK
<1>23. ASSUME NEW o \in Orders, EvaluateLoad(o) PROVE TypeOK'
  <2>1. /\ acknowledged' \in Acknowledgment \cup {NoAck}
        /\ activation_scope' \in Scopes \cup {NoRoute}
        /\ gen' \in 0..MaxGeneration
    BY <1>23, InhibitType DEF EvaluateLoad, AdmissionUnchanged, TypeOK
  <2>2. rev' \in 0..MaxRevision /\ pol' \in Policy
    BY <1>23 DEF EvaluateLoad, Publish, CachedPolicyUnchanged, StoreVersion, TypeOK
  <2>3. [NoOrder EXCEPT !.step = "loaded", !.rev = store.rev, !.pol = store.pol] \in OrderState
    BY StoreFields, EmptyRecordsType DEF OrderState, OrderSteps
  <2>4. orders' \in [Orders -> OrderState]
    BY <1>23, <2>3 DEF EvaluateLoad, Becomes, TypeOK
  <2> QED BY <1>23, <2>1, <2>2, <2>4 DEF EvaluateLoad, TypeOK
<1>24. ASSUME NEW o \in Orders, Evaluate(o) PROVE TypeOK'
  BY <1>24, EmptyRecordsType, InhibitType DEF Evaluate, Becomes, AtStep, Loaded, Publish, AdmissionUnchanged, CachedPolicyUnchanged, OrderState, OrderSteps, TypeOK
<1>25. ASSUME NEW o \in Orders, NEW scope \in Scopes, EvaluateBreach(o, scope) PROVE TypeOK'
  BY <1>25, StopType, KillSwitchType DEF EvaluateBreach, Becomes, Loaded, Publish, OrderState, OrderSteps, TypeOK
<1>26. ASSUME NEW o \in Orders, TripCommit(o) PROVE TypeOK'
  <2>1. orders[o] \in OrderState
    BY DEF TypeOK
  <2>2. [NoMutation EXCEPT !.op = "trip", !.step = "cas", !.scope = orders[o].scope,
          !.base = orders[o].rev, !.next = orders[o].pol] \in Mutation
    BY MutationFields, <2>1 DEF OrderState, Mutation, Ops, Steps
  <2>3. orders' \in [Orders -> OrderState]
    BY <1>26, EmptyRecordsType DEF TripCommit, Becomes, TypeOK
  <2>4. mut' \in Mutation
    BY <1>26, <2>2 DEF TripCommit
  <2> QED BY <1>26, <2>3, <2>4 DEF TripCommit, CachedPolicyUnchanged, TypeOK
<1>27. ASSUME NEW o \in Orders, SignCheck(o) PROVE TypeOK'
  BY <1>27, EmptyRecordsType, InhibitType DEF SignCheck, Becomes, AtStep, AdmissionUnchanged, CachedPolicyUnchanged, OrderState, OrderSteps, TypeOK
<1>28. ASSUME NEW o \in Orders, SignFinish(o) PROVE TypeOK'
  BY <1>28, EmptyRecordsType, InhibitType DEF SignFinish, Becomes, AtStep, AdmissionUnchanged, CachedPolicyUnchanged, OrderState, OrderSteps, TypeOK
<1>29. ASSUME NEW o \in Orders, Dispatch(o) PROVE TypeOK'
  <2>1. [NoOrder EXCEPT !.step = "sent"] \in OrderState
    BY EmptyRecordsType DEF OrderState, OrderSteps
  <2>2. orders' \in [Orders -> OrderState]
    BY <1>29, <2>1, EmptyRecordsType DEF Dispatch, Becomes, TypeOK
  <2> QED BY <1>29, <2>2 DEF Dispatch, engine, TypeOK
<1>30. ASSUME NEW o \in Orders, PostResult(o) PROVE TypeOK'
  BY <1>30, EmptyRecordsType DEF PostResult, Becomes, engine, TypeOK
<1>31. ASSUME NEW next \in Policy, NEW released \in SUBSET Scopes, PeerWrite(next, released) PROVE TypeOK'
  BY <1>31, ConstantsAssumption DEF PeerWrite, engine, TypeOK
<1>32. CASE Restart
  BY <1>32, EmptyPolicyType, EmptyRecordsType, ConstantsAssumption DEF Restart, TypeOK
<1>33. CASE UNCHANGED vars
  BY <1>33 DEF vars, TypeOK
<1>34. CASE Environment
  <2>1. ASSUME NEW scope \in Scopes
        PROVE  Engage(store.pol, scope) \in Policy /\ Release(store.pol, scope) \in Policy
    BY StoreFields, KillSwitchType
  <2>2. ASSUME NEW next \in EditCandidates(store.pol) PROVE next \in Policy
    BY StoreFields DEF EditCandidates, Policy
  <2>3. ASSUME NEW scope \in Scopes, PeerWrite(Engage(store.pol, scope), {}) PROVE TypeOK'
    BY <2>1, <2>3, <1>31
  <2>4. ASSUME NEW scope \in Scopes, PeerWrite(Release(store.pol, scope), {scope}) PROVE TypeOK'
    BY <2>1, <2>4, <1>31
  <2>5. ASSUME NEW next \in EditCandidates(store.pol), PeerWrite(next, {}) PROVE TypeOK'
    BY <2>2, <2>5, <1>31
  <2> QED BY <1>34, <1>32, <2>3, <2>4, <2>5 DEF Environment
<1>35. CASE Mutating
  BY <1>35, <1>7, <1>8, <1>9, <1>10, <1>11, <1>15, <1>16, <1>19, <1>21, <1>22 DEF Mutating
<1>36. CASE Operator
  BY <1>36, <1>1, <1>2, <1>3, <1>4, <1>5, <1>12, <1>13, <1>14, <1>6, <1>17, <1>18, <1>20 DEF Operator
<1>37. CASE Trading
  BY <1>37, <1>23, <1>24, <1>26, <1>25, <1>27, <1>28, <1>29, <1>30 DEF Trading
<1> QED BY <1>33, <1>34, <1>35, <1>36, <1>37 DEF Next

(* Every initial state is typed. *)
LEMMA InitType == Init => TypeOK
BY EmptyPolicyType, EmptyRecordsType, ConstantsAssumption DEF Init, TypeOK, Policy, Scopes

(* Types hold in every behaviour, for any number of agents, orders and     *)
(* revisions; in particular stop_generation saturates instead of wrapping. *)
THEOREM TypeCorrect == Spec => []TypeOK
BY InitType, TypeStep, PTL DEF Spec

-----------------------------------------------------------------------------
(* Safety *)


(* A copy of the journal: never ahead of it, equal where it names it *)
Agrees(r, p) == r <= store.rev /\ (r = store.rev => p = store.pol)

(* The cached policy, from publication to publication *)
CacheAgrees == Agrees(rev, pol)

(* The snapshot an operator's operation read before it dropped the mutex *)
SnapAgrees ==
  mut.step \in {"capture", "verify", "adopt", "settle"} => Agrees(mut.snap.rev, mut.snap.pol)

(* The policy in the operator's hand *)
ReviewAgrees == review.kind # "none" => Agrees(review.rev, review.pol)

(* The policy an order was judged by *)
OrdersAgree ==
  \A o \in Orders : orders[o].step \in {"loaded", "cleared", "signing", "signed"}
                       => Agrees(orders[o].rev, orders[o].pol)

(* No copy is ahead of the journal or differs from it under its revision. *)
JournalCopies == CacheAgrees /\ SnapAgrees /\ ReviewAgrees /\ OrdersAgree

(* A full policy computed from revision base keeps what base engages *)
KeepsKills(base, next, released) ==
  /\ base <= store.rev
  /\ base = store.rev => store.pol.kill \ released \subseteq next.kill

(* A replacement that can still win drops no kill it was not asked to. *)
CasKeepsKills ==
  mut.step = "cas" =>
    /\ KeepsKills(mut.base, mut.next, IF mut.op = "release" THEN {mut.scope} ELSE {})
    /\ mut.op \in {"persist", "trip"} => mut.scope \in mut.next.kill

(* A reviewed release rewrites the policy read in its own transaction. *)
CommitReleases == mut.step = "commit" => mut.next = Release(store.pol, mut.scope)

(* So does the policy a breaker trip will hand to the mutation mutex. *)
TripsKeepKills ==
  \A o \in Orders : orders[o].step = "tripped" =>
    /\ KeepsKills(orders[o].rev, orders[o].pol, {})
    /\ orders[o].scope \in orders[o].pol.kill

(* Which operation is at which step *)
StepsFit ==
  /\ mut.step = "load" => mut.op \in {"persist", "ack"}
  /\ mut.step = "capture" => mut.op = "persist"
  /\ mut.step \in {"cas", "adopt"} => mut.op \in {"persist", "trip", "edit", "release"}
  /\ mut.step = "finish" => mut.op = "release"
  /\ mut.step \in {"commit", "settle"} => mut.op = "confirm"

(* Whatever commits next keeps the kills the journal has. *)
PendingCommits == CasKeepsKills /\ CommitReleases /\ TripsKeepKills /\ StepsFit

(* What the operator acknowledges was published by this engine first *)
Published(r, p) == r <= rev /\ (r = rev => p = pol)

(* The documents, and the operations, that carry a stop generation *)
Documented == {"observation", "activation", "reviewed", "release"}

Captured == {"release", "ack", "activate", "confirm"}

(* Nothing is reviewed or acknowledged ahead of the cached policy. *)
ReviewsPublished ==
  /\ review.kind \in Documented => Published(review.rev, review.pol)
  /\ mut.op \in {"ack", "activate"} => Published(mut.base, mut.next)
  /\ acknowledged # NoAck => Published(acknowledged.rev, acknowledged.pol)

(* No stop since the generation was captured, as long as it is current *)
Quiet(g, late) == g <= gen /\ (g = gen /\ gen # MaxGeneration => late = {})

(* A document or operation whose generation is current was not overtaken. *)
GenerationsGuard ==
  /\ review.kind \in Documented => Quiet(review.gen, review.late)
  /\ mut.op \in Captured => Quiet(mut.gen, mut.late)
  /\ acknowledged # NoAck => acknowledged.gen # MaxGeneration /\ acknowledged.late = {}

(* A requested HALT blocks from memory until it is released; once the stop *)
(* generation saturates the gate refuses everything instead.               *)
HaltsCovered == gen # MaxGeneration => halted \subseteq emergency

(* The inductive invariant *)
Inductive ==
  /\ TypeOK
  /\ JournalCopies
  /\ PendingCommits
  /\ ConfirmedKillIsDurable
  /\ ReviewsPublished
  /\ GenerationsGuard
  /\ HaltsCovered

-----------------------------------------------------------------------------
(* Frames: which actions touch which variables *)

(* Only a commit or another process writes the journal. *)
LEMMA StoreFrame ==
  ASSUME [Next]_vars
  PROVE  \/ CompareExchange
         \/ CommitKillRelease
         \/ Environment
         \/ UNCHANGED <<store, durable>>
<1>1. CASE Mutating
  BY <1>1 DEF Mutating, RefreshLoad, PersistCapture, AdoptCommitted, ReleaseFinish, AckVerify,
       AckFinish, ActivationFinish, SettleKillRelease
<1>2. CASE Operator
  BY <1>2 DEF Operator, BeginOperatorKill, PersistOperatorKill, OperatorReleaseKill,
       ReviewKillRelease, EditPolicy, ObserveLoad, ObservePublish, OperatorAcknowledgePolicy,
       BeginActivationReview, ReviewActivation, ConfirmActivation, ConfirmKillRelease
<1>3. CASE Trading
  BY <1>3 DEF Trading, EvaluateLoad, Evaluate, EvaluateBreach, TripCommit, SignCheck,
       SignFinish, Dispatch, PostResult
<1>4. CASE Environment
  BY <1>4
<1>5. CASE UNCHANGED vars
  BY <1>5 DEF vars
<1> QED BY <1>1, <1>2, <1>3, <1>4, <1>5 DEF Next

(* The stop generation only advances within a process. *)
LEMMA GenFrame ==
  ASSUME [Next]_vars
  PROVE  \/ Restart
         \/ gen' \in {gen, NextGeneration(gen)}
<1>1. CASE Mutating
  BY <1>1 DEF Mutating, RefreshLoad, PersistCapture, CompareExchange, AdoptCommitted,
       ReleaseFinish, AckVerify, AckFinish, ActivationFinish, CommitKillRelease,
       SettleKillRelease, engine, AdmissionUnchanged, CachedPolicyUnchanged, Inhibit, Stop
<1>2. CASE Operator
  BY <1>2 DEF Operator, BeginOperatorKill, PersistOperatorKill, OperatorReleaseKill,
       ReviewKillRelease, EditPolicy, ObserveLoad, ObservePublish, OperatorAcknowledgePolicy,
       BeginActivationReview, ReviewActivation, ConfirmActivation, ConfirmKillRelease, engine,
       AdmissionUnchanged, CachedPolicyUnchanged, Inhibit, Stop
<1>3. CASE Trading
  BY <1>3 DEF Trading, EvaluateLoad, Evaluate, EvaluateBreach, TripCommit, SignCheck,
       SignFinish, Dispatch, PostResult, engine, AdmissionUnchanged, CachedPolicyUnchanged,
       Inhibit, Stop
<1>4. CASE Environment
  BY <1>4 DEF Environment, PeerWrite, engine, AdmissionUnchanged, CachedPolicyUnchanged,
       Inhibit, Stop
<1>5. CASE UNCHANGED vars
  BY <1>5 DEF vars
<1> QED BY <1>1, <1>2, <1>3, <1>4, <1>5 DEF Next

(* Only an order's own steps and a restart move it. *)
LEMMA OrdersFrame ==
  ASSUME [Next]_vars
  PROVE  \/ (\E o \in Orders : EvaluateLoad(o))
         \/ (\E o \in Orders : Evaluate(o))
         \/ (\E o \in Orders, scope \in Scopes : EvaluateBreach(o, scope))
         \/ (\E o \in Orders : TripCommit(o))
         \/ (\E o \in Orders : SignCheck(o))
         \/ (\E o \in Orders : SignFinish(o))
         \/ (\E o \in Orders : Dispatch(o))
         \/ (\E o \in Orders : PostResult(o))
         \/ Restart
         \/ UNCHANGED orders
<1>1. CASE Mutating
  BY <1>1 DEF Mutating, RefreshLoad, PersistCapture, CompareExchange, AdoptCommitted,
       ReleaseFinish, AckVerify, AckFinish, ActivationFinish, CommitKillRelease,
       SettleKillRelease
<1>2. CASE Operator
  BY <1>2 DEF Operator, BeginOperatorKill, PersistOperatorKill, OperatorReleaseKill,
       ReviewKillRelease, EditPolicy, ObserveLoad, ObservePublish, OperatorAcknowledgePolicy,
       BeginActivationReview, ReviewActivation, ConfirmActivation, ConfirmKillRelease
<1>3. CASE Trading
  BY <1>3 DEF Trading
<1>4. CASE Environment
  BY <1>4 DEF Environment, PeerWrite
<1>5. CASE UNCHANGED vars
  BY <1>5 DEF vars
<1> QED BY <1>1, <1>2, <1>3, <1>4, <1>5 DEF Next

(* The cached policy changes by publication only. *)
LEMMA PolicyFrame ==
  ASSUME [Next]_vars
  PROVE  \/ (\E scope \in Scopes : ReviewKillRelease(scope))
         \/ (\E agent \in Agents : BeginActivationReview(agent))
         \/ PersistCapture
         \/ AdoptCommitted
         \/ AckVerify
         \/ SettleKillRelease
         \/ ObservePublish
         \/ (\E o \in Orders : Evaluate(o))
         \/ (\E o \in Orders, scope \in Scopes : EvaluateBreach(o, scope))
         \/ Restart
         \/ UNCHANGED <<rev, pol>>
<1>1. CASE Mutating
  BY <1>1 DEF Mutating, RefreshLoad, CompareExchange, ReleaseFinish, AckFinish,
       ActivationFinish, CommitKillRelease, engine, AdmissionUnchanged, CachedPolicyUnchanged
<1>2. CASE Operator
  BY <1>2 DEF Operator, BeginOperatorKill, PersistOperatorKill, OperatorReleaseKill, EditPolicy,
       ObserveLoad, OperatorAcknowledgePolicy, ReviewActivation, ConfirmActivation,
       ConfirmKillRelease, engine, AdmissionUnchanged, CachedPolicyUnchanged
<1>3. CASE Trading
  BY <1>3 DEF Trading, EvaluateLoad, TripCommit, SignCheck, SignFinish, Dispatch, PostResult,
       engine, AdmissionUnchanged, CachedPolicyUnchanged
<1>4. CASE Environment
  BY <1>4 DEF Environment, PeerWrite, engine, AdmissionUnchanged, CachedPolicyUnchanged
<1>5. CASE UNCHANGED vars
  BY <1>5 DEF vars
<1> QED BY <1>1, <1>2, <1>3, <1>4, <1>5 DEF Next

(* What touches the operator's document *)
LEMMA ReviewFrame ==
  ASSUME [Next]_vars
  PROVE  \/ (\E scope \in Scopes : BeginOperatorKill(scope))
         \/ (\E o \in Orders, scope \in Scopes : EvaluateBreach(o, scope))
         \/ ObserveLoad
         \/ ObservePublish
         \/ (\E agent \in Agents : BeginActivationReview(agent))
         \/ ReviewActivation
         \/ ConfirmActivation
         \/ (\E scope \in Scopes : ReviewKillRelease(scope))
         \/ ConfirmKillRelease
         \/ Restart
         \/ UNCHANGED review
<1>1. CASE Mutating
  BY <1>1 DEF Mutating, RefreshLoad, PersistCapture, CompareExchange, AdoptCommitted,
       ReleaseFinish, AckVerify, AckFinish, ActivationFinish, CommitKillRelease,
       SettleKillRelease
<1>2. CASE Operator
  BY <1>2 DEF Operator, PersistOperatorKill, OperatorReleaseKill, EditPolicy,
       OperatorAcknowledgePolicy
<1>3. CASE Trading
  BY <1>3 DEF Trading, EvaluateLoad, Evaluate, TripCommit, SignCheck, SignFinish, Dispatch,
       PostResult
<1>4. CASE Environment
  BY <1>4 DEF Environment, PeerWrite
<1>5. CASE UNCHANGED vars
  BY <1>5 DEF vars
<1> QED BY <1>1, <1>2, <1>3, <1>4, <1>5 DEF Next

(* What touches a halt or its overlay; the generation may always advance. *)
LEMMA HaltFrame ==
  ASSUME [Next]_vars
  PROVE  \/ (\E scope \in Scopes : BeginOperatorKill(scope))
         \/ (\E o \in Orders, scope \in Scopes : EvaluateBreach(o, scope))
         \/ ReleaseFinish
         \/ ConfirmKillRelease
         \/ SettleKillRelease
         \/ Restart
         \/ UNCHANGED <<emergency, halted>> /\ gen' \in {gen, NextGeneration(gen)}
<1>1. CASE Mutating
  BY <1>1 DEF Mutating, RefreshLoad, PersistCapture, CompareExchange, AdoptCommitted, AckVerify,
       AckFinish, ActivationFinish, CommitKillRelease, engine, AdmissionUnchanged,
       CachedPolicyUnchanged, Inhibit
<1>2. CASE Operator
  BY <1>2 DEF Operator, PersistOperatorKill, OperatorReleaseKill, ReviewKillRelease, EditPolicy,
       ObserveLoad, ObservePublish, OperatorAcknowledgePolicy, BeginActivationReview,
       ReviewActivation, ConfirmActivation, engine, AdmissionUnchanged, CachedPolicyUnchanged,
       Inhibit
<1>3. CASE Trading
  BY <1>3 DEF Trading, EvaluateLoad, Evaluate, TripCommit, SignCheck, SignFinish, Dispatch,
       PostResult, engine, AdmissionUnchanged, CachedPolicyUnchanged, Inhibit
<1>4. CASE Environment
  BY <1>4 DEF Environment, PeerWrite, engine, AdmissionUnchanged, CachedPolicyUnchanged, Inhibit
<1>5. CASE UNCHANGED vars
  BY <1>5 DEF vars
<1> QED BY <1>1, <1>2, <1>3, <1>4, <1>5 DEF Next

(* Only the end of an acknowledgment or an activation acknowledges. *)
LEMMA AckFrame ==
  ASSUME [Next]_vars
  PROVE  \/ AckFinish
         \/ ActivationFinish
         \/ acknowledged' \in {acknowledged, NoAck}
<1>1. CASE Mutating
  BY <1>1 DEF Mutating, RefreshLoad, PersistCapture, CompareExchange, AdoptCommitted,
       ReleaseFinish, AckVerify, CommitKillRelease, SettleKillRelease, engine,
       AdmissionUnchanged, CachedPolicyUnchanged, Inhibit, Stop
<1>2. CASE Operator
  BY <1>2 DEF Operator, BeginOperatorKill, PersistOperatorKill, OperatorReleaseKill,
       ReviewKillRelease, EditPolicy, ObserveLoad, ObservePublish, OperatorAcknowledgePolicy,
       BeginActivationReview, ReviewActivation, ConfirmActivation, ConfirmKillRelease, engine,
       AdmissionUnchanged, CachedPolicyUnchanged, Inhibit, Stop
<1>3. CASE Trading
  BY <1>3 DEF Trading, EvaluateLoad, Evaluate, EvaluateBreach, TripCommit, SignCheck,
       SignFinish, Dispatch, PostResult, engine, AdmissionUnchanged, CachedPolicyUnchanged,
       Inhibit, Stop
<1>4. CASE Environment
  BY <1>4 DEF Environment, PeerWrite, Restart, engine, AdmissionUnchanged,
       CachedPolicyUnchanged, Inhibit, Stop
<1>5. CASE UNCHANGED vars
  BY <1>5 DEF vars
<1> QED BY <1>1, <1>2, <1>3, <1>4, <1>5 DEF Next

(* What the holder of the mutation mutex may become *)
LEMMA MutFrame ==
  ASSUME [Next]_vars
  PROVE  \/ (\E scope \in Scopes : BeginOperatorKill(scope))
         \/ (\E scope \in Scopes : PersistOperatorKill(scope))
         \/ (\E scope \in Scopes : OperatorReleaseKill(scope))
         \/ (\E next \in EditCandidates(pol) : EditPolicy(next))
         \/ OperatorAcknowledgePolicy
         \/ ConfirmActivation
         \/ ConfirmKillRelease
         \/ RefreshLoad
         \/ PersistCapture
         \/ CompareExchange
         \/ AdoptCommitted
         \/ AckVerify
         \/ CommitKillRelease
         \/ (\E o \in Orders, scope \in Scopes : EvaluateBreach(o, scope))
         \/ (\E o \in Orders : TripCommit(o))
         \/ mut' \in {mut, NoMutation}
<1>1. CASE Mutating
  BY <1>1 DEF Mutating, ReleaseFinish, AckFinish, ActivationFinish, SettleKillRelease, Done
<1>2. CASE Operator
  BY <1>2 DEF Operator, ReviewKillRelease, ObserveLoad, ObservePublish, BeginActivationReview,
       ReviewActivation, Done
<1>3. CASE Trading
  BY <1>3 DEF Trading, EvaluateLoad, Evaluate, SignCheck, SignFinish, Dispatch, PostResult, Done
<1>4. CASE Environment
  BY <1>4 DEF Environment, PeerWrite, Restart, Done
<1>5. CASE UNCHANGED vars
  BY <1>5 DEF vars
<1> QED BY <1>1, <1>2, <1>3, <1>4, <1>5 DEF Next

(* The revisions and generations compared below are naturals. *)
LEMMA NumericFields ==
  ASSUME TypeOK
  PROVE  /\ store.rev \in Nat /\ store.rev >= 1 /\ rev \in Nat /\ gen \in Nat
         /\ mut.snap.rev \in Nat /\ mut.base \in Nat /\ mut.gen \in Nat
         /\ review.rev \in Nat /\ review.gen \in Nat
         /\ \A o \in Orders : orders[o].rev \in Nat
         /\ MaxGeneration \in Nat
BY ConstantsAssumption DEF TypeOK, Mutation, Review, Version, OrderState

-----------------------------------------------------------------------------
(* Copies of the journal *)

(* The journal moves by whole revisions: revisions are never reused. *)
LEMMA StoreAdvances ==
  ASSUME Inductive, [Next]_vars
  PROVE  store' = store \/ store'.rev = store.rev + 1
<1>1. CASE CompareExchange
  BY <1>1 DEF CompareExchange, Committed
<1>2. CASE CommitKillRelease
  BY <1>2 DEF CommitKillRelease
<1>3. CASE Environment
  BY <1>3 DEF Environment, PeerWrite, Restart
<1> QED BY <1>1, <1>2, <1>3, StoreFrame

(* A copy that agrees with the journal still agrees after the journal *)
(* moves by whole revisions.                                          *)
LEMMA AgreesStable ==
  ASSUME Inductive, [Next]_vars, NEW r \in Nat, NEW p, Agrees(r, p)
  PROVE  r <= store'.rev /\ (r = store'.rev => p = store'.pol)
<1>1. store.rev \in Nat
  BY NumericFields DEF Inductive
<1> QED BY <1>1, StoreAdvances DEF Agrees

(* Every step keeps the cached policy no newer than the journal and equal *)
(* to it at its revision.                                                 *)
LEMMA CacheAgreesStep ==
  ASSUME Inductive, [Next]_vars
  PROVE  CacheAgrees'
<1> USE NumericFields DEF Inductive, JournalCopies, CacheAgrees, SnapAgrees, ReviewAgrees,
     OrdersAgree
<1>1. rev' \in Nat /\ Agrees(rev', pol')
  <2>1. CASE UNCHANGED <<rev, pol>>
    BY <2>1
  <2>2. CASE \E scope \in Scopes : ReviewKillRelease(scope)
    BY <2>2 DEF ReviewKillRelease, Publish, StoreVersion, CachedPolicyUnchanged, Agrees
  <2>3. CASE \E agent \in Agents : BeginActivationReview(agent)
    BY <2>3 DEF BeginActivationReview, Publish, StoreVersion, CachedPolicyUnchanged, Agrees
  <2>4. CASE PersistCapture \/ AdoptCommitted \/ AckVerify \/ SettleKillRelease
    BY <2>4 DEF PersistCapture, AdoptCommitted, AckVerify, SettleKillRelease, Publish,
                CachedPolicyUnchanged, engine
  <2>5. CASE ObservePublish
    BY <2>5 DEF ObservePublish, Publish, CachedPolicyUnchanged
  <2>6. CASE \E o \in Orders : Evaluate(o)
    BY <2>6 DEF Evaluate, Publish, Loaded, CachedPolicyUnchanged
  <2>7. CASE \E o \in Orders, scope \in Scopes : EvaluateBreach(o, scope)
    BY <2>7 DEF EvaluateBreach, Publish, Loaded
  <2>8. CASE Restart
    BY <2>8 DEF Restart, Agrees
  <2> QED BY <2>1, <2>2, <2>3, <2>4, <2>5, <2>6, <2>7, <2>8, PolicyFrame
<1> QED BY <1>1, AgreesStable DEF Agrees

(* Every step keeps the revision an order was judged by tied to the policy *)
(* it was judged by.                                                       *)
LEMMA OrdersAgreeStep ==
  ASSUME Inductive, [Next]_vars
  PROVE  OrdersAgree'
<1> USE NumericFields DEF Inductive, JournalCopies
<1> DEFINE Held == {"loaded", "cleared", "signing", "signed"}
<1> SUFFICES ASSUME NEW o \in Orders, orders'[o].step \in Held
             PROVE  orders'[o].rev \in Nat /\ Agrees(orders'[o].rev, orders'[o].pol)
  BY AgreesStable DEF OrdersAgree, Agrees
<1> USE DEF OrdersAgree
<1>1. CASE orders'[o] = orders[o]
  BY <1>1
<1>2. ASSUME NEW q \in Orders, EvaluateLoad(q)
      PROVE  orders'[o] = orders[o] \/ (orders'[o].rev \in Nat /\ Agrees(orders'[o].rev, orders'[o].pol))
  <2>1. [NoOrder EXCEPT !.step = "loaded", !.rev = store.rev, !.pol = store.pol].rev = store.rev
    BY DEF NoOrder
  <2>2. [NoOrder EXCEPT !.step = "loaded", !.rev = store.rev, !.pol = store.pol].pol = store.pol
    BY DEF NoOrder
  <2>3. orders' = orders \/ orders' = [orders EXCEPT ![q] = [NoOrder EXCEPT !.step = "loaded",
       !.rev = store.rev, !.pol = store.pol]]
    BY <1>2 DEF EvaluateLoad, Becomes
  <2>4. store.rev \in Nat /\ Agrees(store.rev, store.pol)
    BY DEF Agrees
  <2>5. CASE q = o
    BY <2>1, <2>2, <2>3, <2>4, <2>5 DEF TypeOK
  <2>6. CASE q # o
    BY <2>3, <2>6 DEF TypeOK
  <2> QED BY <2>5, <2>6
<1>3. ASSUME NEW q \in Orders, Evaluate(q) \/ SignCheck(q) \/ SignFinish(q)
      PROVE  /\ orders[o].step \in Held
             /\ orders'[o].rev = orders[o].rev /\ orders'[o].pol = orders[o].pol
  BY <1>3 DEF Evaluate, SignCheck, SignFinish, Becomes, AtStep, NoOrder, TypeOK, OrderState
<1>4. ASSUME NEW q \in Orders, TripCommit(q) \/ Dispatch(q) \/ PostResult(q)
      PROVE  orders'[o] = orders[o]
  BY <1>4 DEF TripCommit, Dispatch, PostResult, Becomes, NoOrder, TypeOK, OrderState
<1>5. ASSUME NEW q \in Orders, NEW scope \in Scopes, EvaluateBreach(q, scope)
      PROVE  orders'[o] = orders[o]
  BY <1>5 DEF EvaluateBreach, Becomes, TypeOK, OrderState
<1>6. ~Restart
  BY DEF Restart, NoOrder
<1> QED BY <1>1, <1>2, <1>3, <1>4, <1>5, <1>6, OrdersFrame

(* Every step keeps the policy in the operator's hand tied to its *)
(* revision.                                                      *)
LEMMA ReviewAgreesStep ==
  ASSUME Inductive, [Next]_vars
  PROVE  ReviewAgrees'
<1> USE NumericFields DEF Inductive, JournalCopies
<1> SUFFICES ASSUME review'.kind # "none"
             PROVE  review'.rev \in Nat /\ Agrees(review'.rev, review'.pol)
  BY AgreesStable DEF ReviewAgrees, Agrees
<1> DEFINE Kept == review.kind # "none" /\ review'.rev = review.rev /\ review'.pol = review.pol
           Read == review'.rev = store.rev /\ review'.pol = store.pol
<1>0. NoReview.kind = "none"
  BY DEF NoReview
<1>1. CASE UNCHANGED review
  BY <1>1 DEF ReviewAgrees
<1>2. ASSUME NEW scope \in Scopes, Stop(scope) PROVE Kept
  BY <1>2 DEF Stop, TypeOK, Review
<1>3. ASSUME ObserveLoad PROVE Read
  <2> DEFINE d == [NoReview EXCEPT !.kind = "reading", !.rev = store.rev, !.pol = store.pol]
  <2>1. d.rev = store.rev /\ d.pol = store.pol
    BY DEF NoReview
  <2>2. review' = d \/ review' = NoReview
    BY <1>3 DEF ObserveLoad
  <2> QED BY <2>1, <2>2, <1>0
<1>4. ASSUME ObservePublish \/ ReviewActivation PROVE Kept
  <2> DEFINE d == [review EXCEPT !.kind = "observation", !.gen = gen, !.late = {}]
             e == [review EXCEPT !.kind = "reviewed"]
  <2>1. d.rev = review.rev /\ d.pol = review.pol /\ e.rev = review.rev /\ e.pol = review.pol
    BY DEF TypeOK, Review
  <2>2. review.kind \in {"reading", "activation"}
    BY <1>4 DEF ObservePublish, ReviewActivation
  <2>3. review' \in {d, e, NoReview}
    BY <1>4 DEF ObservePublish, ReviewActivation
  <2> QED BY <2>1, <2>2, <2>3, <1>0
<1>5. ASSUME NEW agent \in Agents, BeginActivationReview(agent) PROVE Read
  <2> DEFINE d == [NoReview EXCEPT !.kind = "activation", !.scope = agent, !.rev = store.rev,
                                   !.gen = NextGeneration(gen), !.pol = store.pol]
  <2>1. d.rev = store.rev /\ d.pol = store.pol
    BY DEF NoReview
  <2>2. review' = d \/ review' = NoReview
    BY <1>5 DEF BeginActivationReview
  <2> QED BY <2>1, <2>2, <1>0
<1>6. ASSUME NEW scope \in Scopes, ReviewKillRelease(scope) PROVE Read
  <2> DEFINE d(b) == [NoReview EXCEPT !.kind = "release", !.scope = scope, !.local = b,
                        !.rev = store.rev, !.gen = NextGeneration(gen), !.pol = store.pol]
  <2>1. ASSUME NEW b \in BOOLEAN PROVE d(b).rev = store.rev /\ d(b).pol = store.pol
    BY DEF NoReview
  <2>2. (scope \in emergency) \in BOOLEAN
    OBVIOUS
  <2>3. review' = d(scope \in emergency) \/ review' = NoReview
    BY <1>6 DEF ReviewKillRelease
  <2> QED BY <2>1, <2>2, <2>3, <1>0
<1>7. ~ConfirmActivation /\ ~ConfirmKillRelease /\ ~Restart
  BY DEF ConfirmActivation, ConfirmKillRelease, Restart, NoReview
<1>8. Kept \/ Read
  BY <1>1, <1>2, <1>3, <1>4, <1>5, <1>6, <1>7, ReviewFrame
     DEF BeginOperatorKill, EvaluateBreach
<1> QED BY <1>8 DEF ReviewAgrees, Agrees

(* A free mutation mutex holds no operation. *)
LEMMA NoMutationFields ==
  NoMutation.op = "none" /\ NoMutation.step = "idle"
BY DEF NoMutation

(* A stop marks the running operation and leaves the rest of it alone. *)
LEMMA StopKeepsMutation ==
  ASSUME TypeOK, NEW scope \in Scopes, Stop(scope)
  PROVE  /\ mut'.op = mut.op /\ mut'.step = mut.step /\ mut'.scope = mut.scope
         /\ mut'.base = mut.base /\ mut'.gen = mut.gen /\ mut'.next = mut.next
         /\ mut'.snap = mut.snap
         /\ mut.op \notin Captured => mut'.late = mut.late
BY DEF Stop, TypeOK, Mutation, Captured

(* Every step keeps the snapshot a mutation works from tied to its *)
(* revision.                                                       *)
LEMMA SnapAgreesStep ==
  ASSUME Inductive, [Next]_vars
  PROVE  SnapAgrees'
<1> USE NumericFields, NoMutationFields DEF Inductive, JournalCopies
<1> DEFINE Held == {"capture", "verify", "adopt", "settle"}
           Now(v) == v.rev <= store'.rev /\ (v.rev = store'.rev => v.pol = store'.pol)
<1> SUFFICES ASSUME mut'.step \in Held PROVE Now(mut'.snap)
  BY DEF SnapAgrees, Agrees
<1>1. ASSUME mut'.step = mut.step, mut'.snap = mut.snap PROVE Now(mut'.snap)
  BY <1>1, AgreesStable DEF SnapAgrees
<1>2. ASSUME NEW scope \in Scopes, Stop(scope) PROVE Now(mut'.snap)
  BY <1>1, <1>2, StopKeepsMutation
<1>3. ASSUME RefreshLoad PROVE Now(mut'.snap)
  <2> DEFINE m == [mut EXCEPT !.step = IF mut.op = "ack" THEN "verify" ELSE "capture",
                             !.snap = StoreVersion]
  <2>1. m.snap = StoreVersion
    BY DEF TypeOK, Mutation
  <2>2. mut' = m \/ mut' = NoMutation
    BY <1>3 DEF RefreshLoad, Done
  <2>3. StoreVersion.rev = store.rev /\ StoreVersion.pol = store.pol
    BY DEF StoreVersion
  <2>4. store' = store
    BY <1>3 DEF RefreshLoad
  <2>5. CASE mut' = m
    <3> HIDE DEF m
    <3> QED BY <2>1, <2>3, <2>4, <2>5
  <2> QED BY <2>2, <2>5
<1>4. ASSUME CompareExchange PROVE Now(mut'.snap)
  <2> DEFINE m(v) == [mut EXCEPT !.step = "adopt", !.base = 0, !.next = EmptyPolicy, !.snap = v]
             c == [rev |-> Committed(mut.next).rev, pol |-> mut.next]
  <2>1. ASSUME NEW v PROVE m(v).snap = v
    BY DEF TypeOK, Mutation
  <2>2. \/ mut' = NoMutation
        \/ mut' = m(c) /\ store' = Committed(mut.next)
        \/ mut' = m(StoreVersion) /\ store' = store
    BY <1>4 DEF CompareExchange, Done
  <2>3. c.rev = Committed(mut.next).rev /\ c.pol = Committed(mut.next).pol
    BY DEF Committed
  <2>4. StoreVersion.rev = store.rev /\ StoreVersion.pol = store.pol
    BY DEF StoreVersion
  <2>5. Committed(mut.next).rev \in Nat
    BY DEF Committed
  <2>6. CASE mut' = m(c) /\ store' = Committed(mut.next)
    BY <2>1, <2>3, <2>5, <2>6
  <2>7. CASE mut' = m(StoreVersion) /\ store' = store
    BY <2>1, <2>4, <2>7
  <2> QED BY <2>2, <2>6, <2>7
<1>5. ASSUME CommitKillRelease PROVE Now(mut'.snap)
  <2> DEFINE c == [rev |-> store.rev + 1, pol |-> mut.next]
             m == [mut EXCEPT !.step = "settle", !.snap = c]
  <2>1. m.snap = c
    BY DEF TypeOK, Mutation
  <2>2. mut' = NoMutation \/ (mut' = m /\ store'.rev = store.rev + 1 /\ store'.pol = mut.next)
    BY <1>5 DEF CommitKillRelease, Done
  <2>3. c.rev = store.rev + 1 /\ c.pol = mut.next
    OBVIOUS
  <2>4. CASE mut' = m /\ store'.rev = store.rev + 1 /\ store'.pol = mut.next
    BY <2>1, <2>3, <2>4
  <2> QED BY <2>2, <2>4
<1>6. ASSUME PersistCapture \/ AdoptCommitted \/ AckVerify PROVE FALSE
  <2>1. /\ [mut EXCEPT !.step = "cas", !.base = mut.snap.rev,
                       !.next = PersistCandidate(mut.snap.pol, mut.scope),
                       !.snap = NoMutation.snap].step = "cas"
        /\ [mut EXCEPT !.step = "finish", !.snap = NoMutation.snap].step = "finish"
        /\ [mut EXCEPT !.step = "acknowledge", !.snap = NoMutation.snap].step = "acknowledge"
    BY DEF TypeOK, Mutation
  <2> QED BY <1>6, <2>1 DEF PersistCapture, AdoptCommitted, AckVerify, Done
<1>7. ASSUME NEW scope \in Scopes, PersistOperatorKill(scope) PROVE mut' = mut
  BY <1>7 DEF PersistOperatorKill, NoMutation
<1>8. ASSUME NEW scope \in Scopes, OperatorReleaseKill(scope) PROVE FALSE
  BY <1>8 DEF OperatorReleaseKill, NoMutation
<1>9. ASSUME NEW next \in EditCandidates(pol), EditPolicy(next) PROVE FALSE
  BY <1>9 DEF EditPolicy, NoMutation
<1>10. ASSUME OperatorAcknowledgePolicy PROVE FALSE
  BY <1>10 DEF OperatorAcknowledgePolicy, NoMutation
<1>11. ASSUME ConfirmActivation \/ ConfirmKillRelease PROVE mut' = mut
  BY <1>11 DEF ConfirmActivation, ConfirmKillRelease, NoMutation
<1>12. ASSUME NEW o \in Orders, TripCommit(o) PROVE FALSE
  BY <1>12 DEF TripCommit, NoMutation
<1>13. \/ mut' = mut
       \/ \E scope \in Scopes : Stop(scope)
       \/ RefreshLoad \/ CompareExchange \/ CommitKillRelease
  BY <1>6, <1>7, <1>8, <1>9, <1>10, <1>11, <1>12, MutFrame DEF BeginOperatorKill, EvaluateBreach
<1> QED BY <1>1, <1>2, <1>3, <1>4, <1>5, <1>13

-----------------------------------------------------------------------------
(* Candidates *)

(* Engaging adds one scope to the kills, releasing removes one. *)
LEMMA KillSwitchFields ==
  ASSUME NEW p \in Policy, NEW scope \in Scopes
  PROVE  Engage(p, scope).kill = p.kill \cup {scope} /\ Release(p, scope).kill = p.kill \ {scope}
BY DEF Engage, Release, Policy

(* What a replacement keeps of the journal it still keeps after any step: *)
(* a journal that moved has another revision.                             *)
LEMMA KeepsKillsStable ==
  ASSUME Inductive, [Next]_vars, NEW b \in Nat, NEW n, NEW r, KeepsKills(b, n, r)
  PROVE  /\ b <= store'.rev
         /\ b = store'.rev => store'.pol.kill \ r \subseteq n.kill
<1>1. store.rev \in Nat
  BY NumericFields DEF Inductive
<1> QED BY <1>1, StoreAdvances DEF KeepsKills

(* Every step keeps the policy of an order whose breaker tripped from *)
(* dropping a kill of its revision.                                   *)
LEMMA TripsKeepKillsStep ==
  ASSUME Inductive, [Next]_vars
  PROVE  TripsKeepKills'
<1> USE NumericFields DEF Inductive, JournalCopies, PendingCommits
<1> SUFFICES ASSUME NEW o \in Orders, orders'[o].step = "tripped"
             PROVE  /\ orders'[o].rev \in Nat
                    /\ KeepsKills(orders'[o].rev, orders'[o].pol, {})
                    /\ orders'[o].scope \in orders'[o].pol.kill
  BY KeepsKillsStable DEF TripsKeepKills, KeepsKills
<1>1. CASE orders'[o] = orders[o]
  BY <1>1 DEF TripsKeepKills
<1>2. ASSUME NEW scope \in Scopes, EvaluateBreach(o, scope), orders[o].step = "loaded"
      PROVE  /\ orders'[o].rev \in Nat
             /\ KeepsKills(orders'[o].rev, orders'[o].pol, {})
             /\ orders'[o].scope \in orders'[o].pol.kill
  <2> DEFINE t == [step |-> "tripped", scope |-> scope, rev |-> orders[o].rev,
                   pol |-> Engage(orders[o].pol, scope)]
  <2>1. orders'[o] = t
    BY <1>2 DEF EvaluateBreach, Becomes, TypeOK
  <2>2. orders[o].pol \in Policy
    BY DEF TypeOK, OrderState
  <2>3. Engage(orders[o].pol, scope).kill = orders[o].pol.kill \cup {scope}
    BY <2>2, KillSwitchFields
  <2>4. Agrees(orders[o].rev, orders[o].pol)
    BY <1>2 DEF OrdersAgree
  <2> QED BY <2>1, <2>3, <2>4 DEF Agrees, KeepsKills
<1>3. ASSUME NEW q \in Orders, NEW scope \in Scopes, EvaluateBreach(q, scope)
      PROVE  orders'[o] = orders[o] \/ (q = o /\ orders[o].step = "loaded")
  BY <1>3 DEF EvaluateBreach, Becomes, TypeOK
<1>4. ASSUME NEW q \in Orders, EvaluateLoad(q) PROVE orders'[o] = orders[o]
  <2>1. [NoOrder EXCEPT !.step = "loaded", !.rev = store.rev, !.pol = store.pol].step = "loaded"
    BY DEF NoOrder
  <2> QED BY <1>4, <2>1 DEF EvaluateLoad, Becomes, TypeOK
<1>5. ASSUME NEW q \in Orders, Evaluate(q) \/ SignCheck(q) \/ SignFinish(q)
      PROVE  orders'[o] = orders[o]
  BY <1>5 DEF Evaluate, SignCheck, SignFinish, Becomes, AtStep, NoOrder, TypeOK, OrderState
<1>6. ASSUME NEW q \in Orders, TripCommit(q) \/ Dispatch(q) \/ PostResult(q)
      PROVE  orders'[o] = orders[o]
  BY <1>6 DEF TripCommit, Dispatch, PostResult, Becomes, NoOrder, TypeOK, OrderState
<1>7. ~Restart
  BY DEF Restart, NoOrder
<1> QED BY <1>1, <1>2, <1>3, <1>4, <1>5, <1>6, <1>7, OrdersFrame

(* Every step keeps the stage of an operation one its kind has. *)
LEMMA StepsFitStep ==
  ASSUME Inductive, [Next]_vars
  PROVE  StepsFit'
<1> USE NoMutationFields DEF Inductive, PendingCommits, StepsFit
<1>1. CASE mut' \in {mut, NoMutation}
  BY <1>1
<1>2. ASSUME NEW scope \in Scopes, Stop(scope) PROVE StepsFit'
  BY <1>2, StopKeepsMutation
<1>3. CASE \E scope \in Scopes : PersistOperatorKill(scope) \/ OperatorReleaseKill(scope)
  BY <1>3 DEF PersistOperatorKill, OperatorReleaseKill, NoMutation
<1>4. CASE OperatorAcknowledgePolicy \/ ConfirmActivation \/ ConfirmKillRelease
  BY <1>4 DEF OperatorAcknowledgePolicy, ConfirmActivation, ConfirmKillRelease, NoMutation
<1>5. CASE \E next \in EditCandidates(pol) : EditPolicy(next)
  BY <1>5 DEF EditPolicy, NoMutation
<1>6. CASE \E o \in Orders : TripCommit(o)
  BY <1>6 DEF TripCommit, NoMutation
<1>7. CASE RefreshLoad \/ AckVerify
  BY <1>7 DEF RefreshLoad, AckVerify, Done, TypeOK, Mutation
<1>8. CASE PersistCapture
  BY <1>8 DEF PersistCapture, Done, TypeOK, Mutation
<1>9. CASE CompareExchange
  BY <1>9 DEF CompareExchange, Done, TypeOK, Mutation
<1>10. CASE AdoptCommitted \/ CommitKillRelease
  BY <1>10 DEF AdoptCommitted, CommitKillRelease, Done, TypeOK, Mutation
<1> QED BY <1>1, <1>2, <1>3, <1>4, <1>5, <1>6, <1>7, <1>8, <1>9, <1>10, MutFrame
        DEF BeginOperatorKill, EvaluateBreach

(* Every step keeps a replacement that can still commit from dropping a *)
(* kill it does not release.                                            *)
LEMMA CasKeepsKillsStep ==
  ASSUME Inductive, [Next]_vars
  PROVE  CasKeepsKills'
<1> USE NumericFields, NoMutationFields DEF Inductive, JournalCopies, PendingCommits
<1> DEFINE Free(m) == IF m.op = "release" THEN {m.scope} ELSE {}
           Fine(m) == /\ m.base \in Nat
                      /\ KeepsKills(m.base, m.next, Free(m))
                      /\ m.op \in {"persist", "trip"} => m.scope \in m.next.kill
<1> SUFFICES ASSUME mut'.step = "cas" PROVE Fine(mut')
  BY KeepsKillsStable DEF CasKeepsKills, KeepsKills
<1>1. CASE mut' = mut
  BY <1>1 DEF CasKeepsKills
<1>2. ASSUME NEW scope \in Scopes, Stop(scope) PROVE Fine(mut')
  BY <1>2, StopKeepsMutation DEF CasKeepsKills
<1>3. ASSUME NEW scope \in Scopes, OperatorReleaseKill(scope) PROVE Fine(mut')
  <2> DEFINE m == [NoMutation EXCEPT !.op = "release", !.step = "cas", !.scope = scope,
                     !.base = rev, !.gen = gen, !.next = Release(pol, scope)]
  <2>1. /\ m.op = "release" /\ m.scope = scope /\ m.base = rev /\ m.next = Release(pol, scope)
    BY DEF NoMutation
  <2>2. Release(pol, scope).kill = pol.kill \ {scope}
    BY KillSwitchFields DEF TypeOK
  <2>3. mut' = m
    BY <1>3 DEF OperatorReleaseKill
  <2> HIDE DEF m
  <2> QED BY <2>1, <2>2, <2>3 DEF CacheAgrees, Agrees, KeepsKills
<1>4. ASSUME NEW next \in EditCandidates(pol), EditPolicy(next) PROVE Fine(mut')
  <2> DEFINE m == [NoMutation EXCEPT !.op = "edit", !.step = "cas", !.base = rev, !.next = next]
  <2>1. m.op = "edit" /\ m.base = rev /\ m.next = next
    BY DEF NoMutation
  <2>2. next.kill = pol.kill
    BY DEF EditCandidates
  <2>3. mut' = m
    BY <1>4 DEF EditPolicy
  <2> HIDE DEF m
  <2> QED BY <2>1, <2>2, <2>3 DEF CacheAgrees, Agrees, KeepsKills
<1>5. ASSUME NEW o \in Orders, TripCommit(o) PROVE Fine(mut')
  <2> DEFINE m == [NoMutation EXCEPT !.op = "trip", !.step = "cas", !.scope = orders[o].scope,
                     !.base = orders[o].rev, !.next = orders[o].pol]
  <2>1. m.op = "trip" /\ m.scope = orders[o].scope /\ m.base = orders[o].rev /\ m.next =
       orders[o].pol
    BY DEF NoMutation
  <2>2. mut' = m /\ orders[o].step = "tripped"
    BY <1>5 DEF TripCommit
  <2> HIDE DEF m
  <2> QED BY <2>1, <2>2 DEF TripsKeepKills
<1>6. ASSUME PersistCapture PROVE Fine(mut')
  <2> DEFINE m == [mut EXCEPT !.step = "cas", !.base = mut.snap.rev,
                     !.next = PersistCandidate(mut.snap.pol, mut.scope),
                     !.snap = NoMutation.snap]
  <2>1. /\ m.op = mut.op /\ m.scope = mut.scope /\ m.base = mut.snap.rev
        /\ m.next = PersistCandidate(mut.snap.pol, mut.scope)
    BY DEF TypeOK, Mutation
  <2>2. mut' = m
    BY <1>6 DEF PersistCapture, Done
  <2>3. mut.op = "persist" /\ Agrees(mut.snap.rev, mut.snap.pol)
    BY <1>6 DEF PersistCapture, StepsFit, SnapAgrees
  <2>4. PersistCandidate(mut.snap.pol, mut.scope).kill = mut.snap.pol.kill \cup {mut.scope}
    BY MutationFields, KillSwitchFields DEF PersistCandidate
  <2> HIDE DEF m
  <2> QED BY <2>1, <2>2, <2>3, <2>4 DEF Agrees, KeepsKills
<1>7. ASSUME RefreshLoad \/ AckVerify PROVE FALSE
  BY <1>7 DEF RefreshLoad, AckVerify, Done, TypeOK, Mutation
<1>8. ASSUME CompareExchange PROVE FALSE
  BY <1>8 DEF CompareExchange, Done, TypeOK, Mutation
<1>9. ASSUME AdoptCommitted \/ CommitKillRelease PROVE FALSE
  BY <1>9 DEF AdoptCommitted, CommitKillRelease, Done, TypeOK, Mutation
<1>10. ASSUME NEW scope \in Scopes, PersistOperatorKill(scope) PROVE mut' = mut
  BY <1>10 DEF PersistOperatorKill, NoMutation
<1>11. ASSUME OperatorAcknowledgePolicy \/ ConfirmActivation \/ ConfirmKillRelease PROVE mut' = mut
  BY <1>11 DEF OperatorAcknowledgePolicy, ConfirmActivation, ConfirmKillRelease, NoMutation
<1>12. \/ mut' = mut \/ PersistCapture
       \/ \E scope \in Scopes : Stop(scope) \/ OperatorReleaseKill(scope)
       \/ \E next \in EditCandidates(pol) : EditPolicy(next)
       \/ \E o \in Orders : TripCommit(o)
  BY <1>7, <1>8, <1>9, <1>10, <1>11, MutFrame DEF BeginOperatorKill, EvaluateBreach
<1> QED BY <1>1, <1>2, <1>3, <1>4, <1>5, <1>6, <1>12

(* Between the final check and the commit of a reviewed release the ledger *)
(* guard is held, so the policy it was computed from is still the durable  *)
(* one.                                                                    *)
LEMMA CommitReleasesStep ==
  ASSUME Inductive, [Next]_vars
  PROVE  CommitReleases'
<1> USE NoMutationFields DEF Inductive, PendingCommits
<1> SUFFICES ASSUME mut'.step = "commit" PROVE mut'.next = Release(store'.pol, mut'.scope)
  BY DEF CommitReleases, Release
<1>1. ASSUME mut.step = "commit" PROVE store' = store
  <2>1. ~LedgerFree
    BY <1>1 DEF StepsFit, LedgerFree
  <2>2. ~CompareExchange
    BY <1>1 DEF CompareExchange
  <2>3. ~CommitKillRelease
    BY <1>1 DEF CommitKillRelease, Done, TypeOK, Mutation
  <2>4. Environment => UNCHANGED store
    BY <2>1 DEF Environment, PeerWrite, Restart
  <2> QED BY <2>2, <2>3, <2>4, StoreFrame
<1>2. CASE mut' = mut
  BY <1>1, <1>2 DEF CommitReleases
<1>3. ASSUME NEW scope \in Scopes, Stop(scope) PROVE mut'.next = Release(store'.pol, mut'.scope)
  BY <1>1, <1>3, StopKeepsMutation DEF CommitReleases
<1>4. ASSUME ConfirmKillRelease PROVE mut' = mut \/ mut'.next = Release(store'.pol, mut'.scope)
  BY <1>4 DEF ConfirmKillRelease, NoMutation
<1>5. ASSUME RefreshLoad \/ AckVerify \/ PersistCapture PROVE FALSE
  BY <1>5 DEF RefreshLoad, AckVerify, PersistCapture, Done, TypeOK, Mutation
<1>6. ASSUME CompareExchange PROVE FALSE
  BY <1>6 DEF CompareExchange, Done, TypeOK, Mutation
<1>7. ASSUME AdoptCommitted \/ CommitKillRelease PROVE FALSE
  BY <1>7 DEF AdoptCommitted, CommitKillRelease, Done, TypeOK, Mutation
<1>8. ASSUME NEW scope \in Scopes, PersistOperatorKill(scope) \/ OperatorReleaseKill(scope)
     PROVE mut' = mut
  BY <1>8 DEF PersistOperatorKill, OperatorReleaseKill, NoMutation
<1>9. ASSUME OperatorAcknowledgePolicy \/ ConfirmActivation PROVE mut' = mut
  BY <1>9 DEF OperatorAcknowledgePolicy, ConfirmActivation, NoMutation
<1>10. ASSUME NEW next \in EditCandidates(pol), EditPolicy(next) PROVE FALSE
  BY <1>10 DEF EditPolicy, NoMutation
<1>11. ASSUME NEW o \in Orders, TripCommit(o) PROVE FALSE
  BY <1>11 DEF TripCommit, NoMutation
<1> QED BY <1>2, <1>3, <1>4, <1>5, <1>6, <1>7, <1>8, <1>9, <1>10, <1>11, MutFrame
        DEF BeginOperatorKill, EvaluateBreach

-----------------------------------------------------------------------------
(* Confirmed engagements *)

(* A confirmed kill leaves the journal only in the step that withdraws its *)
(* confirmation.                                                           *)
LEMMA ConfirmedStep ==
  ASSUME Inductive, [Next]_vars
  PROVE  ConfirmedKillIsDurable'
<1> USE DEF Inductive, PendingCommits, ConfirmedKillIsDurable
<1>1. CASE UNCHANGED <<store, durable>>
  BY <1>1
<1>2. CASE CompareExchange
  <2>1. mut.op \in {"persist", "trip", "edit", "release"} /\ mut.step = "cas"
    BY <1>2 DEF CompareExchange, StepsFit
  <2>2. Committed(mut.next).pol = mut.next
    BY DEF Committed
  <2>3. ASSUME CanCommit(mut.base, mut.next)
        PROVE  store.pol.kill \ (IF mut.op = "release" THEN {mut.scope} ELSE {}) \subseteq mut.next.kill
    BY <2>1, <2>3 DEF CanCommit, CasKeepsKills, KeepsKills
  <2>4. mut.op \in {"persist", "trip"} => mut.scope \in mut.next.kill
    BY <2>1 DEF CasKeepsKills
  <2>5. \/ store' = Committed(mut.next) /\ CanCommit(mut.base, mut.next)
        \/ store' = store /\ store.pol = mut.next
        \/ store' = store /\ durable' = durable
    BY <1>2 DEF CompareExchange, ExactRetry
  <2>6. durable' \in {durable, DurableAfter(mut.op, mut.scope)} \/ (mut.op = "release" /\
       durable' = durable \ {mut.scope})
    BY <1>2 DEF CompareExchange
  <2>7. DurableAfter(mut.op, mut.scope) = IF mut.op \in {"persist", "trip"} THEN durable \cup
       {mut.scope}
                                          ELSE IF mut.op = "release" THEN durable \ {mut.scope} ELSE durable
    BY <2>1 DEF DurableAfter
  <2>8. mut.op = "release" => durable' # durable \/ mut.scope \notin durable \/ store' = store
    BY <1>2 DEF CompareExchange, DurableAfter
  <2> QED BY <2>1, <2>2, <2>3, <2>4, <2>5, <2>6, <2>7, <2>8
<1>3. CASE CommitKillRelease
  <2>1. mut.op = "confirm" /\ mut.next = Release(store.pol, mut.scope)
    BY <1>3 DEF CommitKillRelease, StepsFit, CommitReleases
  <2>2. mut.next.kill = store.pol.kill \ {mut.scope}
    BY <2>1, StoreFields, MutationFields, KillSwitchFields
  <2>3. \/ UNCHANGED <<store, durable>>
        \/ store'.pol = mut.next /\ durable' = DurableAfter(mut.op, mut.scope)
    BY <1>3 DEF CommitKillRelease
  <2>4. DurableAfter(mut.op, mut.scope) = durable \ {mut.scope}
    BY <2>1 DEF DurableAfter
  <2> QED BY <2>2, <2>3, <2>4
<1>4. CASE Environment
  <2>1. ASSUME NEW scope \in Scopes
        PROVE  /\ Engage(store.pol, scope).kill = store.pol.kill \cup {scope}
               /\ Release(store.pol, scope).kill = store.pol.kill \ {scope}
    BY StoreFields, KillSwitchFields
  <2>2. ASSUME NEW next \in EditCandidates(store.pol) PROVE next.kill = store.pol.kill
    BY DEF EditCandidates
  <2> QED BY <1>4, <2>1, <2>2 DEF Environment, PeerWrite, Restart
<1> QED BY <1>1, <1>2, <1>3, <1>4, StoreFrame

-----------------------------------------------------------------------------
(* Documents, acknowledgments and halts *)

(* Every step keeps a requested HALT in the emergency overlay, up to the *)
(* saturation of the stop generation.                                    *)
LEMMA HaltsCoveredStep ==
  ASSUME Inductive, [Next]_vars
  PROVE  HaltsCovered'
<1> USE ConstantsAssumption DEF Inductive, HaltsCovered
<1> DEFINE Held == gen' \in {gen, NextGeneration(gen)}
<1>1. ASSUME Held, gen' # MaxGeneration PROVE gen # MaxGeneration
  BY <1>1 DEF NextGeneration
<1>2. CASE UNCHANGED <<emergency, halted>> /\ Held
  BY <1>1, <1>2
<1>3. ASSUME NEW scope \in Scopes, Stop(scope) PROVE HaltsCovered'
  BY <1>1, <1>3 DEF Stop, Inhibit
<1>4. CASE ConfirmKillRelease
  BY <1>4 DEF ConfirmKillRelease
<1>5. CASE Restart
  BY <1>5 DEF Restart
<1>6. ASSUME ClearOverlay(mut.scope), Held, NoNewStop(mut.gen), mut.op \in Captured PROVE
     HaltsCovered'
  <2>1. gen # MaxGeneration => mut.late = {}
    BY <1>6 DEF GenerationsGuard, Quiet, NoNewStop
  <2> QED BY <1>1, <1>6, <2>1 DEF ClearOverlay
<1>7. CASE ReleaseFinish
  <2>1. mut.op \in Captured
    BY <1>7 DEF ReleaseFinish, PendingCommits, StepsFit, Captured
  <2> QED BY <1>1, <1>6, <1>7, <2>1 DEF ReleaseFinish, AdmissionUnchanged
<1>8. CASE SettleKillRelease
  <2>1. mut.op \in Captured
    BY <1>8 DEF SettleKillRelease, PendingCommits, StepsFit, Captured
  <2> QED BY <1>1, <1>6, <1>8, <2>1 DEF SettleKillRelease, Inhibit, engine
<1> QED BY <1>2, <1>3, <1>4, <1>5, <1>7, <1>8, HaltFrame DEF BeginOperatorKill, EvaluateBreach

(* Within a process the cached policy never goes back and never changes *)
(* under one revision.                                                  *)
LEMMA PolicyAdvances ==
  ASSUME Inductive, [Next]_vars, ~Restart
  PROVE  rev' \in Nat /\ rev' >= rev /\ (rev' = rev => pol' = pol)
<1> USE NumericFields DEF Inductive
<1>1. CASE UNCHANGED <<rev, pol>>
  BY <1>1
<1>2. ASSUME NEW v, v.rev \in Nat, Publishable(v), Publish(v)
      PROVE  rev' \in Nat /\ rev' >= rev /\ (rev' = rev => pol' = pol)
  BY <1>2 DEF Publishable, Publish
<1>3. StoreVersion.rev \in Nat
  BY DEF StoreVersion
<1>4. [rev |-> review.rev, pol |-> review.pol].rev \in Nat
  OBVIOUS
<1>5. ASSUME NEW o \in Orders PROVE Loaded(o).rev \in Nat
  BY DEF Loaded
<1> USE DEF CachedPolicyUnchanged
<1>6. CASE \E scope \in Scopes : ReviewKillRelease(scope)
  BY <1>1, <1>2, <1>3, <1>6 DEF ReviewKillRelease
<1>7. CASE \E agent \in Agents : BeginActivationReview(agent)
  BY <1>1, <1>2, <1>3, <1>7 DEF BeginActivationReview
<1>8. CASE PersistCapture \/ AdoptCommitted \/ AckVerify \/ SettleKillRelease
  BY <1>1, <1>2, <1>8 DEF PersistCapture, AdoptCommitted, AckVerify, SettleKillRelease, engine
<1>9. CASE ObservePublish
  BY <1>1, <1>2, <1>4, <1>9 DEF ObservePublish
<1>10. CASE \E o \in Orders : Evaluate(o)
  BY <1>1, <1>2, <1>5, <1>10 DEF Evaluate
<1>11. CASE \E o \in Orders, scope \in Scopes : EvaluateBreach(o, scope)
  BY <1>1, <1>2, <1>5, <1>11 DEF EvaluateBreach
<1> QED BY <1>1, <1>6, <1>7, <1>8, <1>9, <1>10, <1>11, PolicyFrame

(* No document is told from every document by its kind. *)
LEMMA NoReviewFields == NoReview.kind = "none"
BY DEF NoReview

(* A document is handed out with the revision, policy and generation it    *)
(* published; afterwards only stops mark it.                               *)
LEMMA ReviewMoves ==
  ASSUME Inductive, [Next]_vars, review'.kind \in Documented
  PROVE  \/ /\ review.kind \in Documented
            /\ review'.rev = review.rev /\ review'.pol = review.pol /\ review'.gen = review.gen
            /\ review'.late = review.late \/ \E scope \in Scopes : Stop(scope)
         \/ /\ review'.rev = rev' /\ review'.pol = pol' /\ review'.gen = gen'
            /\ review'.late = {}
<1> USE NoReviewFields DEF Inductive, Documented
<1> DEFINE Kept == /\ review.kind \in Documented
                   /\ review'.rev = review.rev /\ review'.pol = review.pol /\ review'.gen = review.gen
                   /\ review'.late = review.late \/ \E scope \in Scopes : Stop(scope)
           Fresh == /\ review'.rev = rev' /\ review'.pol = pol' /\ review'.gen = gen'
                    /\ review'.late = {}
<1>1. CASE UNCHANGED review
  BY <1>1
<1>2. ASSUME NEW scope \in Scopes, Stop(scope) PROVE Kept
  BY <1>2 DEF Stop, TypeOK, Review
<1>3. ~ObserveLoad
  <2>1. [NoReview EXCEPT !.kind = "reading", !.rev = store.rev, !.pol = store.pol].kind = "reading"
    BY DEF NoReview
  <2> QED BY <2>1 DEF ObserveLoad
<1>4. ASSUME ObservePublish PROVE Fresh
  <2> DEFINE d == [review EXCEPT !.kind = "observation", !.gen = gen, !.late = {}]
  <2>1. d.rev = review.rev /\ d.pol = review.pol /\ d.gen = gen /\ d.late = {}
    BY DEF TypeOK, Review
  <2>2. review' = d /\ rev' = review.rev /\ pol' = review.pol /\ gen' = gen
    BY <1>4 DEF ObservePublish, Publish, AdmissionUnchanged
  <2> QED BY <2>1, <2>2
<1>5. ASSUME ReviewActivation PROVE Kept
  <2> DEFINE d == [review EXCEPT !.kind = "reviewed"]
  <2>1. d.rev = review.rev /\ d.pol = review.pol /\ d.gen = review.gen /\ d.late = review.late
    BY DEF TypeOK, Review
  <2>2. review.kind = "activation" /\ review' = d
    BY <1>5 DEF ReviewActivation
  <2> QED BY <2>1, <2>2
<1>6. ASSUME NEW agent \in Agents, BeginActivationReview(agent) PROVE Fresh
  <2> DEFINE d == [NoReview EXCEPT !.kind = "activation", !.scope = agent, !.rev = store.rev,
                                   !.gen = NextGeneration(gen), !.pol = store.pol]
  <2>1. d.rev = store.rev /\ d.pol = store.pol /\ d.gen = NextGeneration(gen) /\ d.late = {}
    BY DEF NoReview
  <2>2. review' = d /\ rev' = store.rev /\ pol' = store.pol /\ gen' = NextGeneration(gen)
    BY <1>6 DEF BeginActivationReview, Publish, StoreVersion, Inhibit
  <2> QED BY <2>1, <2>2
<1>7. ASSUME NEW scope \in Scopes, ReviewKillRelease(scope) PROVE Fresh
  <2> DEFINE d(b) == [NoReview EXCEPT !.kind = "release", !.scope = scope, !.local = b,
                        !.rev = store.rev, !.gen = NextGeneration(gen), !.pol = store.pol]
  <2>1. ASSUME NEW b \in BOOLEAN
        PROVE  d(b).rev = store.rev /\ d(b).pol = store.pol /\ d(b).gen = NextGeneration(gen) /\ d(b).late = {}
    BY DEF NoReview
  <2>2. (scope \in emergency) \in BOOLEAN
    OBVIOUS
  <2>3. /\ review' = d(scope \in emergency)
        /\ rev' = store.rev /\ pol' = store.pol /\ gen' = NextGeneration(gen)
    BY <1>7 DEF ReviewKillRelease, Publish, StoreVersion, Inhibit
  <2> QED BY <2>1, <2>2, <2>3
<1>8. ~ConfirmActivation /\ ~ConfirmKillRelease /\ ~Restart
  BY DEF ConfirmActivation, ConfirmKillRelease, Restart
<1> QED BY <1>1, <1>2, <1>3, <1>4, <1>5, <1>6, <1>7, <1>8, ReviewFrame
        DEF BeginOperatorKill, EvaluateBreach

(* An operation that relies on a generation captured it when it started,   *)
(* from the engine or from the operator's document.                        *)
LEMMA CapturedMoves ==
  ASSUME Inductive, [Next]_vars, mut'.op \in Captured
  PROVE  \/ /\ mut'.op = mut.op /\ mut'.gen = mut.gen
            /\ mut'.late = mut.late \/ \E scope \in Scopes : Stop(scope)
            /\ mut.op \in {"ack", "activate"} => mut'.base = mut.base /\ mut'.next = mut.next
         \/ mut'.op = "release" /\ mut'.gen = gen' /\ mut'.late = {}
         \/ /\ review.kind \in Documented
            /\ mut'.gen = review.gen /\ mut'.late = review.late
            /\ mut'.op \in {"ack", "activate"} => mut'.base = review.rev /\ mut'.next = review.pol
<1> USE NoMutationFields DEF Inductive, Captured, Documented
<1> DEFINE Kept == /\ mut'.op = mut.op /\ mut'.gen = mut.gen
                   /\ mut'.late = mut.late \/ \E scope \in Scopes : Stop(scope)
                   /\ mut.op \in {"ack", "activate"} => mut'.base = mut.base /\ mut'.next = mut.next
           Given == /\ review.kind \in Documented
                    /\ mut'.gen = review.gen /\ mut'.late = review.late
                    /\ mut'.op \in {"ack", "activate"} => mut'.base = review.rev /\ mut'.next = review.pol
<1>1. CASE mut' \in {mut, NoMutation}
  BY <1>1
<1>2. ASSUME NEW scope \in Scopes, Stop(scope) PROVE Kept
  BY <1>2, StopKeepsMutation
<1>3. ASSUME NEW scope \in Scopes, OperatorReleaseKill(scope)
      PROVE  mut'.op = "release" /\ mut'.gen = gen' /\ mut'.late = {}
  BY <1>3 DEF OperatorReleaseKill, NoMutation
<1>4. ASSUME NEW scope \in Scopes, PersistOperatorKill(scope) PROVE mut' = mut
  BY <1>4 DEF PersistOperatorKill, NoMutation
<1>5. ASSUME NEW next \in EditCandidates(pol), EditPolicy(next) PROVE FALSE
  BY <1>5 DEF EditPolicy, NoMutation
<1>6. ASSUME NEW o \in Orders, TripCommit(o) PROVE FALSE
  BY <1>6 DEF TripCommit, NoMutation
<1>7. ASSUME OperatorAcknowledgePolicy PROVE Given
  BY <1>7 DEF OperatorAcknowledgePolicy, NoMutation
<1>8. ASSUME ConfirmActivation PROVE mut' = mut \/ Given
  BY <1>8 DEF ConfirmActivation, NoMutation
<1>9. ASSUME ConfirmKillRelease PROVE mut' = mut \/ Given
  BY <1>9 DEF ConfirmKillRelease, NoMutation
<1>10. ASSUME RefreshLoad \/ AckVerify PROVE Kept
  BY <1>10 DEF RefreshLoad, AckVerify, Done, TypeOK, Mutation
<1>11. ASSUME PersistCapture PROVE FALSE
  BY <1>11 DEF PersistCapture, Done, TypeOK, Mutation, PendingCommits, StepsFit
<1>12. ASSUME CompareExchange PROVE Kept
  BY <1>12 DEF CompareExchange, Done, TypeOK, Mutation, PendingCommits, StepsFit
<1>13. ASSUME AdoptCommitted \/ CommitKillRelease PROVE Kept
  BY <1>13 DEF AdoptCommitted, CommitKillRelease, Done, TypeOK, Mutation
<1> QED BY <1>1, <1>2, <1>3, <1>4, <1>5, <1>6, <1>7, <1>8, <1>9, <1>10, <1>11, <1>12, <1>13,
     MutFrame
        DEF BeginOperatorKill, EvaluateBreach

(* What an acknowledgment records *)
LEMMA AckMoves ==
  ASSUME Inductive, [Next]_vars, acknowledged' # NoAck
  PROVE  \/ UNCHANGED acknowledged
         \/ /\ mut.op \in {"ack", "activate"}
            /\ acknowledged'.rev = mut.base /\ acknowledged'.pol = mut.next
            /\ acknowledged'.gen = mut.gen /\ acknowledged'.late = mut.late
            /\ mut.gen = gen /\ mut.gen # MaxGeneration
<1>1. CASE AckFinish
  BY <1>1 DEF AckFinish, ObservedCurrent, Inhibit
<1>2. CASE ActivationFinish
  BY <1>2 DEF ActivationFinish, ActivationLocal, Inhibit
<1> QED BY <1>1, <1>2, AckFrame

(* Every step keeps what the operator reviews or has acknowledged no newer *)
(* than what the engine published.                                         *)
LEMMA ReviewsPublishedStep ==
  ASSUME Inductive, [Next]_vars
  PROVE  ReviewsPublished'
<1> USE NumericFields, NoReviewFields, NoMutationFields DEF Inductive, ReviewsPublished
<1>1. CASE Restart
  BY <1>1 DEF Restart, Documented
<1> SUFFICES ASSUME ~Restart PROVE ReviewsPublished'
  BY <1>1
<1>2. ASSUME NEW r \in Nat, NEW p, Published(r, p)
      PROVE  r <= rev' /\ (r = rev' => p = pol')
  BY <1>2, PolicyAdvances DEF Published
<1>3. rev' \in Nat
  BY PolicyAdvances
<1>4. (review.kind \in Documented => Published(review.rev, review.pol))'
  <2> SUFFICES ASSUME review'.kind \in Documented
               PROVE  review'.rev <= rev' /\ (review'.rev = rev' => review'.pol = pol')
    BY DEF Published
  <2> QED BY <1>2, <1>3, ReviewMoves
<1>5. (mut.op \in {"ack", "activate"} => Published(mut.base, mut.next))'
  <2> SUFFICES ASSUME mut'.op \in {"ack", "activate"}
               PROVE  mut'.base <= rev' /\ (mut'.base = rev' => mut'.next = pol')
    BY DEF Published
  <2> QED BY <1>2, CapturedMoves DEF Captured
<1>6. (acknowledged # NoAck => Published(acknowledged.rev, acknowledged.pol))'
  <2> SUFFICES ASSUME acknowledged' # NoAck
               PROVE  acknowledged'.rev <= rev' /\ (acknowledged'.rev = rev' => acknowledged'.pol = pol')
    BY DEF Published
  <2>1. acknowledged # NoAck => acknowledged.rev \in Nat
    BY DEF TypeOK, Acknowledgment
  <2> QED BY <1>2, <2>1, AckMoves
<1> QED BY <1>4, <1>5, <1>6

(* Every step keeps an unchanged stop generation a proof that no stop came *)
(* in between.                                                             *)
LEMMA GenerationsGuardStep ==
  ASSUME Inductive, [Next]_vars
  PROVE  GenerationsGuard'
<1> USE NumericFields, NoReviewFields, NoMutationFields DEF Inductive, GenerationsGuard
<1>1. CASE Restart
  BY <1>1 DEF Restart, Documented, Captured
<1> SUFFICES ASSUME ~Restart PROVE GenerationsGuard'
  BY <1>1
<1>2. gen' \in {gen, NextGeneration(gen)}
  BY GenFrame
<1>3. gen' \in Nat /\ gen' >= gen /\ (gen' # MaxGeneration => gen # MaxGeneration)
  BY <1>2 DEF NextGeneration, TypeOK
<1>4. ASSUME NEW scope \in Scopes, Stop(scope), gen' # MaxGeneration PROVE gen' = gen + 1
  BY <1>4 DEF Stop, Inhibit, NextGeneration
<1>5. ASSUME NEW g \in Nat, NEW late, NEW late2, Quiet(g, late),
             late2 = late \/ \E scope \in Scopes : Stop(scope)
      PROVE  g <= gen' /\ (g = gen' /\ gen' # MaxGeneration => late2 = {})
  BY <1>3, <1>4, <1>5 DEF Quiet
<1>6. (review.kind \in Documented => Quiet(review.gen, review.late))'
  <2> SUFFICES ASSUME review'.kind \in Documented
               PROVE  /\ review'.gen <= gen'
                      /\ review'.gen = gen' /\ gen' # MaxGeneration => review'.late = {}
    BY DEF Quiet
  <2>1. CASE /\ review.kind \in Documented /\ review'.gen = review.gen
             /\ review'.late = review.late \/ \E scope \in Scopes : Stop(scope)
    <3>1. Quiet(review.gen, review.late)
      BY <2>1
    <3> QED BY <1>5, <2>1, <3>1
  <2>2. CASE review'.gen = gen' /\ review'.late = {}
    BY <1>3, <2>2
  <2> QED BY <2>1, <2>2, ReviewMoves
<1>7. (mut.op \in Captured => Quiet(mut.gen, mut.late))'
  <2> SUFFICES ASSUME mut'.op \in Captured
               PROVE  /\ mut'.gen <= gen'
                      /\ mut'.gen = gen' /\ gen' # MaxGeneration => mut'.late = {}
    BY DEF Quiet
  <2>1. CASE mut'.op = mut.op /\ mut'.gen = mut.gen
             /\ (mut'.late = mut.late \/ \E scope \in Scopes : Stop(scope))
    <3>1. Quiet(mut.gen, mut.late)
      BY <2>1
    <3> QED BY <1>5, <2>1, <3>1
  <2>2. CASE mut'.gen = gen' /\ mut'.late = {}
    BY <1>3, <2>2
  <2>3. CASE review.kind \in Documented /\ mut'.gen = review.gen /\ mut'.late = review.late
    <3>1. Quiet(review.gen, review.late)
      BY <2>3
    <3> QED BY <1>5, <2>3, <3>1
  <2> QED BY <2>1, <2>2, <2>3, CapturedMoves
<1>8. (acknowledged # NoAck => acknowledged.gen # MaxGeneration /\ acknowledged.late = {})'
  <2> SUFFICES ASSUME acknowledged' # NoAck
               PROVE  acknowledged'.gen # MaxGeneration /\ acknowledged'.late = {}
    OBVIOUS
  <2> QED BY AckMoves DEF Captured, Quiet
<1> QED BY <1>6, <1>7, <1>8

-----------------------------------------------------------------------------
(* The theorems *)

(* The inductive invariant holds initially. *)
LEMMA InductiveInit == Init => Inductive
<1> SUFFICES ASSUME Init PROVE Inductive
  OBVIOUS
<1>1. TypeOK
  BY InitType
<1>2. mut.step = "idle" /\ mut.op = "none" /\ review.kind = "none" /\ acknowledged = NoAck
  BY NoMutationFields, NoReviewFields DEF Init
<1>3. \A o \in Orders : orders[o].step = "idle"
  BY DEF Init, NoOrder
<1>4. CacheAgrees
  BY <1>1, NumericFields DEF Init, CacheAgrees, Agrees
<1>5. JournalCopies
  BY <1>2, <1>3, <1>4 DEF JournalCopies, SnapAgrees, ReviewAgrees, OrdersAgree
<1>6. PendingCommits
  BY <1>2, <1>3 DEF PendingCommits, CasKeepsKills, CommitReleases, TripsKeepKills, StepsFit
<1>7. ReviewsPublished /\ GenerationsGuard
  BY <1>2 DEF ReviewsPublished, GenerationsGuard, Documented, Captured
<1>8. ConfirmedKillIsDurable /\ HaltsCovered
  BY DEF Init, ConfirmedKillIsDurable, HaltsCovered
<1> QED BY <1>1, <1>5, <1>6, <1>7, <1>8 DEF Inductive

(* Every step preserves the inductive invariant, part by part. *)
LEMMA InductiveStep == Inductive /\ [Next]_vars => Inductive'
<1> SUFFICES ASSUME Inductive, [Next]_vars PROVE Inductive'
  OBVIOUS
<1>1. TypeOK'
  BY TypeStep DEF Inductive
<1>2. JournalCopies'
  BY CacheAgreesStep, SnapAgreesStep, ReviewAgreesStep, OrdersAgreeStep DEF JournalCopies
<1>3. PendingCommits'
  BY CasKeepsKillsStep, CommitReleasesStep, TripsKeepKillsStep, StepsFitStep DEF PendingCommits
<1> QED BY <1>1, <1>2, <1>3, ConfirmedStep, ReviewsPublishedStep, GenerationsGuardStep,
           HaltsCoveredStep DEF Inductive

(* Every copy, candidate, document and generation the engine keeps across  *)
(* a gap in its locks satisfies the invariant above.                       *)
THEOREM InductiveInvariant == Spec => []Inductive
BY InductiveInit, InductiveStep, PTL DEF Spec

(* A confirmed engagement that nobody released stays in the journal,       *)
(* whatever full-state replacement any writer makes from whatever copy.    *)
THEOREM ConfirmedKillsAreDurable == Spec => []ConfirmedKillIsDurable
<1>1. Inductive => ConfirmedKillIsDurable
  BY DEF Inductive
<1> QED BY <1>1, InductiveInvariant, PTL

(* publish never meets a policy that changed without a revision. *)
THEOREM RevisionsNamePolicies == Spec => []RevisionNamesPolicy
<1>1. Inductive => RevisionNamesPolicy
  BY DEF Inductive, JournalCopies, CacheAgrees, Agrees, RevisionNamesPolicy
<1> QED BY <1>1, InductiveInvariant, PTL

(* A valid acknowledgment is of the cached policy and of a moment after    *)
(* the last stop.                                                          *)
THEOREM AcknowledgmentsReflectReviews == Spec => []AckReflectsReview
<1>1. Inductive => AckReflectsReview
  BY DEF Inductive, ReviewsPublished, Published, GenerationsGuard, AckReflectsReview, Acknowledged
<1> QED BY <1>1, InductiveInvariant, PTL

-----------------------------------------------------------------------------
(* PolicyEngine implements HaltGate.  The step that matters is an          *)
(* admission: the signing gate looks at the journal under the ledger lock  *)
(* (nothing durable is missed) and at the engine's own state under its     *)
(* mutex.  An order passes only under a live acknowledgment, hence with a  *)
(* generation that is not exhausted, and then every unreleased halt is     *)
(* still in the emergency overlay (HaltsCovered).                          *)

(* An order becomes signed or sent only through the full gate. *)
LEMMA AdmissionGate ==
  ASSUME Inductive, [Next]_vars, NEW o \in Orders,
         orders'[o].step \in {"signed", "sent"}, orders'[o].step # orders[o].step
  PROVE  /\ orders[o].step \in {"signing", "signed"}
         /\ BeforeSign(o) /\ CheckState(o)
<1>1. orders \in [Orders -> OrderState]
  BY DEF Inductive, TypeOK
<1>2. NoOrder.step = "idle"
  BY DEF NoOrder
<1>3. CASE \E x \in Orders : EvaluateLoad(x)
  BY <1>1, <1>3 DEF EvaluateLoad, Becomes, NoOrder, OrderState
<1>4. CASE \E x \in Orders : Evaluate(x)
  BY <1>1, <1>2, <1>4 DEF Evaluate, Becomes, AtStep, OrderState
<1>5. CASE \E x \in Orders, scope \in Scopes : EvaluateBreach(x, scope)
  BY <1>1, <1>5 DEF EvaluateBreach, Becomes, OrderState
<1>6. CASE \E x \in Orders : TripCommit(x)
  BY <1>1, <1>2, <1>6 DEF TripCommit, Becomes
<1>7. CASE \E x \in Orders : SignCheck(x)
  BY <1>1, <1>2, <1>7 DEF SignCheck, Becomes, AtStep, OrderState
<1>8. CASE \E x \in Orders : SignFinish(x)
  BY <1>1, <1>2, <1>8 DEF SignFinish, Becomes, AtStep, OrderState
<1>9. CASE \E x \in Orders : Dispatch(x)
  BY <1>1, <1>2, <1>9 DEF Dispatch, Becomes
<1>10. CASE \E x \in Orders : PostResult(x)
  BY <1>1, <1>2, <1>10 DEF PostResult, Becomes
<1>11. CASE Restart
  BY <1>2, <1>11 DEF Restart
<1> QED BY <1>3, <1>4, <1>5, <1>6, <1>7, <1>8, <1>9, <1>10, <1>11, OrdersFrame

(* Whoever else writes the ledger, an order is admitted only while the     *)
(* journal still holds the policy it was evaluated against (before_sign    *)
(* under the signing permit).                                              *)
THEOREM AdmissionsUseEvaluatedPolicy == Spec => AdmittedUnderEvaluatedPolicy
<1> DEFINE Admission ==
      \A o \in Orders :
        orders'[o].step \in {"signed", "sent"} /\ orders'[o].step # orders[o].step
          => store.rev = orders[o].rev /\ store.pol = orders[o].pol
<1>1. Inductive /\ [Next]_vars => [Admission]_vars
  <2> SUFFICES ASSUME Inductive, [Next]_vars, NEW o \in Orders,
                      orders'[o].step \in {"signed", "sent"},
                      orders'[o].step # orders[o].step
               PROVE  store.rev = orders[o].rev /\ store.pol = orders[o].pol
    OBVIOUS
  <2>1. orders[o].step \in {"signing", "signed"} /\ store.rev = orders[o].rev
    BY AdmissionGate DEF BeforeSign
  <2> QED BY <2>1 DEF Inductive, JournalCopies, OrdersAgree, Agrees
<1> QED BY <1>1, InductiveInvariant, PTL DEF Spec, AdmittedUnderEvaluatedPolicy

(* The gate is HaltGate's: it is open for the order's agent. *)
LEMMA GateIsOpen ==
  ASSUME Inductive, NEW o \in Orders, BeforeSign(o), CheckState(o)
  PROVE  HG!Open(AgentOf[o])
<1>1. acknowledged # NoAck /\ acknowledged.gen = gen
  BY DEF CheckState, PolicyHolds, AcknowledgedFor, Acknowledged
<1>2. gen # MaxGeneration
  BY <1>1 DEF Inductive, GenerationsGuard
<1>3. halted \subseteq emergency /\ durable \subseteq store.pol.kill
  BY <1>2 DEF Inductive, HaltsCovered, ConfirmedKillIsDurable
<1> QED BY <1>3 DEF BeforeSign, CheckState, Blocking, Covers, EffectiveKill, HG!Open

(* What the pipelines' steps look like to HaltGate *)
LEMMA AdmittedMoves ==
  ASSUME Inductive, NEW o \in Orders, NEW s, Becomes(o, s)
  PROVE  Admitted' = [Admitted EXCEPT ![o] =
                        IF s.step \in {"signed", "sent"} THEN s.step ELSE "no"]
BY DEF Becomes, Admitted, Inductive, TypeOK

(* A step of a pipeline that leaves halts and journal alone *)
LEMMA PipelineStep ==
  ASSUME Inductive, NEW o \in Orders, UNCHANGED <<halted, durable>>,
         SignFinish(o) \/ Dispatch(o) \/ PostResult(o)
  PROVE  [HG!Next]_(HG!vars)
<1> DEFINE now == Admitted[o]
<1>1. now = IF orders[o].step \in {"signed", "sent"} THEN orders[o].step ELSE "no"
  BY DEF Admitted
<1>2. ASSUME NEW s, Becomes(o, s), s.step \notin {"signed", "sent"}
      PROVE  [HG!Next]_(HG!vars)
  <2>1. Admitted' = [Admitted EXCEPT ![o] = "no"]
    BY <1>2, AdmittedMoves
  <2>2. CASE now = "no"
    <3>1. Admitted' = Admitted
      BY <2>1, <2>2 DEF Admitted
    <3> QED BY <3>1 DEF HG!vars
  <2>3. CASE now # "no"
    <3>1. HG!End(o)
      BY <2>1, <2>3 DEF HG!End
    <3> QED BY <3>1 DEF HG!Next
  <2> QED BY <2>2, <2>3
<1>3. NoOrder.step = "idle"
  BY DEF NoOrder
<1>4. CASE Becomes(o, NoOrder)
  BY <1>2, <1>3, <1>4
<1>5. CASE orders[o].step = "signing" /\ BeforeSign(o) /\ CheckState(o)
             /\ Becomes(o, AtStep(o, "signed"))
  <2>1. AtStep(o, "signed").step = "signed"
    BY DEF AtStep, Inductive, TypeOK, OrderState
  <2>2. Admitted' = [Admitted EXCEPT ![o] = "signed"]
    BY <1>5, <2>1, AdmittedMoves
  <2>3. HG!Sign(o)
    BY <1>1, <1>5, <2>2, GateIsOpen DEF HG!Sign
  <2> QED BY <2>3 DEF HG!Next
<1>6. CASE orders[o].step = "signed" /\ BeforeSign(o) /\ CheckState(o)
             /\ Becomes(o, [NoOrder EXCEPT !.step = "sent"])
  <2>1. [NoOrder EXCEPT !.step = "sent"].step = "sent"
    BY DEF NoOrder
  <2>2. Admitted' = [Admitted EXCEPT ![o] = "sent"]
    BY <1>6, <2>1, AdmittedMoves
  <2>3. HG!Send(o)
    BY <1>1, <1>6, <2>2, GateIsOpen DEF HG!Send
  <2> QED BY <2>3 DEF HG!Next
<1> QED BY <1>4, <1>5, <1>6 DEF SignFinish, Dispatch, PostResult

(* Every other step leaves the admissions alone. *)
LEMMA AdmittedFrame ==
  ASSUME Inductive, [Next]_vars, ~Restart,
         \A o \in Orders : ~SignFinish(o) /\ ~Dispatch(o) /\ ~PostResult(o)
  PROVE  Admitted' = Admitted
<1>1. ASSUME NEW o \in Orders, NEW s, Becomes(o, s), s.step \notin {"signed", "sent"},
             orders[o].step \notin {"signed", "sent"}
      PROVE  Admitted' = Admitted
  BY <1>1, AdmittedMoves, ZenonT(30) DEF Admitted
<1>2. NoOrder.step = "idle"
  BY DEF NoOrder
<1>3. CASE \E o \in Orders : EvaluateLoad(o)
  <2>1. PICK o \in Orders : EvaluateLoad(o)
    BY <1>3
  <2>2. [NoOrder EXCEPT !.step = "loaded", !.rev = store.rev, !.pol = store.pol].step = "loaded"
    BY DEF NoOrder
  <2> QED BY <1>1, <2>1, <2>2 DEF EvaluateLoad, Admitted
<1>4. CASE \E o \in Orders : Evaluate(o)
  <2>1. PICK o \in Orders : Evaluate(o)
    BY <1>4
  <2>2. AtStep(o, "cleared").step = "cleared"
    BY DEF AtStep, Inductive, TypeOK, OrderState
  <2> QED BY <1>1, <1>2, <2>1, <2>2 DEF Evaluate
<1>5. CASE \E o \in Orders, scope \in Scopes : EvaluateBreach(o, scope)
  BY <1>1, <1>5 DEF EvaluateBreach
<1>6. CASE \E o \in Orders : TripCommit(o)
  BY <1>1, <1>2, <1>6 DEF TripCommit
<1>7. CASE \E o \in Orders : SignCheck(o)
  <2>1. PICK o \in Orders : SignCheck(o)
    BY <1>7
  <2>2. AtStep(o, "signing").step = "signing"
    BY DEF AtStep, Inductive, TypeOK, OrderState
  <2> QED BY <1>1, <1>2, <2>1, <2>2 DEF SignCheck
<1>8. CASE UNCHANGED orders
  BY <1>8 DEF Admitted
<1> QED BY <1>3, <1>4, <1>5, <1>6, <1>7, <1>8, OrdersFrame

(* A step that changes halts or confirmed engagements changes one of them, *)
(* by one scope.                                                           *)
LEMMA HaltMoves ==
  ASSUME Inductive, [Next]_vars, ~Restart
  PROVE  \/ UNCHANGED halted
         \/ /\ UNCHANGED durable
            /\ \E scope \in Scopes : halted' \in {halted \cup {scope}, halted \ {scope}}
<1>1. mut.scope \in Scopes
  BY MutationFields DEF Inductive
<1>2. CASE \E scope \in Scopes : BeginOperatorKill(scope)
  BY <1>2 DEF BeginOperatorKill, Stop
<1>3. CASE \E o \in Orders, scope \in Scopes : EvaluateBreach(o, scope)
  BY <1>3 DEF EvaluateBreach, Stop
<1>4. CASE ReleaseFinish
  BY <1>1, <1>4 DEF ReleaseFinish, ClearOverlay
<1>5. CASE ConfirmKillRelease
  BY <1>5 DEF ConfirmKillRelease
<1>6. CASE SettleKillRelease
  BY <1>1, <1>6 DEF SettleKillRelease, ClearOverlay
<1> QED BY <1>2, <1>3, <1>4, <1>5, <1>6, HaltFrame

(* The confirmed kills gain or lose one scope at a time. *)
LEMMA DurableMoves ==
  ASSUME Inductive, [Next]_vars, ~Restart
  PROVE  \/ UNCHANGED durable
         \/ \E scope \in Scopes : durable' \in {durable \cup {scope}, durable \ {scope}}
<1>1. mut.scope \in Scopes
  BY MutationFields DEF Inductive
<1>2. CASE CompareExchange
  BY <1>1, <1>2 DEF CompareExchange, DurableAfter
<1>3. CASE CommitKillRelease
  BY <1>1, <1>3 DEF CommitKillRelease, DurableAfter
<1>4. CASE Environment
  BY <1>4 DEF Environment, PeerWrite
<1> QED BY <1>2, <1>3, <1>4, StoreFrame

(* Every step of the engine is a step of HaltGate or leaves its variables *)
(* alone.                                                                 *)
LEMMA HaltGateStep ==
  ASSUME Inductive, [Next]_vars
  PROVE  [HG!Next]_(HG!vars)
<1>1. CASE Restart
  <2>1. NoOrder.step = "idle"
    BY DEF NoOrder
  <2>2. HG!Crash
    BY <1>1, <2>1 DEF Restart, HG!Crash, Admitted
  <2> QED BY <2>2 DEF HG!Next
<1>2. CASE \E o \in Orders : SignFinish(o) \/ Dispatch(o) \/ PostResult(o)
  <2>1. PICK o \in Orders : SignFinish(o) \/ Dispatch(o) \/ PostResult(o)
    BY <1>2
  <2>2. UNCHANGED <<halted, durable>>
    BY <2>1 DEF SignFinish, Dispatch, PostResult
  <2> QED BY <2>1, <2>2, PipelineStep
<1>3. CASE ~Restart /\ \A o \in Orders : ~SignFinish(o) /\ ~Dispatch(o) /\ ~PostResult(o)
  <2>1. Admitted' = Admitted
    BY <1>3, AdmittedFrame
  <2>2. ASSUME NEW scope \in Scopes, UNCHANGED durable,
               halted' \in {halted \cup {scope}, halted \ {scope}}
        PROVE  HG!Next
    BY <2>1, <2>2 DEF HG!Next, HG!Stop, HG!ReleaseLocal, HG!Scopes, Scopes
  <2>3. ASSUME NEW scope \in Scopes, UNCHANGED halted,
               durable' \in {durable \cup {scope}, durable \ {scope}}
        PROVE  HG!Next
    BY <2>1, <2>3 DEF HG!Next, HG!Persist, HG!ReleaseDurable, HG!Scopes, Scopes
  <2>4. UNCHANGED <<halted, durable>> => UNCHANGED HG!vars
    BY <2>1 DEF HG!vars
  <2> QED BY <1>3, <2>2, <2>3, <2>4, HaltMoves, DurableMoves
<1> QED BY <1>1, <1>2, <1>3

(* The engine implements HaltGate: no order is signed or sent while a stop *)
(* that covers its agent is unreleased, and a confirmed stop survives the  *)
(* process (begin_operator_kill, check_state, check_signing_in).           *)
THEOREM HaltsAreHonoured == Spec => HaltHonoured
<1>1. Init => HG!Init
  <2> SUFFICES ASSUME Init PROVE HG!Init
    OBVIOUS
  <2>1. NoOrder.step = "idle"
    BY DEF NoOrder
  <2> QED BY <2>1 DEF Init, HG!Init, Admitted
<1>2. Inductive /\ [Next]_vars => [HG!Next]_(HG!vars)
  BY HaltGateStep
<1> QED BY <1>1, <1>2, InductiveInvariant, PTL DEF Spec, HaltHonoured, HG!Spec

=============================================================================
