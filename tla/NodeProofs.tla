----------------------------- MODULE NodeProofs -----------------------------
(***************************************************************************)
(* The services around the agents' tools, for any number of agents,        *)
(* containers, signers, subscriptions, sockets, orders, requests and       *)
(* faults: a HALT reported as done has cancelled what was working, the     *)
(* registry's history always replays, a pairing's authority ends with its  *)
(* revocation, and a feed the pool calls fresh is served.                  *)
(***************************************************************************)
EXTENDS MCNode, Integers, FiniteSetTheorems, WellFoundedInduction, TLAPS

-----------------------------------------------------------------------------
(* Supervision: what one supervised agent and its operator keep true        *)

(* Records of the stop generation that the engine still compares equal to *)
Records == {"release", "rearm", "activation"}

EngineState == [kill : BOOLEAN, durable : BOOLEAN, acked : BOOLEAN, current : SUBSET Records]

SupState ==
  [alive : BOOLEAN, started : Nat, completed : Nat, error : BOOLEAN, wake : BOOLEAN, targets : SUBSET Orders,
   step : {"idle", "refresh", "check", "queued", "held", "cleared", "swept", "incomplete"}]

HaltWork == {"persist", "sweep", "wait"}

HaltState ==
  [closed : BOOLEAN, requested : BOOLEAN, baseline : Int, released : BOOLEAN,
   phase : {"idle", "persisting", "persisted", "uncertain"},
   cancellation : {"not_requested", "pending", "retrying", "acknowledged", "unavailable"},
   chain : Seq(HaltWork)]

ReleaseState ==
  [closed : BOOLEAN, task : {"none", "review", "confirm", "settle", "released", "reconcile"},
   review : Nat, op : Nat, recovery : BOOLEAN, unresolved : Nat,
   terminal : SUBSET Nat, absent : SUBSET Nat, reviews : Nat]

ActivationState ==
  [closed : BOOLEAN, task : {"none", "begin", "gather", "confirm"}, review : BOOLEAN, uncertain : BOOLEAN]

RuntimeState ==
  [stop : BOOLEAN, failed : BOOLEAN,
   phase : {"listening", "release", "activation", "halt", "server", "pump", "stopped", "failed"}]

SupTyped ==
  /\ engine \in EngineState
  /\ order \in [Orders -> {"none", "posting", "resting", "lost", "late"}]
  /\ queue \in {"free", "order", "sweep"}
  /\ sup \in SupState
  /\ halt \in HaltState
  /\ release \in ReleaseState
  /\ activation \in ActivationState
  /\ runtime \in RuntimeState
  /\ committed \subseteq Nat /\ requests \in 0..MaxRequests /\ lifted \in BOOLEAN

(* A HALT is pending that no release has committed for. *)
Unlifted == halt.requested /\ ~lifted

(* The kill stays until a release commits.  A release that settles against  *)
(* the generation it read has committed since, or the HALT was lifted       *)
(* before it read.                                                          *)
KillHolds ==
  /\ Unlifted => engine.kill
  /\ release.task = "settle" /\ "release" \in engine.current => lifted
  /\ "rearm" \in engine.current => lifted
  /\ halt.released => lifted

Confirming == {"confirm", "settle", "released"}

(* Each review is confirmed once: the operation of a live worker is not     *)
(* terminal, and what was reported absent is terminal and not committed.    *)
OpsHold ==
  /\ release.reviews <= requests
  /\ release.terminal \subseteq 1..release.reviews
  /\ release.absent \subseteq release.terminal
  /\ release.absent \cap committed = {}
  /\ release.review \in 0..release.reviews /\ release.review \notin release.terminal
  /\ release.task \in {"review"} \cup Confirming => release.review = S!None
  /\ release.task = "review" => release.reviews >= 1 /\ release.reviews \notin release.terminal
  /\ release.task \in Confirming =>
       release.op \in 1..release.reviews /\ release.op \notin release.terminal

(* An order that is being posted and a sweep that reads exclude each other. *)
QueueHolds ==
  /\ \A o \in Orders : order[o] = "posting" => queue = "order"
  /\ \A o, p \in Orders : order[o] = "posting" /\ order[p] = "posting" => o = p
  /\ sup.step \in {"held", "cleared"} => queue = "sweep"

Resting == {o \in Orders : order[o] = "resting"}

(* Sweep n started after the pending HALT asked for one. *)
Answers(n) == halt.baseline >= 0 /\ n > halt.baseline

NumbersHold ==
  /\ sup.completed <= sup.started
  /\ halt.baseline <= sup.started
  /\ halt.chain # <<>> \/ halt.baseline >= 0 => halt.requested
  /\ halt.cancellation = "acknowledged" => halt.requested

(* How far a sweep that answers the HALT has come *)
CancelHolds ==
  Unlifted =>
    /\ Answers(sup.started) /\ sup.step = "cleared" => Resting \subseteq sup.targets
    /\ Answers(sup.started) /\ sup.step = "swept" => S!Working = {}
    /\ Answers(sup.completed) /\ ~sup.error => S!Working = {}
    /\ halt.cancellation = "acknowledged" => S!Working = {}

DurableHolds ==
  /\ halt.requested => halt.phase # "idle"
  /\ halt.phase = "persisted" /\ ~lifted => engine.durable

(* The phases of the drain from each owner's end on *)
FromServer == {"server", "pump", "stopped"}
FromHalt == {"halt"} \cup FromServer
FromActivation == {"activation"} \cup FromHalt
FromRelease == {"release"} \cup FromActivation

(* An owner the drain has passed is closed and idle, and left nothing open  *)
(* unless the drain has failed.                                             *)
DrainHolds ==
  /\ runtime.phase \in FromRelease => release.closed
  /\ runtime.phase \in FromActivation => release.task = "none" /\ (runtime.failed \/ ~release.recovery)
  /\ runtime.phase \in FromActivation => activation.closed
  /\ runtime.phase \in FromHalt => activation.task = "none" /\ (runtime.failed \/ ~activation.uncertain)
  /\ runtime.phase \in FromHalt => halt.closed
  /\ runtime.phase \in FromServer => halt.chain = <<>> /\ (runtime.failed \/ S!HaltSettled)
  /\ runtime.phase = "stopped" => ~runtime.failed

SupInv ==
  SupTyped /\ KillHolds /\ OpsHold /\ QueueHolds /\ NumbersHold /\ CancelHolds /\ DurableHolds /\ DrainHolds

-----------------------------------------------------------------------------
(* Which actions write which variable *)

(* What writes `engine` *)
LEMMA EngineFrame ==
  ASSUME S!Next
  PROVE  \/ UNCHANGED engine
         \/ S!Inhibit \/ S!Refreshed \/ S!RequestHalt \/ S!HaltPersist \/ S!ReleaseReviewed
         \/ S!ReleaseCommit \/ S!ReleaseSettle \/ S!ActivationBegin \/ S!ActivationReviewed
         \/ S!ActivationConfirmed
BY DEF S!Next, S!VenueStep, S!SweepStep, S!HaltStep, S!ReleaseStep, S!ActivationStep, S!DrainStep,
       S!OperatorStep, S!Observe, S!Post, S!Answer, S!Arrive, S!Fill, S!CancelOrders, S!SweepFails,
       S!Acquire, S!ReadOrders, S!ServerEnds, S!SweepStart, S!Check, S!SweepEnds,
       S!HaltRequestSweep, S!HaltObserve, S!HaltSuperseded, S!HaltUnanswered, S!MonitorObserve,
       S!ReleaseFinish, S!DrainActivation, S!DrainServer, S!ReleaseReview, S!ReleaseDiscard,
       S!ReleaseConfirm, S!Reconcile, S!Reconciled, S!RequestStop, S!BeginDrain, S!ActivationReview,
       S!ActivationDiscard, S!ActivationConfirm, S!DrainRelease, S!DrainHalt, S!DrainPump,
       S!ForeignCommit

(* What writes `order` *)
LEMMA OrderFrame ==
  ASSUME S!Next
  PROVE  \/ UNCHANGED order
         \/ (\E o \in Orders : S!Post(o) \/ S!Answer(o) \/ S!Arrive(o) \/ S!Fill(o))
         \/ S!CancelOrders
BY DEF S!Next, S!VenueStep, S!SweepStep, S!HaltStep, S!ReleaseStep, S!ActivationStep, S!DrainStep,
       S!OperatorStep, S!Observe, S!Inhibit, S!Refreshed, S!RequestHalt, S!HaltPersist,
       S!ReleaseReviewed, S!ReleaseCommit, S!ReleaseSettle, S!ActivationBegin, S!ActivationReviewed,
       S!ActivationConfirmed, S!SweepFails, S!Acquire, S!ReadOrders, S!ServerEnds, S!SweepStart,
       S!Check, S!SweepEnds, S!HaltRequestSweep, S!HaltObserve, S!HaltSuperseded, S!HaltUnanswered,
       S!MonitorObserve, S!ReleaseFinish, S!DrainActivation, S!DrainServer, S!ReleaseReview,
       S!ReleaseDiscard, S!ReleaseConfirm, S!Reconcile, S!Reconciled, S!RequestStop, S!BeginDrain,
       S!ActivationReview, S!ActivationDiscard, S!ActivationConfirm, S!DrainRelease, S!DrainHalt,
       S!DrainPump, S!ForeignCommit

(* What writes `queue` *)
LEMMA QueueFrame ==
  ASSUME S!Next
  PROVE  \/ UNCHANGED queue
         \/ (\E o \in Orders : S!Post(o) \/ S!Answer(o)) \/ S!SweepFails \/ S!Acquire
         \/ S!ReadOrders \/ S!CancelOrders \/ S!ServerEnds
BY DEF S!Next, S!VenueStep, S!SweepStep, S!HaltStep, S!ReleaseStep, S!ActivationStep, S!DrainStep,
       S!OperatorStep, S!Observe, S!Inhibit, S!Refreshed, S!RequestHalt, S!HaltPersist,
       S!ReleaseReviewed, S!ReleaseCommit, S!ReleaseSettle, S!ActivationBegin, S!ActivationReviewed,
       S!ActivationConfirmed, S!Arrive, S!Fill, S!SweepStart, S!Check, S!SweepEnds,
       S!HaltRequestSweep, S!HaltObserve, S!HaltSuperseded, S!HaltUnanswered, S!MonitorObserve,
       S!ReleaseFinish, S!DrainActivation, S!DrainServer, S!ReleaseReview, S!ReleaseDiscard,
       S!ReleaseConfirm, S!Reconcile, S!Reconciled, S!RequestStop, S!BeginDrain, S!ActivationReview,
       S!ActivationDiscard, S!ActivationConfirm, S!DrainRelease, S!DrainHalt, S!DrainPump,
       S!ForeignCommit

(* What writes `sup` *)
LEMMA SupFrame ==
  ASSUME S!Next
  PROVE  \/ UNCHANGED sup
         \/ S!SweepStart \/ S!SweepFails \/ S!Refreshed \/ S!Check \/ S!Acquire \/ S!ReadOrders
         \/ S!CancelOrders \/ S!SweepEnds \/ S!ServerEnds \/ S!HaltRequestSweep
BY DEF S!Next, S!VenueStep, S!SweepStep, S!HaltStep, S!ReleaseStep, S!ActivationStep, S!DrainStep,
       S!OperatorStep, S!Observe, S!Inhibit, S!RequestHalt, S!HaltPersist, S!ReleaseReviewed,
       S!ReleaseCommit, S!ReleaseSettle, S!ActivationBegin, S!ActivationReviewed,
       S!ActivationConfirmed, S!Post, S!Answer, S!Arrive, S!Fill, S!HaltObserve, S!HaltSuperseded,
       S!HaltUnanswered, S!MonitorObserve, S!ReleaseFinish, S!DrainActivation, S!DrainServer,
       S!ReleaseReview, S!ReleaseDiscard, S!ReleaseConfirm, S!Reconcile, S!Reconciled,
       S!RequestStop, S!BeginDrain, S!ActivationReview, S!ActivationDiscard, S!ActivationConfirm,
       S!DrainRelease, S!DrainHalt, S!DrainPump, S!ForeignCommit

(* What writes `halt` *)
LEMMA HaltFrame ==
  ASSUME S!Next
  PROVE  \/ UNCHANGED halt
         \/ S!RequestHalt \/ S!HaltPersist \/ S!HaltRequestSweep \/ S!HaltObserve
         \/ S!HaltSuperseded \/ S!HaltUnanswered \/ S!MonitorObserve \/ S!ReleaseFinish
         \/ S!DrainActivation \/ S!DrainServer
BY DEF S!Next, S!VenueStep, S!SweepStep, S!HaltStep, S!ReleaseStep, S!ActivationStep, S!DrainStep,
       S!OperatorStep, S!Observe, S!Inhibit, S!Refreshed, S!ReleaseReviewed, S!ReleaseCommit,
       S!ReleaseSettle, S!ActivationBegin, S!ActivationReviewed, S!ActivationConfirmed, S!Post,
       S!Answer, S!Arrive, S!Fill, S!CancelOrders, S!SweepFails, S!Acquire, S!ReadOrders,
       S!ServerEnds, S!SweepStart, S!Check, S!SweepEnds, S!ReleaseReview, S!ReleaseDiscard,
       S!ReleaseConfirm, S!Reconcile, S!Reconciled, S!RequestStop, S!BeginDrain, S!ActivationReview,
       S!ActivationDiscard, S!ActivationConfirm, S!DrainRelease, S!DrainHalt, S!DrainPump,
       S!ForeignCommit

(* What writes `release` *)
LEMMA ReleaseFrame ==
  ASSUME S!Next
  PROVE  \/ UNCHANGED release
         \/ S!ReleaseReview \/ S!ReleaseReviewed \/ S!ReleaseDiscard \/ S!ReleaseConfirm
         \/ S!ReleaseCommit \/ S!ReleaseSettle \/ S!ReleaseFinish
         \/ (\E op \in 1..S!Foreign : S!Reconcile(op)) \/ S!Reconciled \/ S!RequestStop
         \/ S!BeginDrain
BY DEF S!Next, S!VenueStep, S!SweepStep, S!HaltStep, S!ReleaseStep, S!ActivationStep, S!DrainStep,
       S!OperatorStep, S!Observe, S!Inhibit, S!Refreshed, S!RequestHalt, S!HaltPersist,
       S!ActivationBegin, S!ActivationReviewed, S!ActivationConfirmed, S!Post, S!Answer, S!Arrive,
       S!Fill, S!CancelOrders, S!SweepFails, S!Acquire, S!ReadOrders, S!ServerEnds, S!SweepStart,
       S!Check, S!SweepEnds, S!HaltRequestSweep, S!HaltObserve, S!HaltSuperseded, S!HaltUnanswered,
       S!MonitorObserve, S!DrainActivation, S!DrainServer, S!ActivationReview, S!ActivationDiscard,
       S!ActivationConfirm, S!DrainRelease, S!DrainHalt, S!DrainPump, S!ForeignCommit

(* What writes `activation` *)
LEMMA ActivationFrame ==
  ASSUME S!Next
  PROVE  \/ UNCHANGED activation
         \/ S!ActivationReview \/ S!ActivationBegin \/ S!ActivationReviewed
         \/ S!ActivationDiscard \/ S!ActivationConfirm \/ S!ActivationConfirmed \/ S!RequestStop
         \/ S!DrainRelease
BY DEF S!Next, S!VenueStep, S!SweepStep, S!HaltStep, S!ReleaseStep, S!ActivationStep, S!DrainStep,
       S!OperatorStep, S!Observe, S!Inhibit, S!Refreshed, S!RequestHalt, S!HaltPersist,
       S!ReleaseReviewed, S!ReleaseCommit, S!ReleaseSettle, S!Post, S!Answer, S!Arrive, S!Fill,
       S!CancelOrders, S!SweepFails, S!Acquire, S!ReadOrders, S!ServerEnds, S!SweepStart, S!Check,
       S!SweepEnds, S!HaltRequestSweep, S!HaltObserve, S!HaltSuperseded, S!HaltUnanswered,
       S!MonitorObserve, S!ReleaseFinish, S!DrainActivation, S!DrainServer, S!ReleaseReview,
       S!ReleaseDiscard, S!ReleaseConfirm, S!Reconcile, S!Reconciled, S!BeginDrain, S!DrainHalt,
       S!DrainPump, S!ForeignCommit

(* What writes `runtime` *)
LEMMA RuntimeFrame ==
  ASSUME S!Next
  PROVE  \/ UNCHANGED runtime
         \/ S!RequestStop \/ S!BeginDrain \/ S!DrainRelease \/ S!DrainActivation \/ S!DrainHalt
         \/ S!DrainServer \/ S!DrainPump
BY DEF S!Next, S!VenueStep, S!SweepStep, S!HaltStep, S!ReleaseStep, S!ActivationStep, S!DrainStep,
       S!OperatorStep, S!Observe, S!Inhibit, S!Refreshed, S!RequestHalt, S!HaltPersist,
       S!ReleaseReviewed, S!ReleaseCommit, S!ReleaseSettle, S!ActivationBegin, S!ActivationReviewed,
       S!ActivationConfirmed, S!Post, S!Answer, S!Arrive, S!Fill, S!CancelOrders, S!SweepFails,
       S!Acquire, S!ReadOrders, S!ServerEnds, S!SweepStart, S!Check, S!SweepEnds,
       S!HaltRequestSweep, S!HaltObserve, S!HaltSuperseded, S!HaltUnanswered, S!MonitorObserve,
       S!ReleaseFinish, S!ReleaseReview, S!ReleaseDiscard, S!ReleaseConfirm, S!Reconcile,
       S!Reconciled, S!ActivationReview, S!ActivationDiscard, S!ActivationConfirm, S!ForeignCommit

(* What writes `committed` *)
LEMMA CommittedFrame ==
  ASSUME S!Next
  PROVE  \/ UNCHANGED committed
         \/ S!ReleaseCommit \/ S!ForeignCommit
BY DEF S!Next, S!VenueStep, S!SweepStep, S!HaltStep, S!ReleaseStep, S!ActivationStep, S!DrainStep,
       S!OperatorStep, S!Observe, S!Inhibit, S!Refreshed, S!RequestHalt, S!HaltPersist,
       S!ReleaseReviewed, S!ReleaseSettle, S!ActivationBegin, S!ActivationReviewed,
       S!ActivationConfirmed, S!Post, S!Answer, S!Arrive, S!Fill, S!CancelOrders, S!SweepFails,
       S!Acquire, S!ReadOrders, S!ServerEnds, S!SweepStart, S!Check, S!SweepEnds,
       S!HaltRequestSweep, S!HaltObserve, S!HaltSuperseded, S!HaltUnanswered, S!MonitorObserve,
       S!ReleaseFinish, S!DrainActivation, S!DrainServer, S!ReleaseReview, S!ReleaseDiscard,
       S!ReleaseConfirm, S!Reconcile, S!Reconciled, S!RequestStop, S!BeginDrain, S!ActivationReview,
       S!ActivationDiscard, S!ActivationConfirm, S!DrainRelease, S!DrainHalt, S!DrainPump

(* What writes `lifted` *)
LEMMA LiftedFrame ==
  ASSUME S!Next
  PROVE  \/ UNCHANGED lifted
         \/ S!RequestHalt \/ S!ReleaseCommit
BY DEF S!Next, S!VenueStep, S!SweepStep, S!HaltStep, S!ReleaseStep, S!ActivationStep, S!DrainStep,
       S!OperatorStep, S!Observe, S!Inhibit, S!Refreshed, S!HaltPersist, S!ReleaseReviewed,
       S!ReleaseSettle, S!ActivationBegin, S!ActivationReviewed, S!ActivationConfirmed, S!Post,
       S!Answer, S!Arrive, S!Fill, S!CancelOrders, S!SweepFails, S!Acquire, S!ReadOrders,
       S!ServerEnds, S!SweepStart, S!Check, S!SweepEnds, S!HaltRequestSweep, S!HaltObserve,
       S!HaltSuperseded, S!HaltUnanswered, S!MonitorObserve, S!ReleaseFinish, S!DrainActivation,
       S!DrainServer, S!ReleaseReview, S!ReleaseDiscard, S!ReleaseConfirm, S!Reconcile,
       S!Reconciled, S!RequestStop, S!BeginDrain, S!ActivationReview, S!ActivationDiscard,
       S!ActivationConfirm, S!DrainRelease, S!DrainHalt, S!DrainPump, S!ForeignCommit

(* What writes `requests` *)
LEMMA RequestsFrame ==
  ASSUME S!Next
  PROVE  \/ UNCHANGED requests
         \/ S!SweepStart \/ S!RequestHalt \/ S!ReleaseReview \/ S!ActivationReview
BY DEF S!Next, S!VenueStep, S!SweepStep, S!HaltStep, S!ReleaseStep, S!ActivationStep, S!DrainStep,
       S!OperatorStep, S!Observe, S!Inhibit, S!Refreshed, S!HaltPersist, S!ReleaseReviewed,
       S!ReleaseCommit, S!ReleaseSettle, S!ActivationBegin, S!ActivationReviewed,
       S!ActivationConfirmed, S!Post, S!Answer, S!Arrive, S!Fill, S!CancelOrders, S!SweepFails,
       S!Acquire, S!ReadOrders, S!ServerEnds, S!Check, S!SweepEnds, S!HaltRequestSweep,
       S!HaltObserve, S!HaltSuperseded, S!HaltUnanswered, S!MonitorObserve, S!ReleaseFinish,
       S!DrainActivation, S!DrainServer, S!ReleaseDiscard, S!ReleaseConfirm, S!Reconcile,
       S!Reconciled, S!RequestStop, S!BeginDrain, S!ActivationDiscard, S!ActivationConfirm,
       S!DrainRelease, S!DrainHalt, S!DrainPump, S!ForeignCommit

-----------------------------------------------------------------------------
(* Types *)

(* Inhibiting the engine keeps what kills it. *)
LEMMA InhibitedEngine ==
  ASSUME SupTyped
  PROVE  /\ S!Inhibited \in EngineState
         /\ S!Inhibited.kill = engine.kill /\ S!Inhibited.durable = engine.durable
         /\ S!Inhibited.current = {}
BY DEF SupTyped, EngineState, S!Inhibited, Records

(* The type of `engine` *)
LEMMA EngineTyped ==
  ASSUME SupTyped, S!Next
  PROVE  engine' \in EngineState
<1>0. {"release"} \subseteq Records /\ {"rearm"} \subseteq Records /\ {"activation"} \subseteq Records
      /\ engine \in EngineState
  BY DEF Records, SupTyped
<1>1. CASE S!Inhibit
  BY <1>1, <1>0, InhibitedEngine DEF S!Inhibit, EngineState
<1>2. CASE S!Refreshed
  BY <1>2, <1>0, InhibitedEngine DEF S!Refreshed, S!Sweeping, EngineState
<1>3. CASE S!RequestHalt
  BY <1>3, <1>0, InhibitedEngine DEF S!RequestHalt, EngineState
<1>4. CASE S!HaltPersist
  BY <1>4, <1>0, InhibitedEngine DEF S!HaltPersist, S!Worker, S!MutationFree, S!Current, EngineState
<1>5. CASE S!ReleaseReviewed
  BY <1>5, <1>0, InhibitedEngine DEF S!ReleaseReviewed, S!ReleaseLive, S!Finished, S!None, S!Unresolved, EngineState
<1>6. CASE S!ReleaseCommit
  BY <1>6, <1>0, InhibitedEngine DEF S!ReleaseCommit, S!StopUnchanged, S!ReleaseLive, S!Terminal, S!Finished, S!None,
                    S!Unresolved, EngineState
<1>7. CASE S!ReleaseSettle
  <2>1. [S!Inhibited EXCEPT !.kill = FALSE, !.current = {"rearm"}] \in EngineState
    BY <1>0, InhibitedEngine DEF EngineState
  <2> QED BY <1>7, <1>0, <2>1 DEF S!ReleaseSettle
<1>8. CASE S!ActivationBegin
  BY <1>8, <1>0, InhibitedEngine DEF S!ActivationBegin, S!MutationFree, S!ActivationLive, S!ActivationEnds,
                    EngineState
<1>9. CASE S!ActivationReviewed
  BY <1>9, <1>0, InhibitedEngine DEF S!ActivationReviewed, S!ReviewStands, S!ActivationLive, S!ActivationEnds,
                    EngineState
<1>10. CASE S!ActivationConfirmed
  BY <1>10, <1>0, InhibitedEngine DEF S!ActivationConfirmed, S!MutationFree, S!ReviewStands, S!ActivationLive,
                     S!ActivationEnds, EngineState
<1> QED
  BY <1>1, <1>2, <1>3, <1>4, <1>5, <1>6, <1>7, <1>8, <1>9, <1>10, EngineFrame DEF SupTyped

(* The type of `sup` *)
LEMMA SupStateTyped ==
  ASSUME SupTyped, S!Next
  PROVE  sup' \in SupState
<1>0. sup \in SupState /\ sup.started + 1 \in Nat
  BY DEF SupTyped, SupState
<1>1. CASE S!SweepStart
  BY <1>1, <1>0 DEF S!SweepStart, S!Sweeping, SupState
<1>2. CASE S!SweepFails
  BY <1>2, <1>0 DEF S!SweepFails, S!Completes, S!Releases, SupState
<1>3. CASE S!Refreshed
  BY <1>3, <1>0 DEF S!Refreshed, S!Sweeping, S!Inhibited, SupState
<1>4. CASE S!Check
  BY <1>4, <1>0 DEF S!Check, S!Sweeping, S!CancellationNeeded, S!Swept, SupState
<1>5. CASE S!Acquire
  BY <1>5, <1>0 DEF S!Acquire, S!LockQueue, S!Sweeping, SupState
<1>6. CASE S!ReadOrders
  BY <1>6, <1>0, ZenonT(60) DEF S!ReadOrders, S!Sweeping, S!CancellationNeeded, S!Swept, SupState
<1>7. CASE S!CancelOrders
  BY <1>7, <1>0 DEF S!CancelOrders, S!Sweeping, S!CancellationNeeded, S!Swept, SupState
<1>8. CASE S!SweepEnds
  BY <1>8, <1>0 DEF S!SweepEnds, S!Completes, SupState
<1>9. CASE S!ServerEnds
  BY <1>9, <1>0 DEF S!ServerEnds, S!Releases, SupState
<1>10. CASE S!HaltRequestSweep
  BY <1>10, <1>0 DEF S!HaltRequestSweep, S!Worker, S!Current, S!Baseline, SupState
<1> QED
  BY <1>1, <1>2, <1>3, <1>4, <1>5, <1>6, <1>7, <1>8, <1>9, <1>10, SupFrame DEF SupTyped

(* The type of `halt` *)
LEMMA HaltTyped ==
  ASSUME SupTyped, S!Next
  PROVE  halt' \in HaltState
<1>0. /\ halt.chain # <<>> => Tail(halt.chain) \in Seq(HaltWork)
      /\ halt \in HaltState /\ S!Baseline \in Int
  BY DEF SupTyped, HaltState, SupState, S!Baseline
<1>1. CASE S!RequestHalt
  <2> DEFINE longer == Append(halt.chain, "persist")
             unset == -1
  <2>1. longer \in Seq(HaltWork) /\ unset \in Int
    BY <1>0 DEF HaltState, HaltWork
  <2>2. halt' = [halt EXCEPT !.requested = TRUE, !.baseline = unset, !.phase = "persisting",
                             !.cancellation = "not_requested", !.released = FALSE, !.chain = longer]
    BY <1>1 DEF S!RequestHalt
  <2> HIDE DEF longer, unset
  <2> QED BY <1>0, <2>1, <2>2 DEF HaltState
<1>2. CASE S!HaltPersist
  <2> DEFINE next == <<"sweep">>
  <2>1. next \in Seq(HaltWork)
    BY DEF HaltWork
  <2>2. PICK ok \in BOOLEAN :
          halt' = IF S!Current
                  THEN [halt EXCEPT !.phase = IF ok THEN "persisted" ELSE "uncertain",
                                    !.cancellation = "pending", !.chain = next]
                  ELSE [halt EXCEPT !.chain = Tail(@)]
    BY <1>2 DEF S!HaltPersist
  <2>3. halt.chain # <<>>
    BY <1>2 DEF S!HaltPersist, S!Worker
  <2> HIDE DEF next
  <2> QED BY <1>0, <2>1, <2>2, <2>3 DEF HaltState
<1>3. CASE S!HaltRequestSweep
  <2> DEFINE next == <<"wait">>
  <2>1. next \in Seq(HaltWork)
    BY DEF HaltWork
  <2>2. halt' = IF S!Current THEN [halt EXCEPT !.baseline = S!Baseline, !.chain = next]
                ELSE [halt EXCEPT !.chain = Tail(@)]
    BY <1>3 DEF S!HaltRequestSweep
  <2>3. halt.chain # <<>>
    BY <1>3 DEF S!HaltRequestSweep, S!Worker
  <2> HIDE DEF next
  <2> QED BY <1>0, <2>1, <2>2, <2>3 DEF HaltState
<1>4. CASE S!HaltObserve
  BY <1>4, <1>0 DEF S!HaltObserve, S!Worker, S!Current, S!Observe, S!Qualifies, S!Observed,
                    S!CancellationNeeded, HaltState
<1>5. CASE S!HaltSuperseded
  BY <1>5, <1>0 DEF S!HaltSuperseded, S!Worker, S!Current, HaltState
<1>6. CASE S!HaltUnanswered
  BY <1>6, <1>0 DEF S!HaltUnanswered, S!Worker, S!Current, S!Qualifies, S!SenderGone, S!Unavailable,
                    HaltState
<1>7. CASE S!MonitorObserve
  BY <1>7, <1>0 DEF S!MonitorObserve, S!Observe, S!Qualifies, S!Observed, S!CancellationNeeded,
                    HaltState
<1>8. CASE S!ReleaseFinish
  BY <1>8, <1>0 DEF S!ReleaseFinish, S!Rearms, S!ReleaseLive, S!WorkTerminal, S!Terminal,
                    S!Finished, S!None, HaltState
<1>9. CASE S!DrainActivation
  BY <1>9, <1>0 DEF S!DrainActivation, S!Fails, HaltState
<1>10. CASE S!DrainServer
  BY <1>10, <1>0 DEF S!DrainServer, S!Unavailable, HaltState
<1> QED
  BY <1>1, <1>2, <1>3, <1>4, <1>5, <1>6, <1>7, <1>8, <1>9, <1>10, HaltFrame DEF SupTyped

(* The type of `release` *)
LEMMA ReleaseTyped ==
  ASSUME SupTyped, S!Next
  PROVE  release' \in ReleaseState
<1>0. /\ S!None \in Nat /\ release.op \in Nat /\ release.review \in Nat /\ release.reviews + 1 \in Nat
      /\ release.terminal \cup {release.op} \in SUBSET Nat
      /\ release.absent \cup {release.op} \in SUBSET Nat
      /\ 1..S!Foreign \subseteq Nat
      /\ release \in ReleaseState
  BY RequestsAreCounted DEF SupTyped, ReleaseState, S!None, S!Foreign
<1>1. CASE S!ReleaseReview
  BY <1>1, <1>0 DEF S!ReleaseReview, S!ReleaseIdle, S!ReleaseLive, S!WorkTerminal, ReleaseState
<1>2. CASE S!ReleaseReviewed
  BY <1>2, <1>0, ZenonT(60) DEF S!ReleaseReviewed, S!Inhibited, S!ReleaseLive, S!Finished, S!Unresolved,
                    ReleaseState
<1>3. CASE S!ReleaseDiscard
  BY <1>3, <1>0 DEF S!ReleaseDiscard, S!ReleaseLive, ReleaseState
<1>4. CASE S!ReleaseConfirm
  BY <1>4, <1>0 DEF S!ReleaseConfirm, S!ReleaseIdle, S!ReleaseLive, ReleaseState
<1>5. CASE S!ReleaseCommit
  BY <1>5, <1>0, ZenonT(60) DEF S!ReleaseCommit, S!StopUnchanged, S!ReleaseLive, S!Terminal, S!Finished,
                    S!Unresolved, ReleaseState
<1>6. CASE S!ReleaseSettle
  BY <1>6, <1>0, ZenonT(60) DEF S!ReleaseSettle, S!SettleHolds, S!StopUnchanged, S!ReleaseLive, S!Inhibited,
                    S!Terminal, S!Unresolved, S!Finished, ReleaseState
<1>7. CASE S!ReleaseFinish
  BY <1>7, <1>0 DEF S!ReleaseFinish, S!Rearms, S!ReleaseLive, S!WorkTerminal, S!Terminal,
                    S!Finished, ReleaseState
<1>8. ASSUME NEW op \in 1..S!Foreign, S!Reconcile(op) PROVE release' \in ReleaseState
  BY <1>8, <1>0 DEF S!Reconcile, S!ReleaseLive, ReleaseState
<1>9. CASE S!Reconciled
  <2>1. S!Finished \in ReleaseState /\ S!Finished.absent = release.absent
    BY <1>0 DEF S!Finished, ReleaseState
  <2>2. \A op \in Nat : S!Unresolved(op) \in ReleaseState
    BY <1>0, <2>1 DEF S!Unresolved, ReleaseState
  <2>3. [S!Finished EXCEPT !.recovery = FALSE, !.unresolved = S!None] \in ReleaseState
    BY <1>0, <2>1 DEF ReleaseState
  <2>4. [S!Finished EXCEPT !.recovery = FALSE, !.unresolved = S!None, !.absent = @ \cup {release.op}]
          \in ReleaseState
    BY <1>0, <2>1 DEF ReleaseState
  <2> QED BY <1>9, <1>0, <2>2, <2>3, <2>4 DEF S!Reconciled
<1>10. CASE S!RequestStop
  BY <1>10, <1>0 DEF S!RequestStop, S!ClosedRelease, S!ClosedActivation, ReleaseState
<1>11. CASE S!BeginDrain
  BY <1>11, <1>0 DEF S!BeginDrain, S!ClosedRelease, ReleaseState
<1> QED
  BY <1>1, <1>2, <1>3, <1>4, <1>5, <1>6, <1>7, <1>8, <1>9, <1>10, <1>11, ReleaseFrame DEF SupTyped

(* The type of `activation` *)
LEMMA ActivationTyped ==
  ASSUME SupTyped, S!Next
  PROVE  activation' \in ActivationState
<1>0. activation \in ActivationState
  BY DEF SupTyped
<1>1. CASE S!ActivationReview
  BY <1>1, <1>0 DEF S!ActivationReview, S!ActivationIdle, S!ActivationLive, ActivationState
<1>2. CASE S!ActivationBegin
  BY <1>2, <1>0 DEF S!ActivationBegin, S!MutationFree, S!ActivationLive, S!ActivationEnds,
                    S!Inhibited, ActivationState
<1>3. CASE S!ActivationReviewed
  BY <1>3, <1>0 DEF S!ActivationReviewed, S!ReviewStands, S!ActivationLive, S!ActivationEnds,
                    S!Inhibited, ActivationState
<1>4. CASE S!ActivationDiscard
  BY <1>4, <1>0 DEF S!ActivationDiscard, S!ActivationIdle, S!ActivationLive, ActivationState
<1>5. CASE S!ActivationConfirm
  BY <1>5, <1>0 DEF S!ActivationConfirm, S!ActivationIdle, S!ActivationLive, ActivationState
<1>6. CASE S!ActivationConfirmed
  BY <1>6, <1>0 DEF S!ActivationConfirmed, S!MutationFree, S!ReviewStands, S!ActivationLive,
                    S!ActivationEnds, S!Inhibited, ActivationState
<1>7. CASE S!RequestStop
  BY <1>7, <1>0 DEF S!RequestStop, S!ClosedRelease, S!None, S!ClosedActivation, ActivationState
<1>8. CASE S!DrainRelease
  BY <1>8, <1>0 DEF S!DrainRelease, S!Fails, S!ClosedActivation, ActivationState
<1> QED
  BY <1>1, <1>2, <1>3, <1>4, <1>5, <1>6, <1>7, <1>8, ActivationFrame DEF SupTyped

(* The type of `runtime` *)
LEMMA RuntimeTyped ==
  ASSUME SupTyped, S!Next
  PROVE  runtime' \in RuntimeState
<1>0. runtime \in RuntimeState
  BY DEF SupTyped
<1>1. CASE S!RequestStop
  BY <1>1, <1>0 DEF S!RequestStop, S!ClosedRelease, S!None, S!ClosedActivation, RuntimeState
<1>2. CASE S!BeginDrain
  BY <1>2, <1>0 DEF S!BeginDrain, S!ClosedRelease, S!None, RuntimeState
<1>3. CASE S!DrainRelease
  BY <1>3, <1>0 DEF S!DrainRelease, S!Fails, S!ClosedActivation, RuntimeState
<1>4. CASE S!DrainActivation
  BY <1>4, <1>0 DEF S!DrainActivation, S!Fails, RuntimeState
<1>5. CASE S!DrainHalt
  BY <1>5, <1>0 DEF S!DrainHalt, S!WorkTerminal, S!Fails, S!HaltSettled, RuntimeState
<1>6. CASE S!DrainServer
  BY <1>6, <1>0 DEF S!DrainServer, S!Unavailable, RuntimeState
<1>7. CASE S!DrainPump
  BY <1>7, <1>0 DEF S!DrainPump, S!Fails, RuntimeState
<1> QED
  BY <1>1, <1>2, <1>3, <1>4, <1>5, <1>6, <1>7, RuntimeFrame DEF SupTyped

(* The types are kept by every step. *)
LEMMA SupTypeStep ==
  ASSUME SupTyped, S!Next
  PROVE  SupTyped'
<1>1. order' \in [Orders -> {"none", "posting", "resting", "lost", "late"}]
  BY OrderFrame DEF SupTyped, S!Post, S!Answer, S!Arrive, S!Fill, S!CancelOrders
<1>2. queue' \in {"free", "order", "sweep"}
  BY QueueFrame DEF SupTyped, S!Post, S!Answer, S!SweepFails, S!Releases, S!Acquire, S!ReadOrders, S!CancelOrders,
     S!ServerEnds
<1>3. committed' \subseteq Nat
  BY CommittedFrame, RequestsAreCounted DEF SupTyped, ReleaseState, S!ReleaseCommit, S!ForeignCommit, S!Foreign
<1>4. lifted' \in BOOLEAN
  BY LiftedFrame DEF SupTyped, S!RequestHalt, S!ReleaseCommit
<1>5. requests' \in 0..MaxRequests
  <2>1. UNCHANGED requests \/ S!Request
    BY RequestsFrame DEF S!SweepStart, S!RequestHalt, S!ReleaseReview, S!ActivationReview
  <2> QED BY <2>1, RequestsAreCounted DEF SupTyped, S!Request
<1> QED
  BY <1>1, <1>2, <1>3, <1>4, <1>5, EngineTyped, SupStateTyped, HaltTyped, ReleaseTyped, ActivationTyped,
     RuntimeTyped DEF SupTyped

-----------------------------------------------------------------------------
(* What few steps do to the fields that the invariant is about *)

(* Only a request marks a HALT as pending, only a release as released. *)
LEMMA MarksMove ==
  ASSUME SupTyped, S!Next, ~S!RequestHalt
  PROVE  /\ halt'.requested = halt.requested
         /\ halt'.released = halt.released \/ S!ReleaseFinish
<1>0. halt \in HaltState
  BY DEF SupTyped
<1> QED
  BY <1>0, HaltFrame DEF HaltState, S!HaltPersist, S!HaltRequestSweep, S!HaltObserve, S!HaltSuperseded,
     S!HaltUnanswered, S!MonitorObserve, S!Observe, S!Unavailable, S!ReleaseFinish, S!DrainActivation,
     S!DrainServer

(* Only a release that settles lifts the kill, and only a durable HALT or a *)
(* release that commits decides what a restart finds.                       *)
LEMMA EngineMoves ==
  ASSUME SupTyped, S!Next, ~S!RequestHalt
  PROVE  /\ engine'.kill = engine.kill \/ S!ReleaseSettle
         /\ engine'.durable = engine.durable \/ S!HaltPersist \/ S!ReleaseCommit
         /\ "rearm" \in engine'.current => "rearm" \in engine.current \/ S!ReleaseSettle
         /\ "release" \in engine'.current => "release" \in engine.current \/ S!ReleaseReviewed
<1>0. engine \in EngineState
  BY DEF SupTyped
<1>1. UNCHANGED engine \/ engine' = S!Inhibited
        \/ S!HaltPersist \/ S!ReleaseReviewed \/ S!ReleaseCommit \/ S!ReleaseSettle
        \/ engine' = [S!Inhibited EXCEPT !.current = {"activation"}]
        \/ engine' = [engine EXCEPT !.acked = TRUE, !.current = {}]
  BY EngineFrame DEF S!Inhibit, S!Refreshed, S!ActivationBegin, S!ActivationReviewed, S!ActivationConfirmed
<1>2. CASE S!HaltPersist
  BY <1>0, <1>2 DEF S!HaltPersist, EngineState
<1>3. CASE S!ReleaseCommit
  BY <1>0, <1>3 DEF S!ReleaseCommit, EngineState
<1>4. CASE S!ReleaseReviewed
  <2>1. engine' = [S!Inhibited EXCEPT !.current = {"release"}]
    BY <1>4 DEF S!ReleaseReviewed
  <2> QED BY <1>4, <2>1, InhibitedEngine DEF EngineState
<1>5. CASE S!ReleaseSettle
  <2>1. \/ engine' = [S!Inhibited EXCEPT !.kill = FALSE, !.current = {"rearm"}]
        \/ UNCHANGED engine
    BY <1>5 DEF S!ReleaseSettle
  <2>2. CASE engine' = [S!Inhibited EXCEPT !.kill = FALSE, !.current = {"rearm"}]
    <3>1. engine'.durable = engine.durable /\ engine'.current = {"rearm"}
      BY <2>2, InhibitedEngine DEF EngineState
    <3> QED BY <1>5, <3>1
  <2> QED BY <1>5, <2>1, <2>2
<1>6. CASE engine' = [S!Inhibited EXCEPT !.current = {"activation"}]
  BY <1>6, InhibitedEngine DEF EngineState
<1>7. CASE engine' = [engine EXCEPT !.acked = TRUE, !.current = {}]
  BY <1>0, <1>7 DEF EngineState
<1> QED BY <1>1, <1>2, <1>3, <1>4, <1>5, <1>6, <1>7, InhibitedEngine

(* A release settles only after its commit. *)
LEMMA SettleMoves ==
  ASSUME SupTyped, S!Next, release'.task = "settle"
  PROVE  release.task = "settle" \/ S!ReleaseCommit
<1>0. release \in ReleaseState
  BY DEF SupTyped
<1> QED
  BY <1>0, ReleaseFrame DEF ReleaseState, S!ReleaseReview, S!ReleaseReviewed, S!ReleaseDiscard, S!ReleaseConfirm,
     S!ReleaseSettle, S!ReleaseFinish, S!Reconcile, S!Reconciled, S!RequestStop, S!BeginDrain,
     S!ClosedRelease, S!Finished, S!Unresolved, S!Terminal

-----------------------------------------------------------------------------
(* The kill *)

(* A kill that a HALT set stays until a release commits for it. *)
LEMMA KillStep ==
  ASSUME SupTyped, KillHolds, S!Next
  PROVE  KillHolds'
<1>1. CASE S!RequestHalt
  <2>0. engine \in EngineState /\ halt \in HaltState
    BY DEF SupTyped
  <2>1. engine'.kill /\ engine'.current = {}
    <3>1. engine' = [S!Inhibited EXCEPT !.kill = TRUE]
      BY <1>1 DEF S!RequestHalt
    <3> QED BY <3>1, InhibitedEngine DEF EngineState
  <2>2. ~halt'.released
    BY <1>1, <2>0 DEF S!RequestHalt, HaltState
  <2> QED BY <2>1, <2>2 DEF KillHolds
<1>2. CASE S!ReleaseSettle
  <2>0. engine \in EngineState
    BY DEF SupTyped
  <2>1. /\ release.task = "settle" /\ UNCHANGED <<halt, lifted>>
        /\ \/ "release" \in engine.current
           \/ UNCHANGED engine
    BY <1>2 DEF S!ReleaseSettle, S!SettleHolds, S!StopUnchanged
  <2>2. CASE "release" \in engine.current
    BY <2>1, <2>2 DEF KillHolds, Unlifted
  <2>3. CASE UNCHANGED engine
    BY <2>1, <2>3 DEF KillHolds, Unlifted
  <2> QED BY <2>1, <2>2, <2>3
<1>3. CASE S!ReleaseCommit
  <2>1. UNCHANGED lifted \/ lifted'
    BY <1>3 DEF S!ReleaseCommit
  <2>2. release'.task # "settle" \/ lifted'
    <3>0. release \in ReleaseState
      BY DEF SupTyped
    <3> QED BY <1>3, <3>0 DEF S!ReleaseCommit, ReleaseState, S!Terminal, S!Finished, S!Unresolved
  <2>3. UNCHANGED halt /\ engine'.kill = engine.kill
        /\ ("rearm" \in engine'.current => "rearm" \in engine.current)
    <3>0. engine \in EngineState
      BY DEF SupTyped
    <3> QED BY <1>3, <3>0 DEF S!ReleaseCommit, EngineState
  <2> QED BY <2>1, <2>2, <2>3 DEF KillHolds, Unlifted
<1>4. CASE S!ReleaseReviewed
  <2>0. release \in ReleaseState
    BY DEF SupTyped
  <2>1. release'.task # "settle" /\ UNCHANGED <<halt, lifted>>
    BY <1>4, <2>0 DEF S!ReleaseReviewed, ReleaseState, S!Finished, S!Unresolved
  <2>2. engine'.kill = engine.kill /\ "rearm" \notin engine'.current
    <3>1. engine' = [S!Inhibited EXCEPT !.current = {"release"}]
      BY <1>4 DEF S!ReleaseReviewed
    <3> QED BY <3>1, InhibitedEngine DEF EngineState
  <2> QED BY <2>1, <2>2 DEF KillHolds, Unlifted
<1>5. CASE S!ReleaseFinish
  <2>0. halt \in HaltState /\ release \in ReleaseState
    BY DEF SupTyped
  <2>1. /\ UNCHANGED <<engine, lifted>> /\ release'.task # "settle"
        /\ halt'.requested = halt.requested
        /\ halt'.released = halt.released \/ "rearm" \in engine.current
    BY <1>5, <2>0 DEF S!ReleaseFinish, S!Rearms, HaltState, ReleaseState, S!Terminal, S!Finished
  <2> QED BY <2>1 DEF KillHolds, Unlifted
<1>6. CASE ~S!RequestHalt /\ ~S!ReleaseSettle /\ ~S!ReleaseCommit /\ ~S!ReleaseReviewed /\ ~S!ReleaseFinish
  <2>1. UNCHANGED lifted
    BY <1>6, LiftedFrame
  <2> QED BY <1>6, <2>1, MarksMove, EngineMoves, SettleMoves DEF KillHolds, Unlifted
<1> QED BY <1>1, <1>2, <1>3, <1>4, <1>5, <1>6

-----------------------------------------------------------------------------
(* Release operations *)

(* What is reported as not released is not released later: each review is   *)
(* confirmed at most once, and its operation is settled when its worker is  *)
(* done.                                                                    *)
LEMMA OpsStep ==
  ASSUME SupTyped, OpsHold, S!Next
  PROVE  OpsHold'
<1>0. release \in ReleaseState /\ requests \in Nat /\ requests <= MaxRequests /\ committed \subseteq Nat
  BY RequestsAreCounted DEF SupTyped
<1>1. CASE S!ReleaseReview
  <2>1. /\ release' = [release EXCEPT !.task = "review", !.reviews = @ + 1]
        /\ requests' = requests + 1 /\ UNCHANGED committed /\ release.review = S!None
    BY <1>1 DEF S!ReleaseReview, S!Request
  <2> QED BY <1>0, <2>1 DEF OpsHold, ReleaseState, Confirming, S!None
<1>2. CASE S!ReleaseReviewed
  <2>1. /\ release.task = "review" /\ UNCHANGED <<requests, committed>>
        /\ \/ release' = [S!Finished EXCEPT !.review = release.reviews]
           \/ release' = S!Finished
           \/ release' = S!Unresolved(S!None)
    BY <1>2 DEF S!ReleaseReviewed
  <2>2. CASE release' = [S!Finished EXCEPT !.review = release.reviews]
    BY <1>0, <2>1, <2>2 DEF OpsHold, ReleaseState, Confirming, S!Finished, S!None
  <2>3. CASE release' = S!Finished
    BY <1>0, <2>1, <2>3 DEF OpsHold, ReleaseState, Confirming, S!Finished, S!None
  <2>4. CASE release' = S!Unresolved(S!None)
    BY <1>0, <2>1, <2>4 DEF OpsHold, ReleaseState, Confirming, S!Unresolved, S!Finished, S!None
  <2> QED BY <2>1, <2>2, <2>3, <2>4
<1>3. CASE S!ReleaseDiscard
  BY <1>0, <1>3 DEF OpsHold, ReleaseState, Confirming, S!ReleaseDiscard, S!None
<1>4. CASE S!ReleaseConfirm
  BY <1>0, <1>4 DEF OpsHold, ReleaseState, Confirming, S!ReleaseConfirm, S!ReleaseIdle, S!None
<1>5. CASE S!ReleaseCommit
  <2>1. /\ release.task = "confirm" /\ UNCHANGED requests
        /\ committed' \subseteq committed \cup {release.op}
        /\ \/ release' = S!Terminal(S!Finished)
           \/ release' = [release EXCEPT !.task = "settle"]
           \/ release' = S!Terminal(S!Unresolved(release.op))
    BY <1>5 DEF S!ReleaseCommit
  <2>2. CASE release' = S!Terminal(S!Finished)
    BY <1>0, <2>1, <2>2 DEF OpsHold, ReleaseState, Confirming, S!Terminal, S!Finished, S!None
  <2>3. CASE release' = [release EXCEPT !.task = "settle"]
    BY <1>0, <2>1, <2>3 DEF OpsHold, ReleaseState, Confirming, S!None
  <2>4. CASE release' = S!Terminal(S!Unresolved(release.op))
    BY <1>0, <2>1, <2>4 DEF OpsHold, ReleaseState, Confirming, S!Terminal, S!Finished, S!Unresolved, S!None
  <2> QED BY <2>1, <2>2, <2>3, <2>4
<1>6. CASE S!ReleaseSettle
  <2>1. /\ release.task = "settle" /\ UNCHANGED <<requests, committed>>
        /\ \/ release' = [release EXCEPT !.task = "released"]
           \/ release' = S!Terminal(S!Unresolved(release.op))
    BY <1>6 DEF S!ReleaseSettle
  <2>2. CASE release' = [release EXCEPT !.task = "released"]
    BY <1>0, <2>1, <2>2 DEF OpsHold, ReleaseState, Confirming, S!None
  <2>3. CASE release' = S!Terminal(S!Unresolved(release.op))
    BY <1>0, <2>1, <2>3 DEF OpsHold, ReleaseState, Confirming, S!Terminal, S!Finished, S!Unresolved, S!None
  <2> QED BY <2>1, <2>2, <2>3
<1>7. CASE S!ReleaseFinish
  <2>1. release.task = "released" /\ UNCHANGED <<requests, committed>> /\ release' = S!Terminal(S!Finished)
    BY <1>7 DEF S!ReleaseFinish
  <2> QED BY <1>0, <2>1 DEF OpsHold, ReleaseState, Confirming, S!Terminal, S!Finished, S!None
<1>8. ASSUME NEW op \in 1..S!Foreign, S!Reconcile(op) PROVE OpsHold'
  BY <1>0, <1>8 DEF OpsHold, ReleaseState, Confirming, S!Reconcile, S!None
<1>9. CASE S!Reconciled
  <2>1. /\ release.task = "reconcile" /\ UNCHANGED <<requests, committed>>
        /\ \/ release' = [S!Finished EXCEPT !.recovery = FALSE, !.unresolved = S!None]
           \/ /\ release.op \notin committed /\ release.op \in release.terminal
              /\ release' = [S!Finished EXCEPT !.recovery = FALSE, !.unresolved = S!None,
                                               !.absent = @ \cup {release.op}]
           \/ release' = S!Unresolved(release.op)
           \/ release' = S!Unresolved(S!None)
    BY <1>9 DEF S!Reconciled, S!AbsenceProven
  <2>2. S!Finished \in ReleaseState /\ S!Finished = [release EXCEPT !.task = "none", !.op = S!None]
    BY <1>0 DEF S!Finished, ReleaseState, S!None
  <2>3. CASE release' = [S!Finished EXCEPT !.recovery = FALSE, !.unresolved = S!None]
    BY <1>0, <2>1, <2>2, <2>3 DEF OpsHold, ReleaseState, Confirming
  <2>4. CASE /\ release.op \notin committed /\ release.op \in release.terminal
             /\ release' = [S!Finished EXCEPT !.recovery = FALSE, !.unresolved = S!None,
                                              !.absent = @ \cup {release.op}]
    <3>1. release'.absent = release.absent \cup {release.op}
      BY <1>0, <2>2, <2>4 DEF ReleaseState
    <3>2. /\ release'.terminal = release.terminal /\ release'.reviews = release.reviews
          /\ release'.review = release.review /\ release'.task = "none"
      BY <1>0, <2>2, <2>4 DEF ReleaseState
    <3> QED BY <2>1, <2>4, <3>1, <3>2 DEF OpsHold, Confirming
  <2>5. CASE release' = S!Unresolved(release.op) \/ release' = S!Unresolved(S!None)
    BY <1>0, <2>1, <2>5, ZenonT(60) DEF OpsHold, ReleaseState, Confirming, S!Unresolved, S!Finished
  <2> QED BY <2>1, <2>3, <2>4, <2>5
<1>10. CASE S!RequestStop \/ S!BeginDrain
  <2>1. release' = S!ClosedRelease /\ UNCHANGED <<requests, committed>>
    BY <1>10 DEF S!RequestStop, S!BeginDrain
  <2> QED BY <1>0, <2>1 DEF OpsHold, ReleaseState, Confirming, S!ClosedRelease, S!None
<1>11. CASE S!ForeignCommit
  <2>1. UNCHANGED <<release, requests>> /\ committed' = committed \cup {S!Foreign}
    BY <1>11 DEF S!ForeignCommit
  <2>2. S!Foreign \notin release.absent
    BY <1>0, RequestsAreCounted DEF OpsHold, ReleaseState, S!Foreign
  <2> QED BY <2>1, <2>2 DEF OpsHold
<1>12. CASE UNCHANGED <<release, committed>>
  <2>1. requests <= requests' /\ requests' \in Nat
    <3>1. UNCHANGED requests \/ S!Request
      BY RequestsFrame DEF S!SweepStart, S!RequestHalt, S!ReleaseReview, S!ActivationReview
    <3> QED BY <1>0, <3>1 DEF S!Request
  <2> QED BY <1>0, <1>12, <2>1 DEF OpsHold, ReleaseState
<1> QED
  BY <1>1, <1>2, <1>3, <1>4, <1>5, <1>6, <1>7, <1>8, <1>9, <1>10, <1>11, <1>12, ReleaseFrame, CommittedFrame

-----------------------------------------------------------------------------
(* The account's queue *)

(* One order or one sweep holds the queue, and gives it back when it ends. *)
LEMMA QueueStep ==
  ASSUME SupTyped, QueueHolds, S!Next
  PROVE  QueueHolds'
<1>0. /\ sup \in SupState /\ order \in [Orders -> {"none", "posting", "resting", "lost", "late"}]
  BY DEF SupTyped
<1>1. ASSUME NEW o \in Orders, S!Post(o) PROVE QueueHolds'
  BY <1>0, <1>1 DEF QueueHolds, S!Post
<1>2. ASSUME NEW o \in Orders, S!Answer(o) PROVE QueueHolds'
  BY <1>0, <1>2 DEF QueueHolds, S!Answer
<1>3. ASSUME NEW o \in Orders, S!Arrive(o) \/ S!Fill(o) PROVE QueueHolds'
  BY <1>0, <1>3 DEF QueueHolds, S!Arrive, S!Fill
<1>4. CASE S!SweepFails \/ S!ServerEnds
  BY <1>0, <1>4 DEF QueueHolds, SupState, S!SweepFails, S!ServerEnds, S!Completes, S!Releases
<1>5. CASE S!Acquire
  BY <1>0, <1>5 DEF QueueHolds, SupState, S!Acquire, S!LockQueue
<1>6. CASE S!ReadOrders
  <2>1. /\ sup.step = "held" /\ UNCHANGED order
        /\ \/ sup' = S!Swept(FALSE) /\ queue' = "free"
           \/ UNCHANGED queue
    BY <1>6 DEF S!ReadOrders, S!Sweeping
  <2> QED BY <1>0, <2>1 DEF QueueHolds, SupState, S!Swept
<1>7. CASE S!CancelOrders
  <2>1. /\ sup.step = "cleared" /\ queue' = "free"
        /\ \E incomplete \in BOOLEAN : sup' = S!Swept(incomplete)
        /\ \A o \in Orders : order'[o] \in {order[o], "none"}
    BY <1>0, <1>7 DEF S!CancelOrders, S!Sweeping
  <2> QED BY <1>0, <2>1 DEF QueueHolds, SupState, S!Swept
<1>8. CASE S!SweepStart \/ S!Refreshed \/ S!Check \/ S!SweepEnds \/ S!HaltRequestSweep
  <2>1. sup'.step \notin {"held", "cleared"} \/ sup'.step = sup.step
    BY <1>0, <1>8 DEF SupState, S!SweepStart, S!Refreshed, S!Check, S!SweepEnds, S!HaltRequestSweep, S!Swept,
       S!Completes
  <2>2. UNCHANGED <<order, queue>>
    BY <1>8 DEF S!SweepStart, S!Refreshed, S!Check, S!SweepEnds, S!HaltRequestSweep
  <2> QED BY <2>1, <2>2 DEF QueueHolds
<1> QED
  BY <1>1, <1>2, <1>3, <1>4, <1>5, <1>6, <1>7, <1>8, OrderFrame, QueueFrame, SupFrame DEF QueueHolds

-----------------------------------------------------------------------------
(* Sweeps and what they answer *)

(* What a step does to a HALT's baseline, its workers and its answer *)
LEMMA HaltMoves ==
  ASSUME SupTyped, S!Next, ~S!RequestHalt
  PROVE  /\ \/ halt'.baseline = halt.baseline
            \/ S!HaltRequestSweep /\ halt'.baseline = sup.started /\ halt.chain # <<>> /\ UNCHANGED order
         /\ halt'.chain # <<>> => halt.chain # <<>>
         /\ \/ halt'.cancellation = "acknowledged" => halt.cancellation = "acknowledged"
            \/ Answers(sup.completed) /\ ~sup.error /\ UNCHANGED <<order, sup>> /\ halt'.baseline = halt.baseline
<1>0. halt \in HaltState /\ sup \in SupState
  BY DEF SupTyped
<1>1. CASE S!HaltPersist
  <2>1. /\ halt.chain # <<>>
        /\ \/ \E phase, chain : halt' = [halt EXCEPT !.phase = phase, !.cancellation = "pending", !.chain = chain]
           \/ \E chain : halt' = [halt EXCEPT !.chain = chain]
    BY <1>1 DEF S!HaltPersist, S!Worker
  <2> QED BY <1>0, <2>1 DEF HaltState
<1>2. CASE S!HaltRequestSweep
  <2>1. /\ halt.chain # <<>> /\ UNCHANGED order
        /\ \/ \E chain : halt' = [halt EXCEPT !.baseline = sup.started, !.chain = chain]
           \/ \E chain : halt' = [halt EXCEPT !.chain = chain]
    BY <1>2 DEF S!HaltRequestSweep, S!Worker, S!Baseline
  <2> QED BY <1>0, <1>2, <2>1 DEF HaltState
<1>3. ASSUME NEW chain, S!Observe(chain), chain = halt.chain \/ halt.chain # <<>>
      PROVE  /\ halt'.baseline = halt.baseline
             /\ halt'.chain # <<>> => halt.chain # <<>>
             /\ \/ halt'.cancellation = "acknowledged" => halt.cancellation = "acknowledged"
                \/ Answers(sup.completed) /\ ~sup.error /\ UNCHANGED <<order, sup>>
  <2>1. /\ Answers(sup.completed) /\ UNCHANGED <<order, sup>>
        /\ \E covered : halt' = [halt EXCEPT !.cancellation = S!Observed(covered), !.chain = chain]
    BY <1>3 DEF S!Observe, S!Qualifies, Answers
  <2>2. PICK covered : halt' = [halt EXCEPT !.cancellation = S!Observed(covered), !.chain = chain]
    BY <2>1
  <2>3. halt'.baseline = halt.baseline /\ halt'.cancellation = S!Observed(covered) /\ halt'.chain = chain
    BY <1>0, <2>2 DEF HaltState
  <2> QED BY <1>3, <2>1, <2>3 DEF S!Observed
<1>4. CASE S!HaltObserve
  BY <1>3, <1>4 DEF S!HaltObserve, S!Worker
<1>5. CASE S!MonitorObserve
  BY <1>3, <1>5 DEF S!MonitorObserve
<1>6. CASE S!HaltSuperseded
  BY <1>0, <1>6 DEF HaltState, S!HaltSuperseded, S!Worker
<1>7. CASE S!HaltUnanswered
  BY <1>0, <1>7 DEF HaltState, S!HaltUnanswered, S!Worker, S!Unavailable
<1>8. CASE S!ReleaseFinish \/ S!DrainActivation \/ S!DrainServer
  BY <1>0, <1>8 DEF HaltState, S!ReleaseFinish, S!DrainActivation, S!DrainServer, S!Unavailable
<1> QED BY <1>1, <1>2, <1>4, <1>5, <1>6, <1>7, <1>8, HaltFrame

(* Sweeps are numbered as they start, and complete one at a time. *)
LEMMA SweepMoves ==
  ASSUME SupTyped, S!Next
  PROVE  /\ \/ sup'.started = sup.started
            \/ S!SweepStart /\ sup'.started = sup.started + 1 /\ sup'.step = "refresh"
         /\ \/ sup'.completed = sup.completed /\ sup'.error = sup.error
            \/ /\ sup'.completed = sup.started /\ sup'.started = sup.started /\ sup'.step = "idle"
               /\ sup'.error \/ (sup.step = "swept" /\ UNCHANGED order)
         /\ sup'.step = "cleared" => (sup.step = "cleared" /\ sup'.targets = sup.targets) \/ S!ReadOrders
         /\ sup'.step = "swept" => sup.step = "swept" \/ S!Check \/ S!ReadOrders \/ S!CancelOrders
<1>0. sup \in SupState
  BY DEF SupTyped
<1>1. CASE S!SweepStart
  BY <1>0, <1>1 DEF SupState, S!SweepStart
<1>2. CASE S!SweepFails
  BY <1>0, <1>2 DEF SupState, S!SweepFails, S!Completes
<1>3. CASE S!Refreshed \/ S!Acquire \/ S!HaltRequestSweep \/ S!ServerEnds
  BY <1>0, <1>3 DEF SupState, S!Refreshed, S!Acquire, S!HaltRequestSweep, S!ServerEnds
<1>4. CASE S!Check
  BY <1>0, <1>4 DEF SupState, S!Check, S!Swept
<1>5. CASE S!ReadOrders
  BY <1>0, <1>5 DEF SupState, S!ReadOrders, S!Swept
<1>6. CASE S!CancelOrders
  BY <1>0, <1>6 DEF SupState, S!CancelOrders, S!Swept
<1>7. CASE S!SweepEnds
  BY <1>0, <1>7 DEF SupState, S!SweepEnds, S!Completes
<1> QED BY <1>1, <1>2, <1>3, <1>4, <1>5, <1>6, <1>7, SupFrame

(* Only a sweep that starts after it is asked for has a number above a *)
(* HALT's baseline.                                                    *)
LEMMA NumbersStep ==
  ASSUME SupTyped, NumbersHold, S!Next
  PROVE  NumbersHold'
<1>0. sup \in SupState /\ halt \in HaltState /\ sup' \in SupState /\ halt' \in HaltState
  BY SupTypeStep DEF SupTyped
<1>1. sup.started \in Nat /\ sup.completed \in Nat /\ sup'.started \in Nat /\ halt.baseline \in Int
  BY <1>0 DEF SupState, HaltState
<1>2. sup'.completed <= sup'.started /\ sup.started <= sup'.started
  BY <1>1, SweepMoves DEF NumbersHold
<1>3. CASE S!RequestHalt
  <2>1. halt'.requested /\ halt'.baseline = -1 /\ halt'.cancellation = "not_requested"
    BY <1>0, <1>3 DEF S!RequestHalt, HaltState
  <2> QED BY <1>1, <1>2, <2>1 DEF NumbersHold
<1>4. CASE ~S!RequestHalt
  <2>1. halt'.requested = halt.requested
    BY <1>4, MarksMove
  <2>2. halt'.baseline <= sup'.started /\ (halt'.baseline >= 0 => halt.baseline >= 0 \/ halt.chain # <<>>)
    BY <1>1, <1>2, <1>4, HaltMoves DEF NumbersHold
  <2>3. halt'.cancellation = "acknowledged" => halt.cancellation = "acknowledged" \/ halt.baseline >= 0
    BY <1>4, HaltMoves DEF Answers
  <2> QED BY <1>2, <1>4, <2>1, <2>2, <2>3, HaltMoves DEF NumbersHold
<1> QED BY <1>3, <1>4

(* While the kill holds, no order is posted: what works only becomes less. *)
LEMMA WorkingShrinks ==
  ASSUME SupTyped, QueueHolds, engine.kill, S!Next
  PROVE  /\ S!Working' \subseteq S!Working
         /\ queue = "order" \/ Resting' \subseteq Resting
<1>0. order \in [Orders -> {"none", "posting", "resting", "lost", "late"}]
  BY DEF SupTyped
<1>1. ASSUME NEW o \in Orders, S!Post(o) PROVE FALSE
  BY <1>1 DEF S!Post, S!CancellationNeeded
<1>2. ASSUME NEW o \in Orders, S!Answer(o) \/ S!Arrive(o) \/ S!Fill(o)
      PROVE  \A p \in Orders : /\ order'[p] = "posting" => order[p] = "posting"
                               /\ order'[p] = "resting" => order[p] = "resting" \/ order[p] = "posting"
  BY <1>0, <1>2 DEF S!Answer, S!Arrive, S!Fill
<1>3. CASE S!CancelOrders
  BY <1>0, <1>3 DEF S!CancelOrders, S!Working, Resting
<1>4. CASE UNCHANGED order
  BY <1>4 DEF S!Working, Resting
<1> QED BY <1>1, <1>2, <1>3, <1>4, OrderFrame DEF S!Working, Resting, QueueHolds

(* A sweep that answers a HALT reads the book when no order is under way   *)
(* any more, and cancels what it read.                                     *)
LEMMA CancelStep ==
  ASSUME SupTyped, KillHolds, QueueHolds, NumbersHold, CancelHolds, S!Next
  PROVE  CancelHolds'
<1>0. sup \in SupState /\ halt \in HaltState
      /\ order \in [Orders -> {"none", "posting", "resting", "lost", "late"}]
  BY DEF SupTyped
<1>1. CASE S!RequestHalt
  <2>1. halt'.baseline = -1 /\ halt'.cancellation = "not_requested"
    BY <1>0, <1>1 DEF S!RequestHalt, HaltState
  <2> QED BY <2>1 DEF CancelHolds, Answers
<1> SUFFICES ASSUME ~S!RequestHalt, Unlifted' PROVE CancelHolds'
  BY <1>1 DEF CancelHolds
<1>2. Unlifted /\ engine.kill
  BY MarksMove, LiftedFrame DEF Unlifted, KillHolds, S!ReleaseCommit
<1>3. S!Working' \subseteq S!Working /\ (queue = "order" \/ Resting' \subseteq Resting)
  BY <1>2, WorkingShrinks
<1>4. sup.started \in Nat /\ sup.completed \in Nat /\ halt.baseline \in Int
  BY <1>0 DEF SupState, HaltState
<1>5. CASE S!HaltRequestSweep /\ halt'.baseline = sup.started
  <2>1. sup'.started = sup.started /\ sup'.completed = sup.completed /\ UNCHANGED order
    BY <1>0, <1>5 DEF S!HaltRequestSweep, SupState
  <2>2. ~Answers(sup.started)' /\ ~Answers(sup.completed)'
    BY <1>4, <1>5, <2>1 DEF Answers, NumbersHold
  <2>3. halt'.cancellation = "acknowledged" => halt.cancellation = "acknowledged"
    BY <1>0, <1>5 DEF S!HaltRequestSweep, HaltState
  <2> QED BY <1>2, <1>3, <2>2, <2>3 DEF CancelHolds
<1> SUFFICES ASSUME halt'.baseline = halt.baseline PROVE CancelHolds'
  BY <1>5, HaltMoves
<1>6. Answers(sup.started)' /\ sup'.step = "cleared" => (Resting \subseteq sup.targets)'
  <2> SUFFICES ASSUME Answers(sup.started)', sup'.step = "cleared" PROVE Resting' \subseteq sup'.targets
    OBVIOUS
  <2>1. CASE sup.step = "cleared" /\ sup'.targets = sup.targets
    <3>1. sup'.started = sup.started /\ queue = "sweep"
      BY <2>1, SweepMoves DEF QueueHolds
    <3> QED BY <1>2, <1>3, <2>1, <3>1 DEF CancelHolds, Answers
  <2>2. CASE S!ReadOrders
    <3>1. sup' \in {S!Swept(FALSE), [sup EXCEPT !.step = "cleared",
                                           !.targets = {o \in Orders : order[o] \in {"resting", "late"}}]}
          /\ UNCHANGED order
      BY <2>2 DEF S!ReadOrders
    <3>2. sup'.targets = {o \in Orders : order[o] \in {"resting", "late"}}
      BY <1>0, <3>1 DEF SupState, S!Swept
    <3> QED BY <3>1, <3>2 DEF Resting
  <2> QED BY <2>1, <2>2, SweepMoves
<1>7. Answers(sup.started)' /\ sup'.step = "swept" => S!Working' = {}
  <2> SUFFICES ASSUME Answers(sup.started)', sup'.step = "swept" PROVE S!Working' = {}
    OBVIOUS
  <2>1. sup'.started = sup.started /\ Answers(sup.started)
    BY SweepMoves DEF Answers
  <2>2. CASE sup.step = "swept"
    BY <1>2, <1>3, <2>1, <2>2 DEF CancelHolds
  <2>3. CASE S!Check
    BY <1>0, <1>2, <2>3 DEF S!Check, S!CancellationNeeded, SupState
  <2>4. CASE S!ReadOrders
    <3>1. /\ sup.step = "held" /\ UNCHANGED order
          /\ \/ {o \in Orders : order[o] \in {"resting", "late"}} = {}
             \/ sup' = [sup EXCEPT !.step = "cleared", !.targets = {o \in Orders : order[o] \in {"resting", "late"}}]
      BY <1>2, <2>4 DEF S!ReadOrders, S!Sweeping, S!CancellationNeeded
    <3>2. {o \in Orders : order[o] \in {"resting", "late"}} = {}
      BY <1>0, <3>1 DEF SupState
    <3> QED BY <3>1, <3>2 DEF S!Working, QueueHolds
  <2>5. CASE S!CancelOrders
    <3>1. /\ sup.step = "cleared"
          /\ order' = [o \in Orders |-> IF o \in sup.targets THEN "none" ELSE order[o]]
      BY <1>2, <2>5 DEF S!CancelOrders, S!Sweeping, S!CancellationNeeded
    <3>2. Resting \subseteq sup.targets /\ queue = "sweep"
      BY <1>2, <2>1, <3>1 DEF CancelHolds, QueueHolds
    <3> QED BY <3>1, <3>2 DEF S!Working, Resting, QueueHolds
  <2> QED BY <2>2, <2>3, <2>4, <2>5, SweepMoves
<1>8. Answers(sup.completed)' /\ ~sup'.error => S!Working' = {}
  <2> SUFFICES ASSUME Answers(sup.completed)', ~sup'.error PROVE S!Working' = {}
    OBVIOUS
  <2>1. CASE sup'.completed = sup.completed /\ sup'.error = sup.error
    BY <1>2, <1>3, <2>1 DEF CancelHolds, Answers
  <2>2. CASE sup'.completed = sup.started /\ sup.step = "swept"
    BY <1>2, <1>3, <2>2 DEF CancelHolds, Answers
  <2> QED BY <2>1, <2>2, SweepMoves
<1>9. halt'.cancellation = "acknowledged" => S!Working' = {}
  BY <1>2, <1>3, HaltMoves DEF CancelHolds, Answers
<1> QED BY <1>6, <1>7, <1>8, <1>9 DEF CancelHolds

-----------------------------------------------------------------------------
(* The drain *)

(* A HALT is called persisted only when its kill is durable. *)
LEMMA DurableStep ==
  ASSUME SupTyped, DurableHolds, S!Next
  PROVE  DurableHolds'
<1>0. halt \in HaltState /\ engine \in EngineState
  BY DEF SupTyped
<1>1. CASE S!RequestHalt
  <2>1. halt'.phase = "persisting"
    BY <1>0, <1>1 DEF S!RequestHalt, HaltState
  <2> QED BY <2>1 DEF DurableHolds
<1>2. CASE S!HaltPersist
  <2>1. PICK ok \in BOOLEAN :
          /\ engine' \in {[engine EXCEPT !.durable = TRUE]} \cup IF ok THEN {} ELSE {engine}
          /\ \/ \E chain : halt' = [halt EXCEPT !.phase = IF ok THEN "persisted" ELSE "uncertain",
                                                !.cancellation = "pending", !.chain = chain]
             \/ \E chain : halt' = [halt EXCEPT !.chain = chain]
          /\ UNCHANGED lifted
    BY <1>2 DEF S!HaltPersist
  <2>2. engine'.durable \/ (engine' = engine /\ ~ok)
    BY <1>0, <2>1 DEF EngineState
  <2>3. /\ halt'.requested = halt.requested
        /\ halt'.phase = halt.phase \/ halt'.phase = IF ok THEN "persisted" ELSE "uncertain"
    BY <1>0, <2>1 DEF HaltState
  <2> QED BY <2>1, <2>2, <2>3 DEF DurableHolds
<1>3. CASE S!ReleaseCommit
  <2>1. UNCHANGED halt /\ (lifted' \/ (engine'.durable = engine.durable /\ UNCHANGED lifted))
    BY <1>0, <1>3 DEF S!ReleaseCommit, EngineState
  <2> QED BY <2>1 DEF DurableHolds
<1>4. CASE ~S!RequestHalt /\ ~S!HaltPersist /\ ~S!ReleaseCommit
  <2>1. engine'.durable = engine.durable /\ UNCHANGED lifted
    <3>1. S!ReleaseSettle => engine'.durable = engine.durable
      BY <1>0, InhibitedEngine DEF S!ReleaseSettle, EngineState
    <3> QED BY <1>4, <3>1, EngineMoves, LiftedFrame
  <2>2. halt'.requested = halt.requested /\ halt'.phase = halt.phase
    BY <1>0, <1>4, HaltFrame DEF HaltState, S!HaltRequestSweep, S!HaltObserve, S!HaltSuperseded,
       S!HaltUnanswered, S!MonitorObserve, S!Observe, S!Unavailable, S!ReleaseFinish, S!DrainActivation,
       S!DrainServer
  <2> QED BY <2>1, <2>2 DEF DurableHolds
<1> QED BY <1>1, <1>2, <1>3, <1>4

(* A closed owner takes nothing new, and is idle once its task has ended. *)
LEMMA ReleaseCloses ==
  ASSUME SupTyped, S!Next
  PROVE  /\ release.closed => release'.closed
         /\ release.closed /\ release.task = "none" =>
              release'.task = "none" /\ release'.recovery = release.recovery
<1>0. release \in ReleaseState
  BY DEF SupTyped
<1>1. CASE S!RequestStop \/ S!BeginDrain
  BY <1>0, <1>1 DEF S!RequestStop, S!BeginDrain, S!ClosedRelease, ReleaseState
<1>2. CASE S!ReleaseReview \/ S!ReleaseConfirm \/ S!ReleaseDiscard
  BY <1>2 DEF S!ReleaseReview, S!ReleaseConfirm, S!ReleaseDiscard, S!ReleaseIdle, S!ReleaseLive
<1>3. ASSUME NEW op \in 1..S!Foreign, S!Reconcile(op) PROVE ~release.closed
  BY <1>3 DEF S!Reconcile, S!ReleaseLive
<1>4. CASE S!ReleaseReviewed
  <2>1. /\ release.task = "review"
        /\ \/ release' = [S!Finished EXCEPT !.review = release.reviews]
           \/ release' = S!Finished
           \/ release' = S!Unresolved(S!None)
    BY <1>4 DEF S!ReleaseReviewed
  <2> QED BY <1>0, <2>1 DEF S!Finished, S!Unresolved, ReleaseState
<1>5. CASE S!ReleaseCommit \/ S!ReleaseSettle \/ S!ReleaseFinish
  <2>1. /\ release.task # "none"
        /\ \/ release' = S!Terminal(S!Finished)
           \/ \E stage : release' = [release EXCEPT !.task = stage]
           \/ release' = S!Terminal(S!Unresolved(release.op))
    BY <1>5 DEF S!ReleaseCommit, S!ReleaseSettle, S!ReleaseFinish
  <2> QED BY <1>0, <2>1 DEF S!Terminal, S!Finished, S!Unresolved, ReleaseState
<1>6. CASE S!Reconciled
  <2>1. /\ release.task = "reconcile"
        /\ \/ release' = [S!Finished EXCEPT !.recovery = FALSE, !.unresolved = S!None]
           \/ release' = [S!Finished EXCEPT !.recovery = FALSE, !.unresolved = S!None, !.absent = @ \cup {release.op}]
           \/ release' = S!Unresolved(release.op)
           \/ release' = S!Unresolved(S!None)
    BY <1>6 DEF S!Reconciled
  <2> QED BY <1>0, <2>1 DEF S!Finished, S!Unresolved, ReleaseState
<1> QED BY <1>1, <1>2, <1>3, <1>4, <1>5, <1>6, ReleaseFrame

(* The same of the activation *)
LEMMA ActivationCloses ==
  ASSUME SupTyped, S!Next
  PROVE  /\ activation.closed => activation'.closed
         /\ activation.closed /\ activation.task = "none" =>
              activation'.task = "none" /\ activation'.uncertain = activation.uncertain
<1>0. activation \in ActivationState
  BY DEF SupTyped
<1>1. CASE S!RequestStop \/ S!DrainRelease
  BY <1>0, <1>1 DEF S!RequestStop, S!DrainRelease, S!ClosedActivation, ActivationState
<1>2. CASE S!ActivationReview \/ S!ActivationConfirm \/ S!ActivationDiscard
  BY <1>2 DEF S!ActivationReview, S!ActivationConfirm, S!ActivationDiscard, S!ActivationIdle, S!ActivationLive
<1>3. CASE S!ActivationBegin \/ S!ActivationReviewed
  BY <1>0, <1>3 DEF S!ActivationBegin, S!ActivationReviewed, S!ActivationEnds, ActivationState
<1>4. CASE S!ActivationConfirmed
  BY <1>0, <1>4 DEF S!ActivationConfirmed, S!ActivationEnds, ActivationState
<1> QED BY <1>1, <1>2, <1>3, <1>4, ActivationFrame

(* The phases of the drain follow each other, and a failure is not *)
(* forgotten.                                                      *)
LEMMA RuntimeMoves ==
  ASSUME SupTyped, S!Next
  PROVE  /\ runtime.failed /\ runtime.phase # "listening" => runtime'.failed
         /\ \/ runtime'.phase = runtime.phase
            \/ S!BeginDrain /\ runtime'.phase = "release"
            \/ S!DrainRelease /\ runtime'.phase = "activation"
            \/ S!DrainActivation /\ runtime'.phase = "halt"
            \/ S!DrainHalt /\ runtime'.phase = "server"
            \/ S!DrainServer /\ runtime'.phase = "pump"
            \/ S!DrainPump /\ runtime'.phase \in {"failed", "stopped"} /\ (runtime'.phase = "stopped" => ~runtime'.failed)
<1>0. runtime \in RuntimeState
  BY DEF SupTyped
<1>1. CASE S!RequestStop
  BY <1>0, <1>1 DEF RuntimeState, S!RequestStop
<1>2. CASE S!BeginDrain
  BY <1>0, <1>2 DEF RuntimeState, S!BeginDrain
<1>3. CASE S!DrainRelease \/ S!DrainActivation \/ S!DrainHalt
  BY <1>0, <1>3 DEF RuntimeState, S!DrainRelease, S!DrainActivation, S!DrainHalt, S!Fails
<1>4. CASE S!DrainServer
  BY <1>0, <1>4 DEF RuntimeState, S!DrainServer
<1>5. CASE S!DrainPump
  BY <1>0, <1>5 DEF RuntimeState, S!DrainPump, S!Fails
<1> QED BY <1>1, <1>2, <1>3, <1>4, <1>5, RuntimeFrame

(* Where the drain is, the owners before it are closed and idle, and a *)
(* drain that has not failed left nothing of theirs open.              *)
LEMMA DrainStep ==
  ASSUME SupTyped, DrainHolds, S!Next
  PROVE  DrainHolds'
<1>0. runtime \in RuntimeState /\ release \in ReleaseState /\ activation \in ActivationState /\ halt \in HaltState
  BY DEF SupTyped
<1> USE DEF FromRelease, FromActivation, FromHalt, FromServer
<1>1. (runtime.phase \in FromRelease => release.closed)'
  <2>1. S!BeginDrain => release'.closed
    BY <1>0 DEF S!BeginDrain, S!ClosedRelease, ReleaseState
  <2>2. runtime'.phase \in FromRelease => runtime.phase \in FromRelease \/ S!BeginDrain
    BY RuntimeMoves DEF S!DrainRelease, S!DrainActivation, S!DrainHalt, S!DrainServer, S!DrainPump
  <2> QED BY <2>1, <2>2, ReleaseCloses DEF DrainHolds
<1>2. (runtime.phase \in FromActivation => release.task = "none" /\ (runtime.failed \/ ~release.recovery))'
  <2>1. runtime'.phase \in FromActivation => runtime.phase \in FromActivation \/ S!DrainRelease
    BY RuntimeMoves DEF S!DrainActivation, S!DrainHalt, S!DrainServer, S!DrainPump
  <2>2. CASE S!DrainRelease
    BY <1>0, <2>2 DEF S!DrainRelease, S!Fails, RuntimeState
  <2>3. CASE runtime.phase \in FromActivation
    BY <2>3, RuntimeMoves, ReleaseCloses DEF DrainHolds
  <2> QED BY <2>1, <2>2, <2>3
<1>3. (runtime.phase \in FromActivation => activation.closed)'
  <2>1. S!DrainRelease => activation'.closed
    BY <1>0 DEF S!DrainRelease, S!ClosedActivation, ActivationState
  <2>2. runtime'.phase \in FromActivation => runtime.phase \in FromActivation \/ S!DrainRelease
    BY RuntimeMoves DEF S!DrainActivation, S!DrainHalt, S!DrainServer, S!DrainPump
  <2> QED BY <2>1, <2>2, ActivationCloses DEF DrainHolds
<1>4. (runtime.phase \in FromHalt => activation.task = "none" /\ (runtime.failed \/ ~activation.uncertain))'
  <2>1. runtime'.phase \in FromHalt => runtime.phase \in FromHalt \/ S!DrainActivation
    BY RuntimeMoves DEF S!DrainHalt, S!DrainServer, S!DrainPump
  <2>2. CASE S!DrainActivation
    BY <1>0, <2>2 DEF S!DrainActivation, S!Fails, RuntimeState
  <2>3. CASE runtime.phase \in FromHalt
    BY <2>3, RuntimeMoves, ActivationCloses DEF DrainHolds
  <2> QED BY <2>1, <2>2, <2>3
<1>5. (runtime.phase \in FromHalt => halt.closed)'
  <2>1. runtime'.phase \in FromHalt => runtime.phase \in FromHalt \/ S!DrainActivation
    BY RuntimeMoves DEF S!DrainHalt, S!DrainServer, S!DrainPump
  <2>2. S!DrainActivation => halt'.closed
    BY <1>0 DEF S!DrainActivation, HaltState
  <2>3. halt.closed => halt'.closed
    BY <1>0, HaltFrame DEF HaltState, S!RequestHalt, S!HaltPersist, S!HaltRequestSweep, S!HaltObserve,
       S!HaltSuperseded, S!HaltUnanswered, S!MonitorObserve, S!Observe, S!Unavailable, S!ReleaseFinish,
       S!DrainActivation, S!DrainServer
  <2> QED BY <2>1, <2>2, <2>3 DEF DrainHolds
<1>6. (runtime.phase \in FromServer => halt.chain = <<>> /\ (runtime.failed \/ S!HaltSettled))'
  <2>1. runtime'.phase \in FromServer => runtime.phase \in FromServer \/ S!DrainHalt
    BY RuntimeMoves DEF S!DrainServer, S!DrainPump
  <2>2. CASE S!DrainHalt
    BY <1>0, <2>2 DEF S!DrainHalt, S!WorkTerminal, S!Fails, S!HaltSettled, RuntimeState
  <2>3. CASE runtime.phase \in FromServer
    <3>1. halt.closed /\ halt.chain = <<>> /\ release.task = "none"
      BY <2>3 DEF DrainHolds
    <3>2. UNCHANGED halt \/ S!DrainServer
      BY <2>3, <3>1, HaltFrame DEF S!RequestHalt, S!HaltPersist, S!HaltRequestSweep, S!HaltObserve,
         S!HaltSuperseded, S!HaltUnanswered, S!MonitorObserve, S!Worker, S!ReleaseFinish, S!DrainActivation
    <3>3. halt'.chain = halt.chain /\ (S!HaltSettled => S!HaltSettled')
      BY <1>0, <3>2 DEF S!DrainServer, S!Unavailable, S!HaltSettled, HaltState
    <3> QED BY <2>3, <3>1, <3>3, RuntimeMoves DEF DrainHolds
  <2> QED BY <2>1, <2>2, <2>3
<1>7. (runtime.phase = "stopped" => ~runtime.failed)'
  <2>1. CASE runtime.phase = "stopped"
    <3>1. UNCHANGED runtime
      BY <1>0, <2>1, RuntimeFrame DEF S!RequestStop, S!BeginDrain, S!DrainRelease, S!DrainActivation,
         S!DrainHalt, S!DrainServer, S!DrainPump
    <3> QED BY <3>1 DEF DrainHolds
  <2> QED BY <2>1, RuntimeMoves
<1> QED BY <1>1, <1>2, <1>3, <1>4, <1>5, <1>6, <1>7 DEF DrainHolds

-----------------------------------------------------------------------------
(* Together *)

(* The supervision starts with nothing pending. *)
LEMMA SupInit == S!Init => SupInv
<1> SUFFICES ASSUME S!Init PROVE SupInv
  OBVIOUS
<1>1. SupTyped
  <2> DEFINE empty == <<>>
             unset == -1
  <2>1. empty \in Seq(HaltWork) /\ unset \in Int
    OBVIOUS
  <2>2. halt = [closed |-> FALSE, requested |-> FALSE, baseline |-> unset, phase |-> "idle",
                cancellation |-> "not_requested", released |-> FALSE, chain |-> empty]
    BY DEF S!Init
  <2>3. halt \in HaltState
    <3> HIDE DEF empty, unset
    <3> QED BY <2>1, <2>2 DEF HaltState
  <2>4. engine \in EngineState
    BY DEF S!Init, EngineState
  <2>5. sup \in SupState
    BY DEF S!Init, SupState
  <2>6. release \in ReleaseState
    BY DEF S!Init, S!None, ReleaseState
  <2>7. activation \in ActivationState /\ runtime \in RuntimeState
    BY DEF S!Init, ActivationState, RuntimeState
  <2>8. order \in [Orders -> {"none", "posting", "resting", "lost", "late"}] /\ queue \in {"free", "order", "sweep"}
    BY DEF S!Init
  <2>9. committed \subseteq Nat /\ requests \in 0..MaxRequests /\ lifted \in BOOLEAN
    <3>1. committed = {} /\ requests = 0
      BY DEF S!Init
    <3>2. lifted \in BOOLEAN
      BY Zenon DEF S!Init
    <3> HIDE DEF empty, unset
    <3> QED BY <3>1, <3>2, RequestsAreCounted
  <2> HIDE DEF empty, unset
  <2> QED BY <2>3, <2>4, <2>5, <2>6, <2>7, <2>8, <2>9 DEF SupTyped
<1>2. KillHolds /\ DurableHolds /\ CancelHolds /\ NumbersHold /\ QueueHolds
  BY DEF S!Init, KillHolds, DurableHolds, CancelHolds, NumbersHold, QueueHolds, Unlifted
<1>3. OpsHold
  BY DEF S!Init, S!None, OpsHold, Confirming
<1>4. DrainHolds
  BY DEF S!Init, DrainHolds, FromRelease, FromActivation, FromHalt, FromServer
<1> QED BY <1>1, <1>2, <1>3, <1>4 DEF SupInv

(* Every step of the supervision keeps the invariant. *)
LEMMA SupStep ==
  ASSUME SupInv, S!Next
  PROVE  SupInv'
BY SupTypeStep, KillStep, OpsStep, QueueStep, NumbersStep, CancelStep, DurableStep, DrainStep DEF SupInv

(* The invariant is about the supervision only. *)
LEMMA SupKept == SupInv /\ UNCHANGED supervisionVars => SupInv'
BY DEF SupInv, supervisionVars, SupTyped, KillHolds, OpsHold, QueueHolds, NumbersHold, CancelHolds, DurableHolds,
       DrainHolds, Unlifted, Answers, Resting, S!Working, S!HaltSettled

(* The owners of the operator's controls, the sweep and the engine keep     *)
(* the invariant whatever operator_halt.rs, operator_release.rs, tools.rs   *)
(* and mcp_runtime.rs interleave.                                           *)
THEOREM SupervisionInvariant == Spec => []SupInv
<1>1. Init => SupInv
  BY SupInit DEF Init
<1>2. SupInv /\ [Next]_<<focus, poolVars, gatewayVars, registryVars, supervisionVars>> => SupInv'
  BY SupStep, SupKept DEF Next
<1> QED BY <1>1, <1>2, PTL DEF Spec

(* A HALT whose cancellation is reported as acknowledged has nothing        *)
(* working: OperatorHalt reports it for a sweep numbered above its          *)
(* baseline that completed without an error, and such a sweep started after *)
(* the kill, waited for the account's queue and cancelled what it read.     *)
THEOREM AckIsTrue == Spec => []AckMeansCancelled
<1>1. SupInv => AckMeansCancelled
  BY DEF SupInv, CancelHolds, NumbersHold, Unlifted, AckMeansCancelled, S!AckMeansCancelled
<1> QED BY <1>1, SupervisionInvariant, PTL

(* A runtime that reports a clean stop has drained its owners in order, and *)
(* leaves no HALT whose kill is not durable or whose orders still work, and *)
(* no release or activation whose outcome is unknown.                       *)
THEOREM CleanStops == Spec => []CleanStopIsSettled
<1>1. SupInv => CleanStopIsSettled
  <2> SUFFICES ASSUME SupInv, runtime.phase = "stopped" PROVE S!CleanStopIsSettled
    BY DEF CleanStopIsSettled, S!CleanStopIsSettled
  <2>1. ~runtime.failed /\ S!HaltSettled /\ ~release.recovery /\ ~activation.uncertain
    BY DEF SupInv, DrainHolds, FromServer, FromHalt, FromActivation
  <2>2. halt.requested /\ ~lifted => engine.durable /\ S!Working = {}
    BY <2>1 DEF SupInv, DurableHolds, CancelHolds, Unlifted, S!HaltSettled
  <2> QED BY <2>1, <2>2 DEF S!CleanStopIsSettled
<1> QED BY <1>1, SupervisionInvariant, PTL

(* An operation reported as not released never is, a HALT marked released   *)
(* was lifted by a committed release, and one that was not lifted keeps the *)
(* engine killed, for any number of requests, faults and releases by        *)
(* others.                                                                  *)
THEOREM ReleasesAreTold == Spec => []ReleasesAreTrue
<1>1. SupInv => ReleasesAreTrue
  BY DEF SupInv, KillHolds, OpsHold, Unlifted, ReleasesAreTrue, S!ReleasesAreTrue, S!AbsentIsFinal,
         S!MarkedMeansLifted, S!UnliftedHaltBlocks
<1> QED BY <1>1, SupervisionInvariant, PTL

-----------------------------------------------------------------------------
(* The registry: what its rows, the roster and the signatures keep true    *)

Row == [kind : {"granted", "retired"}, agent : Agents, container : Containers, signer : Signers, of : Nat]

AccountRow ==
  [owner : R!Owners \cup {<<>>}, recorded : BOOLEAN, provisioned : BOOLEAN, active : BOOLEAN, present : BOOLEAN]

RegTyped ==
  /\ log \in Seq(Row)
  /\ accounts \in [Containers -> AccountRow]
  /\ clearance \in [Clearances -> Nat]

(* What was signed was signed over a prefix of the log. *)
RoutesHold ==
  \A x \in routed : /\ x.row \in 0..Len(log)
                    /\ \A j \in 1..x.row : ~(log[j].kind = "retired" /\ log[j].of = x.route)

(* The three parts of a history that replays *)
GrantsDiffer ==
  \A i, j \in R!Granted : i # j =>
    /\ log[i].container # log[j].container
    /\ log[i].signer # log[j].signer
    /\ i \in R!Live /\ j \in R!Live => log[i].agent # log[j].agent

(* A retirement names an earlier grant, once. *)
RetirementsFit ==
  \A j \in 1..Len(log) : log[j].kind = "retired" =>
    /\ log[j].of \in R!Granted /\ log[j].of < j
    /\ \A k \in 1..(j - 1) : ~(log[k].kind = "retired" /\ log[k].of = log[j].of)

(* The roster is the projection of every grant. *)
RosterAgrees == \A i \in R!Granted : R!Projected(i)

RegInv == RegTyped /\ R!Replays /\ RoutesHold

(* Each agent is an owner of its own. *)
LEMMA OwnersDiffer ==
  /\ \A a : R!AgentOwner(a) # <<>>
  /\ \A a, b : R!AgentOwner(a) = R!AgentOwner(b) => a = b
  /\ \A a \in Agents : R!AgentOwner(a) \in R!Owners
BY DEF R!AgentOwner, R!Owners

(* A history replays when its three parts hold. *)
LEMMA ReplaysParts == R!Replays <=> GrantsDiffer /\ RetirementsFit /\ RosterAgrees
BY DEF R!Replays, GrantsDiffer, RetirementsFit, RosterAgrees

(* The same after a step *)
LEMMA ReplaysPrimed == (R!Replays <=> GrantsDiffer /\ RetirementsFit /\ RosterAgrees)'
BY ReplaysParts, PTL

(* The one row an agent lives at *)
LEMMA LiveRow ==
  ASSUME RegInv, NEW i \in R!Live
  PROVE  /\ log[i].container \in Containers
         /\ R!BoundTo(R!AgentOwner(log[i].agent)) = {log[i].container}
<1>1. R!Projected(i) /\ i \in 1..Len(log) /\ ~R!Retired(i)
  BY ReplaysParts DEF RegInv, RosterAgrees, R!Live, R!Granted
<1>2. log[i] \in Row
  BY <1>1 DEF RegInv, RegTyped
<1>3. log[i].container \in Containers
  BY <1>2 DEF Row
<1> QED BY <1>1, <1>3 DEF R!Projected, R!BoundTo

(* What one more row does to the grants *)
LEMMA OneMoreRow ==
  ASSUME RegTyped, NEW row \in Row, log' = Append(log, row)
  PROVE  /\ Len(log') = Len(log) + 1 /\ log'[Len(log) + 1] = row
         /\ \A j \in 1..Len(log) : log'[j] = log[j]
         /\ log' \in Seq(Row)
BY DEF RegTyped

(* A grant takes a container, a signer and an agent that no live grant has,   *)
(* and a row the agent lives at or nobody owns. *)
LEMMA RegGrant ==
  ASSUME RegInv, NEW a \in Agents, NEW c \in Containers, NEW s \in Signers, R!Grant(a, c, s)
  PROVE  RegInv' /\ R!RowsAge
<1> DEFINE n == Len(log) + 1
           row == [kind |-> "granted", agent |-> a, container |-> c, signer |-> s, of |-> 0]
<1>1. /\ row \in Row /\ log' = Append(log, row) /\ Len(log) \in Nat
      /\ accounts' = [accounts EXCEPT ![c] = [owner |-> R!AgentOwner(a), recorded |-> TRUE,
                        provisioned |-> @.provisioned, active |-> TRUE, present |-> TRUE]]
      /\ UNCHANGED <<clearance, routed>>
  BY DEF R!Grant, Row, RegInv, RegTyped
<1>2. /\ Len(log') = n /\ log'[n] = row /\ log' \in Seq(Row)
      /\ \A j \in 1..Len(log) : log'[j] = log[j]
  BY <1>1, OneMoreRow DEF RegInv
<1>3. /\ row.kind = "granted" /\ row.agent = a /\ row.container = c /\ row.signer = s
  OBVIOUS
<1> HIDE DEF row
<1>4. R!Granted' = R!Granted \cup {n} /\ n \notin R!Granted
  BY <1>1, <1>2, <1>3 DEF R!Granted
<1>5. \A i \in R!Granted : R!Retired(i)' = R!Retired(i)
  BY <1>1, <1>2, <1>3 DEF R!Granted, R!Retired
<1>6. \A i : i = n => ~R!Retired(i)'
  BY <1>1, <1>2, <1>3 DEF R!Retired, RegInv, R!Replays, R!Granted
<1>7. /\ accounts \in [Containers -> AccountRow]
      /\ accounts' \in [Containers -> AccountRow]
      /\ accounts'[c] = [owner |-> R!AgentOwner(a), recorded |-> TRUE,
                         provisioned |-> accounts[c].provisioned, active |-> TRUE, present |-> TRUE]
      /\ \A d \in Containers \ {c} : accounts'[d] = accounts[d]
  BY <1>1, OwnersDiffer DEF RegInv, RegTyped, AccountRow
<1>8. /\ accounts'[c].owner = R!AgentOwner(a) /\ accounts'[c].recorded
      /\ accounts'[c].provisioned = accounts[c].provisioned
      /\ accounts'[c].active /\ accounts'[c].present
  BY <1>7
<1> HIDE DEF n
<1>9. /\ \A i \in R!Granted : log[i].container # c /\ log[i].signer # s
      /\ \A i \in R!Live : log[i].agent # a
      /\ R!BoundTo(R!AgentOwner(a)) \subseteq {c}
      /\ accounts[c].present => accounts[c].active /\ accounts[c].owner \in {<<>>, R!AgentOwner(a)}
  BY DEF R!Grant, R!Conflicts, R!Adoptable, R!Live
<1>10. GrantsDiffer'
  <2>1. \A i \in R!Granted : i \in 1..Len(log) /\ log'[i] = log[i]
    BY <1>2 DEF R!Granted
  <2>2. \A i \in R!Granted : i \in R!Live' <=> i \in R!Live
    BY <1>4, <1>5 DEF R!Live
  <2> QED BY <1>2, <1>3, <1>4, <1>9, <2>1, <2>2, ReplaysParts DEF GrantsDiffer, RegInv
<1>11. RetirementsFit'
  BY <1>1, <1>2, <1>3, <1>4, ReplaysParts DEF RetirementsFit, RegInv, n
<1>12. \A o : R!BoundTo(o)' \subseteq R!BoundTo(o) \cup (IF o = R!AgentOwner(a) THEN {c} ELSE {})
  <2> SUFFICES ASSUME NEW o, NEW d \in R!BoundTo(o)', d # c PROVE d \in R!BoundTo(o)
    BY <1>8 DEF R!BoundTo
  <2> QED BY <1>7 DEF R!BoundTo
<1>13. RosterAgrees'
  <2> SUFFICES ASSUME NEW i \in R!Granted' PROVE R!Projected(i)'
    BY DEF RosterAgrees
  <2>1. CASE i = n
    <3>1. log'[i].container = c /\ log'[i].agent = a /\ ~R!Retired(i)'
      BY <1>2, <1>3, <1>6, <2>1
    <3>2. R!BoundTo(R!AgentOwner(a))' \subseteq {c}
      BY <1>9, <1>12
    <3>3. R!AgentOwner(a)' = R!AgentOwner(a)
      BY DEF R!AgentOwner
    <3> QED BY <1>8, <3>1, <3>2, <3>3 DEF R!Projected
  <2>2. CASE i \in R!Granted
    <3>1. R!Projected(i) /\ log'[i] = log[i] /\ R!Retired(i)' = R!Retired(i)
      BY <1>2, <1>5, <2>2, ReplaysParts DEF RegInv, RosterAgrees, R!Granted
    <3>2. log[i] \in Row /\ log[i].container # c
      BY <1>9, <2>2 DEF RegInv, RegTyped, R!Granted
    <3>4. log[i].container \in Containers \ {c} /\ log[i].agent \in Agents
      BY <3>2 DEF Row
    <3>3. i \in R!Live => log[i].agent # a
      BY <1>9
    <3>5. ~R!Retired(i) => R!AgentOwner(log[i].agent) # R!AgentOwner(a)
      BY <2>2, <3>3, OwnersDiffer DEF R!Live
    <3>6. accounts'[log[i].container] = accounts[log[i].container]
      BY <1>7, <3>4
    <3>7. PICK o : o = R!AgentOwner(log[i].agent)
      OBVIOUS
    <3>8. o = R!AgentOwner(log'[i].agent)
      BY <3>1, <3>7
    <3>9. ~R!Retired(i) => R!BoundTo(o)' \subseteq R!BoundTo(o)
      BY <1>12, <3>5, <3>7
    <3>10. R!BoundTo(R!AgentOwner(log[i].agent))' = R!BoundTo(o)'
      BY <3>8 DEF R!BoundTo, R!AgentOwner
    <3> QED BY <3>1, <3>6, <3>7, <3>9, <3>10 DEF R!Projected, R!AgentOwner
  <2> QED BY <1>4, <2>1, <2>2
<1>14. RoutesHold'
  BY <1>1, <1>2 DEF RegInv, RoutesHold, n
<1>15. R!RowsAge
  <2> SUFFICES ASSUME NEW d \in Containers, accounts[d].present
               PROVE  /\ accounts'[d].present
                      /\ accounts[d].owner # <<>> => accounts'[d].owner = accounts[d].owner
                      /\ ~accounts[d].active => ~accounts'[d].active
                      /\ (accounts[d].provisioned \/ R!Managed(d)) => (accounts[d].recorded => accounts'[d].recorded)
    BY DEF R!RowsAge
  <2> QED BY <1>7, <1>8, <1>9
<1>16. R!Replays'
  BY <1>10, <1>11, <1>13, ReplaysPrimed
<1>17. RegTyped'
  BY <1>1, <1>2, <1>7 DEF RegInv, RegTyped
<1> QED BY <1>14, <1>15, <1>16, <1>17 DEF RegInv

(* The row of a grant is a row of the roster, and it is managed. *)
LEMMA GrantedRow ==
  ASSUME RegInv, NEW i \in R!Granted
  PROVE  /\ i \in 1..Len(log) /\ log[i] \in Row
         /\ log[i].container \in Containers /\ log[i].agent \in Agents /\ log[i].signer \in Signers
         /\ R!Managed(log[i].container)
         /\ accounts[log[i].container].recorded
<1>1. i \in 1..Len(log) /\ log[i] \in Row
  BY DEF RegInv, RegTyped, R!Granted
<1>2. R!Projected(i)
  BY ReplaysParts DEF RegInv, RosterAgrees
<1> QED BY <1>1, <1>2 DEF Row, R!Managed, R!Projected

(* A step of the roster that keeps the row of every grant keeps a history that replays. *)
LEMMA RosterStep ==
  ASSUME RegInv, UNCHANGED <<log, clearance, routed>>, accounts' \in [Containers -> AccountRow],
         \A i \in R!Granted :
            /\ accounts'[log[i].container].present
            /\ accounts'[log[i].container].owner = accounts[log[i].container].owner
            /\ accounts'[log[i].container].active = accounts[log[i].container].active
            /\ accounts'[log[i].container].recorded
            /\ i \in R!Live =>
                 \A o : o = R!AgentOwner(log[i].agent) => R!BoundTo(o)' \subseteq {log[i].container}
  PROVE  RegInv'
<1>1. R!Granted' = R!Granted /\ (\A i : R!Retired(i)' = R!Retired(i)) /\ R!Live' = R!Live
  BY DEF R!Granted, R!Retired, R!Live
<1>2. GrantsDiffer' /\ RetirementsFit'
  BY <1>1, ReplaysParts DEF RegInv, GrantsDiffer, RetirementsFit
<1>3. RosterAgrees'
  <2> SUFFICES ASSUME NEW i \in R!Granted PROVE R!Projected(i)'
    BY <1>1 DEF RosterAgrees
  <2>1. R!Projected(i)
    BY ReplaysParts DEF RegInv, RosterAgrees
  <2>2. PICK o : o = R!AgentOwner(log[i].agent)
    OBVIOUS
  <2>3. ~R!Retired(i) => R!BoundTo(o)' \subseteq {log[i].container}
    BY <2>2 DEF R!Live
  <2>4. R!BoundTo(R!AgentOwner(log[i].agent))' = R!BoundTo(o)'
    BY <2>2 DEF R!BoundTo, R!AgentOwner
  <2> QED BY <1>1, <2>1, <2>3, <2>4 DEF R!Projected, R!AgentOwner
<1>4. R!Replays'
  BY <1>2, <1>3, ReplaysPrimed
<1>5. RoutesHold'
  BY DEF RegInv, RoutesHold
<1>6. RegTyped'
  BY DEF RegInv, RegTyped
<1> QED BY <1>4, <1>5, <1>6 DEF RegInv

(* Provisioning keeps the row of a managed account, and cannot give a live   *)
(* agent a second row. *)
LEMMA RegProvision ==
  ASSUME RegInv, NEW c \in Containers, NEW owner \in R!Owners, R!Provision(c, owner)
  PROVE  RegInv' /\ R!RowsAge
<1> DEFINE row == [owner |-> owner, recorded |-> TRUE, provisioned |-> TRUE, active |-> TRUE, present |-> TRUE]
<1>1. /\ accounts' = [accounts EXCEPT ![c] = row] /\ UNCHANGED <<log, clearance, routed>>
      /\ row \in AccountRow
      /\ row.owner = owner /\ row.recorded /\ row.active /\ row.present
  BY DEF R!Provision, AccountRow
<1>2. /\ R!Managed(c) => accounts[c].owner = owner /\ accounts[c].active
      /\ accounts[c].present => accounts[c].active /\ accounts[c].owner \in {<<>>, owner}
      /\ R!BoundTo(owner) \subseteq {c}
  BY DEF R!Provision, R!MayProvision, R!MayUpsert
<1> HIDE DEF row
<1>3. /\ accounts \in [Containers -> AccountRow] /\ accounts' \in [Containers -> AccountRow]
      /\ accounts'[c] = row /\ \A d \in Containers \ {c} : accounts'[d] = accounts[d]
  BY <1>1 DEF RegInv, RegTyped
<1>4. \A o : /\ o # owner => R!BoundTo(o)' \subseteq R!BoundTo(o)
             /\ R!BoundTo(owner)' \subseteq {c}
  BY <1>1, <1>2, <1>3 DEF R!BoundTo
<1>5. ASSUME NEW i \in R!Granted
      PROVE  /\ accounts'[log[i].container].present
             /\ accounts'[log[i].container].owner = accounts[log[i].container].owner
             /\ accounts'[log[i].container].active = accounts[log[i].container].active
             /\ accounts'[log[i].container].recorded
  <2>1. R!Projected(i)
    BY ReplaysParts DEF RegInv, RosterAgrees
  <2>2. accounts[c].active \in BOOLEAN
    BY <1>3 DEF AccountRow
  <2> QED BY <1>1, <1>2, <1>3, <2>1, <2>2, GrantedRow DEF R!Projected
<1>6. ASSUME NEW i \in R!Live, NEW o, o = R!AgentOwner(log[i].agent)
      PROVE  R!BoundTo(o)' \subseteq {log[i].container}
  <2>1. R!BoundTo(o) = {log[i].container}
    BY <1>6, LiveRow
  <2> QED BY <1>2, <1>4, <2>1
<1>7. RegInv'
  BY <1>1, <1>3, <1>5, <1>6, RosterStep
<1>8. R!RowsAge
  <2> SUFFICES ASSUME NEW d \in Containers, accounts[d].present
               PROVE  /\ accounts'[d].present
                      /\ accounts[d].owner # <<>> => accounts'[d].owner = accounts[d].owner
                      /\ ~accounts[d].active => ~accounts'[d].active
                      /\ (accounts[d].provisioned \/ R!Managed(d)) => (accounts[d].recorded => accounts'[d].recorded)
    BY DEF R!RowsAge
  <2> QED BY <1>1, <1>2, <1>3
<1> QED BY <1>7, <1>8

(* A sweep of the venue adds rows that nobody owns. *)
LEMMA RegObserve ==
  ASSUME RegInv, NEW seen \in SUBSET Containers, R!Observe(seen)
  PROVE  RegInv' /\ R!RowsAge
<1> DEFINE new == [R!NoRow EXCEPT !.present = TRUE, !.active = TRUE]
<1>1. /\ accounts' = [c \in Containers |-> IF c \in seen /\ ~accounts[c].present THEN new ELSE accounts[c]]
      /\ UNCHANGED <<log, clearance, routed>>
      /\ new \in AccountRow /\ new.owner = <<>>
  BY DEF R!Observe, AccountRow, R!NoRow
<1> HIDE DEF new
<1>2. /\ accounts \in [Containers -> AccountRow] /\ accounts' \in [Containers -> AccountRow]
      /\ \A d \in Containers : accounts[d].present => accounts'[d] = accounts[d]
      /\ \A d \in Containers : accounts'[d] = accounts[d] \/ accounts'[d].owner = <<>>
  BY <1>1 DEF RegInv, RegTyped
<1>3. \A o : o # <<>> => R!BoundTo(o)' \subseteq R!BoundTo(o)
  BY <1>2 DEF R!BoundTo
<1>4. ASSUME NEW i \in R!Granted
      PROVE  accounts[log[i].container].present /\ accounts'[log[i].container] = accounts[log[i].container]
  BY <1>2, GrantedRow, ReplaysParts DEF RegInv, RosterAgrees, R!Projected
<1>5. ASSUME NEW i \in R!Live, NEW o, o = R!AgentOwner(log[i].agent)
      PROVE  R!BoundTo(o)' \subseteq {log[i].container}
  BY <1>3, <1>5, LiveRow, OwnersDiffer
<1>6. RegInv'
  BY <1>1, <1>2, <1>4, <1>5, GrantedRow, RosterStep
<1>7. R!RowsAge
  BY <1>2 DEF R!RowsAge
<1> QED BY <1>6, <1>7

(* Recording stops only for rows that no grant manages. *)
LEMMA RegSetRecorded ==
  ASSUME RegInv, NEW c \in Containers, NEW recorded \in BOOLEAN, R!SetRecorded(c, recorded)
  PROVE  RegInv' /\ R!RowsAge
<1>1. /\ accounts' = [accounts EXCEPT ![c].recorded = recorded] /\ UNCHANGED <<log, clearance, routed>>
      /\ ~recorded => ~R!Managed(c) /\ ~accounts[c].provisioned
  BY DEF R!SetRecorded, R!MayOptOut
<1>2. /\ accounts \in [Containers -> AccountRow] /\ accounts' \in [Containers -> AccountRow]
      /\ \A d \in Containers : /\ accounts'[d].present = accounts[d].present
                               /\ accounts'[d].owner = accounts[d].owner
                               /\ accounts'[d].active = accounts[d].active
                               /\ accounts'[d].recorded = IF d = c THEN recorded ELSE accounts[d].recorded
  BY <1>1 DEF RegInv, RegTyped, AccountRow
<1>3. \A o : R!BoundTo(o)' = R!BoundTo(o)
  BY <1>2 DEF R!BoundTo
<1>4. ASSUME NEW i \in R!Granted
      PROVE  /\ accounts'[log[i].container].present
             /\ accounts'[log[i].container].owner = accounts[log[i].container].owner
             /\ accounts'[log[i].container].active = accounts[log[i].container].active
             /\ accounts'[log[i].container].recorded
  BY <1>1, <1>2, GrantedRow, ReplaysParts DEF RegInv, RosterAgrees, R!Projected
<1>5. ASSUME NEW i \in R!Live, NEW o, o = R!AgentOwner(log[i].agent)
      PROVE  R!BoundTo(o)' \subseteq {log[i].container}
  BY <1>3, <1>5, LiveRow
<1>6. RegInv'
  BY <1>1, <1>2, <1>4, <1>5, RosterStep
<1>7. R!RowsAge
  BY <1>1, <1>2 DEF R!RowsAge
<1> QED BY <1>6, <1>7

(* The roster retires only rows that no grant manages. *)
LEMMA RegRetireMetadata ==
  ASSUME RegInv, NEW c \in Containers, R!RetireMetadata(c)
  PROVE  RegInv' /\ R!RowsAge
<1>1. /\ accounts' = [accounts EXCEPT ![c].active = FALSE] /\ UNCHANGED <<log, clearance, routed>>
      /\ ~R!Managed(c)
  BY DEF R!RetireMetadata
<1>2. /\ accounts \in [Containers -> AccountRow] /\ accounts' \in [Containers -> AccountRow]
      /\ \A d \in Containers : /\ accounts'[d].present = accounts[d].present
                               /\ accounts'[d].owner = accounts[d].owner
                               /\ accounts'[d].recorded = accounts[d].recorded
                               /\ d # c => accounts'[d].active = accounts[d].active
      /\ ~accounts'[c].active
  BY <1>1 DEF RegInv, RegTyped, AccountRow
<1>3. \A o : R!BoundTo(o)' \subseteq R!BoundTo(o)
  BY <1>2 DEF R!BoundTo
<1>4. ASSUME NEW i \in R!Granted
      PROVE  /\ accounts'[log[i].container].present
             /\ accounts'[log[i].container].owner = accounts[log[i].container].owner
             /\ accounts'[log[i].container].active = accounts[log[i].container].active
             /\ accounts'[log[i].container].recorded
  BY <1>1, <1>2, GrantedRow, ReplaysParts, ZenonT(60) DEF RegInv, RosterAgrees, R!Projected
<1>5. ASSUME NEW i \in R!Live, NEW o, o = R!AgentOwner(log[i].agent)
      PROVE  R!BoundTo(o)' \subseteq {log[i].container}
  BY <1>3, <1>5, LiveRow
<1>6. RegInv'
  BY <1>1, <1>2, <1>4, <1>5, RosterStep
<1>7. R!RowsAge
  BY <1>1, <1>2 DEF R!RowsAge
<1> QED BY <1>6, <1>7

(* A retirement ends one live grant and the row it lived at. *)
LEMMA RegRetire ==
  ASSUME RegInv, NEW i, R!Retire(i)
  PROVE  RegInv' /\ R!RowsAge
<1> DEFINE n == Len(log) + 1
           row == [kind |-> "retired", agent |-> log[i].agent, container |-> log[i].container,
                   signer |-> log[i].signer, of |-> i]
<1>0. i \in R!Live /\ i \in R!Granted /\ ~R!Retired(i)
  BY DEF R!Retire, R!Live
<1> DEFINE c == log[i].container
<1>1. /\ row \in Row /\ log' = Append(log, row) /\ Len(log) \in Nat
      /\ accounts' = [accounts EXCEPT ![c] = [@ EXCEPT !.active = FALSE]] /\ c \in Containers
      /\ UNCHANGED <<clearance, routed>>
      /\ row.kind = "retired" /\ row.of = i
  BY <1>0, GrantedRow DEF R!Retire, R!RetiredRow, Row, RegInv, RegTyped
<1>2. /\ Len(log') = n /\ log'[n] = row /\ log' \in Seq(Row)
      /\ \A j \in 1..Len(log) : log'[j] = log[j]
  BY <1>1, OneMoreRow DEF RegInv
<1> HIDE DEF row
<1>3. R!Granted' = R!Granted
  BY <1>1, <1>2 DEF R!Granted
<1>4. \A k : R!Retired(k)' <=> R!Retired(k) \/ k = i
  <2> TAKE k
  <2>1. R!Retired(k)' => R!Retired(k) \/ k = i
    BY <1>1, <1>2 DEF R!Retired
  <2>2. R!Retired(k) => R!Retired(k)'
    BY <1>1, <1>2 DEF R!Retired
  <2>3. R!Retired(i)'
    BY <1>1, <1>2 DEF R!Retired
  <2> QED BY <2>1, <2>2, <2>3
<1>5. R!Live' \subseteq R!Live \ {i}
  BY <1>3, <1>4 DEF R!Live
<1>6. /\ accounts \in [Containers -> AccountRow] /\ accounts' \in [Containers -> AccountRow]
      /\ \A d \in Containers : /\ accounts'[d].present = accounts[d].present
                               /\ accounts'[d].owner = accounts[d].owner
                               /\ accounts'[d].recorded = accounts[d].recorded
                               /\ d # c => accounts'[d].active = accounts[d].active
      /\ ~accounts'[c].active
  BY <1>1, ZenonT(60) DEF RegInv, RegTyped, AccountRow
<1>7. \A o : R!BoundTo(o)' \subseteq R!BoundTo(o)
  BY <1>6 DEF R!BoundTo
<1>8. GrantsDiffer'
  BY <1>2, <1>3, <1>5, GrantedRow, ReplaysParts DEF GrantsDiffer, RegInv
<1>9. RetirementsFit'
  <2>1. i \in 1..Len(log)
    BY <1>0 DEF R!Granted
  <2>2. \A k \in 1..Len(log) : ~(log[k].kind = "retired" /\ log[k].of = i)
    BY <1>0 DEF R!Retired
  <2> SUFFICES ASSUME NEW j \in 1..Len(log'), log'[j].kind = "retired"
               PROVE  /\ log'[j].of \in R!Granted /\ log'[j].of < j
                      /\ \A k \in 1..(j - 1) : ~(log'[k].kind = "retired" /\ log'[k].of = log'[j].of)
    BY <1>3 DEF RetirementsFit
  <2>3. CASE j = n
    BY <1>0, <1>1, <1>2, <2>1, <2>2, <2>3
  <2>4. CASE j \in 1..Len(log)
    BY <1>1, <1>2, <2>4, ReplaysParts DEF RetirementsFit, RegInv
  <2> QED BY <1>1, <1>2, <2>3, <2>4
<1>10. RosterAgrees'
  <2> SUFFICES ASSUME NEW k \in R!Granted PROVE R!Projected(k)'
    BY <1>3 DEF RosterAgrees
  <2>1. R!Projected(k) /\ log'[k] = log[k] /\ log[k].container \in Containers
    BY <1>2, GrantedRow, ReplaysParts DEF RegInv, RosterAgrees
  <2>2. PICK o : o = R!AgentOwner(log[k].agent)
    OBVIOUS
  <2>3. o = R!AgentOwner(log'[k].agent)
    BY <2>1, <2>2
  <2>4. R!BoundTo(R!AgentOwner(log[k].agent))' = R!BoundTo(o)'
    BY <2>3 DEF R!BoundTo, R!AgentOwner
  <2>5. k # i => log[k].container # c
    BY <1>0, ReplaysParts DEF RegInv, GrantsDiffer
  <2>6. accounts'[log[k].container].active = ~R!Retired(k)'
    <3>1. accounts[log[k].container].active \in BOOLEAN /\ accounts'[log[k].container].active \in BOOLEAN
      BY <1>6, <2>1 DEF AccountRow
    <3>2. CASE k = i
      BY <1>4, <1>6, <3>1, <3>2
    <3>3. CASE k # i
      BY <1>4, <1>6, <2>1, <2>5, <3>1, <3>3 DEF R!Projected
    <3> QED BY <3>2, <3>3
  <2>7. ~R!Retired(k)' => R!BoundTo(o)' \subseteq {log[k].container}
    BY <1>4, <1>7, <2>1, <2>2 DEF R!Projected
  <2> QED BY <1>6, <2>1, <2>4, <2>6, <2>7 DEF R!Projected, R!AgentOwner
<1>11. R!Replays'
  BY <1>8, <1>9, <1>10, ReplaysPrimed
<1>12. RegTyped'
  BY <1>1, <1>2, <1>6 DEF RegInv, RegTyped
<1>13. RoutesHold'
  BY <1>1, <1>2 DEF RegInv, RoutesHold
<1>14. R!RowsAge
  BY <1>6 DEF R!RowsAge
<1> QED BY <1>11, <1>12, <1>13, <1>14 DEF RegInv

(* Clearing, signing and dropping a request leave the history and the roster alone. *)
LEMMA HistoryKept ==
  ASSUME RegInv, UNCHANGED <<log, accounts>>, clearance' \in [Clearances -> Nat], RoutesHold'
  PROVE  RegInv' /\ R!RowsAge
<1>1. R!Replays'
  BY SMTT(60) DEF RegInv, R!Replays, R!Granted, R!Live, R!Retired, R!Projected, R!BoundTo
<1>2. RegTyped'
  BY DEF RegInv, RegTyped
<1> QED BY <1>1, <1>2 DEF RegInv, R!RowsAge

(* A clearance takes the position of a grant. *)
LEMMA RegClear ==
  ASSUME RegInv, NEW r \in Clearances, NEW a \in Agents, R!Clear(r, a)
  PROVE  RegInv' /\ R!RowsAge
<1>1. (CHOOSE i \in R!RouteOf(a) : TRUE) \in Nat
  BY GrantedRow DEF R!Clear, R!RouteOf, R!Live
<1>2. clearance' \in [Clearances -> Nat] /\ UNCHANGED <<log, accounts, routed>>
  BY <1>1 DEF R!Clear, RegInv, RegTyped
<1>3. RoutesHold'
  BY <1>2 DEF RegInv, RoutesHold
<1> QED BY <1>2, <1>3, HistoryKept

(* A signature is made under a route that is live in the whole history. *)
LEMMA RegSign ==
  ASSUME RegInv, NEW r \in Clearances, R!Sign(r)
  PROVE  RegInv' /\ R!RowsAge
<1> DEFINE x == [route |-> clearance[r], row |-> Len(log)]
<1>1. /\ clearance' \in [Clearances -> Nat] /\ UNCHANGED <<log, accounts>> /\ routed' = routed \cup {x}
      /\ Len(log) \in Nat
  BY DEF R!Sign, RegInv, RegTyped
<1>2. clearance[r] \in R!RouteOf(log[clearance[r]].agent)
  BY DEF R!Sign, R!VerifyRoute
<1>3. \A j \in 1..Len(log) : ~(log[j].kind = "retired" /\ log[j].of = clearance[r])
  BY <1>2 DEF R!RouteOf, R!Live, R!Retired
<1>4. RoutesHold'
  BY <1>1, <1>3 DEF RegInv, RoutesHold
<1> QED BY <1>1, <1>4, HistoryKept

(* Dropping a clearance signs nothing. *)
LEMMA RegDiscard ==
  ASSUME RegInv, NEW r \in Clearances, R!Discard(r)
  PROVE  RegInv' /\ R!RowsAge
<1>1. clearance' \in [Clearances -> Nat] /\ UNCHANGED <<log, accounts, routed>>
  BY DEF R!Discard, RegInv, RegTyped
<1>2. RoutesHold'
  BY <1>1 DEF RegInv, RoutesHold
<1> QED BY <1>1, <1>2, HistoryKept

(* Every step of the registry keeps the invariant, and rows only age. *)
LEMMA RegNext ==
  ASSUME RegInv, R!Next
  PROVE  RegInv' /\ R!RowsAge
BY RegGrant, RegRetire, RegProvision, RegObserve, RegSetRecorded, RegRetireMetadata, RegClear, RegSign,
   RegDiscard DEF R!Next

(* The registry starts empty. *)
LEMMA RegInit == R!Init => RegInv
<1> SUFFICES ASSUME R!Init PROVE RegInv
  OBVIOUS
<1>1. log = <<>> /\ accounts = [c \in Containers |-> R!NoRow] /\ routed = {}
      /\ clearance = [r \in Clearances |-> 0]
  BY DEF R!Init
<1>2. R!NoRow \in AccountRow
  BY DEF R!NoRow, AccountRow
<1>3. RegTyped
  BY <1>1, <1>2 DEF RegTyped
<1>4. R!Granted = {}
  BY <1>1 DEF R!Granted
<1> QED BY <1>1, <1>3, <1>4 DEF RegInv, R!Replays, RoutesHold

(* Grants, retirements, roster edits, clearances and signatures of          *)
(* registry.rs and accounts.rs keep the invariant in every order.           *)
THEOREM RegistryInvariant == Spec => [](focus = "registry" => RegInv)
<1> DEFINE RInv == focus = "registry" => RegInv
<1>1. Init => RInv
  BY RegInit DEF Init
<1>2. RInv /\ [Next]_<<focus, poolVars, gatewayVars, registryVars, supervisionVars>> => RInv'
  <2> SUFFICES ASSUME RInv, [Next]_<<focus, poolVars, gatewayVars, registryVars, supervisionVars>>,
                      focus' = "registry"
               PROVE  RegInv'
    OBVIOUS
  <2>1. CASE UNCHANGED <<focus, registryVars>>
    BY <2>1, HistoryKept DEF registryVars, RegInv, RegTyped, RoutesHold
  <2>2. CASE focus = "registry" /\ R!Next
    BY <2>2, RegNext
  <2> QED BY <2>1, <2>2 DEF Next
<1> QED BY <1>1, <1>2, PTL DEF Spec

(* The history of ledger/registry.rs always replays, so no sequence of      *)
(* grants, retirements and roster edits locks the program out; nothing is   *)
(* signed under a route retired before its signature, because               *)
(* verify_route_in runs in the lock hold that signs; and rows of accounts   *)
(* only age.                                                                *)
THEOREM RegistryHolds == Spec => RegistrySound
<1> DEFINE RInv == focus = "registry" => RegInv
           RSound == focus = "registry" => R!NeverLockedOut /\ R!RetiredNeverSigns
           RAge == focus = "registry" => R!RowsAge
<1>1. RInv => RSound
  BY DEF RegInv, RegTyped, RoutesHold, R!NeverLockedOut, R!RetiredNeverSigns
<1>2. RInv /\ [Next]_<<focus, poolVars, gatewayVars, registryVars, supervisionVars>> => [RAge]_accounts
  <2> SUFFICES ASSUME RInv, Next, ~UNCHANGED accounts, focus = "registry" PROVE R!RowsAge
    BY DEF registryVars
  <2> QED BY RegNext DEF Next
<1>3. Spec => []RInv
  BY RegistryInvariant
<1> QED BY <1>1, <1>2, <1>3, PTL DEF Spec, RegistrySound

-----------------------------------------------------------------------------
(* The listener: what pairings, stores and tasks keep true                  *)

Pairing == [binding : Bindings, revoked : BOOLEAN]

Flags == UNION {[ids -> BOOLEAN] : ids \in SUBSET Nat}

Mutation == [op : {"none", "issue", "revoke"}, of : Bindings \cup Nat, committed : BOOLEAN]

StoreState == [open : BOOLEAN, closed : BOOLEAN, flags : Flags, mutation : Mutation]

ServerState ==
  [up : BOOLEAN, started : BOOLEAN, native : BOOLEAN, shutdown : BOOLEAN, supervisor : BOOLEAN,
   accepting : BOOLEAN]

TaskState ==
  [phase : {"none", "asked", "entering", "running", "preparing", "decided", "signing", "signed", "posting"},
   of : Runtimes \cup {0}, id : Nat, native : BOOLEAN, pinned : Nat,
   method : BOOLEAN, worker : BOOLEAN, cancelled : BOOLEAN]

GateTyped ==
  /\ pairings \in Seq(Pairing)
  /\ store \in [Runtimes -> StoreState]
  /\ server \in [Runtimes -> ServerState]
  /\ task \in [Tasks -> TaskState]
  /\ review \in [Runtimes -> Nat]
  /\ signed \subseteq [id : Nat, pinned : Nat]

Alive(t) == task[t].phase # "none"

(* One runtime at a time holds the owner's lease. *)
OneOwner ==
  /\ \A k, j \in Runtimes : G!HoldsLease(k) /\ G!HoldsLease(j) => k = j
  /\ \A t \in Tasks : Alive(t) => task[t].of \in Runtimes

(* What is signed or being signed is of an issued pairing, the pinned one. *)
IdsFit ==
  /\ \A t \in Tasks : Alive(t) => task[t].id \in G!Ids /\ task[t].pinned \in {0, task[t].id}
  /\ \A x \in signed : x.id \in G!Ids /\ x.pinned \in {0, x.id}

(* An open store knows the pairing of every task and signature. *)
StoreKnows ==
  \A k \in Runtimes : store[k].open =>
    /\ DOMAIN store[k].flags \subseteq G!Ids
    /\ \A t \in Tasks : Alive(t) => task[t].id \in DOMAIN store[k].flags
    /\ \A x \in signed : x.id \in DOMAIN store[k].flags

(* A mutation is made by an open store, while no task reads. *)
WriterAlone ==
  \A k \in Runtimes : G!Writing(k) =>
    /\ store[k].open /\ ~G!Reading(k)
    /\ store[k].mutation.op = "revoke" => store[k].mutation.of \in G!Ids
    /\ store[k].mutation.op = "issue" =>
         /\ store[k].mutation.of \in Bindings
         /\ store[k].mutation.committed => Len(pairings) > 0 /\ ~pairings[Len(pairings)].revoked

(* A flag that is down is right, but for a revocation that is committed and *)
(* not published yet.                                                       *)
FlagsRight ==
  \A k \in Runtimes : store[k].open =>
    \A i \in DOMAIN store[k].flags : ~store[k].flags[i] /\ pairings[i].revoked =>
      store[k].mutation.op = "revoke" /\ store[k].mutation.of = i /\ store[k].mutation.committed

(* A listener that is not up has only tasks that will find it so. *)
IdleBelow ==
  \A t \in Tasks : Alive(t) /\ ~server[task[t].of].up => task[t].phase \in {"asked", "entering"}

NoneRevoked == \A t \in Tasks : task[t].phase \in {"signing", "posting"} => ~pairings[task[t].id].revoked

GateInv == GateTyped /\ OneOwner /\ IdsFit /\ StoreKnows /\ WriterAlone /\ FlagsRight /\ IdleBelow /\ NoneRevoked

(* Flags are a Boolean for each of some pairings. *)
LEMMA FlagsFunction ==
  /\ \A f \in Flags : DOMAIN f \subseteq Nat /\ (\A i \in DOMAIN f : f[i] \in BOOLEAN)
  /\ \A ids \in SUBSET Nat : \A f \in [ids -> BOOLEAN] : f \in Flags
BY DEF Flags

(* What a step does to the pairings: it adds one that is not revoked, or revokes one. *)
LEMMA PairingMoves ==
  ASSUME GateTyped, WriterAlone, G!Next
  PROVE  \/ UNCHANGED pairings
         \/ \E k \in Runtimes :
              /\ G!Commit(k)
              /\ \/ /\ store[k].mutation.op = "issue"
                    /\ pairings' = Append(pairings, [binding |-> store[k].mutation.of, revoked |-> FALSE])
                 \/ /\ store[k].mutation.op = "revoke"
                    /\ pairings' = [pairings EXCEPT ![store[k].mutation.of].revoked = TRUE]
<1> USE DEF GateTyped
<1>1. ASSUME NEW k \in Runtimes, G!Commit(k)
      PROVE  store[k].mutation.op \in {"issue", "revoke"}
  BY <1>1 DEF G!Commit, G!Writing, StoreState, Mutation
<1>2. ASSUME NEW k \in Runtimes, G!Runtime(k) PROVE UNCHANGED pairings \/ G!Commit(k)
  BY <1>2 DEF G!Runtime, G!Open, G!Publish, G!Abandon, G!Issue, G!Revoke, G!Begin, G!Serve, G!CloseNative,
       G!Stop, G!SupervisorEnds, G!CloseConnections, G!Returned, G!DropStore, G!Crash, G!DiscardReview
<1>3. ASSUME NEW t \in Tasks, G!TaskStep(t) PROVE UNCHANGED pairings
  BY <1>3 DEF G!TaskStep, G!Enter, G!Run, G!CancelCall, G!Exit, G!Reviewed, G!Decide, G!AdmitSign, G!SignDone,
       G!AdmitPost, G!WorkerEnds, G!Authenticate, G!Prepare, G!Confirm
<1> QED BY <1>1, <1>2, <1>3 DEF G!Next, G!Commit

(* Pairings are only added, keep their binding and stay revoked. *)
LEMMA PairingsGrow ==
  ASSUME GateTyped, WriterAlone, G!Next
  PROVE  /\ pairings' \in Seq(Pairing)
         /\ G!Ids \subseteq G!Ids'
         /\ \A i \in G!Ids : pairings'[i].binding = pairings[i].binding
<1>1. pairings \in Seq(Pairing) /\ Len(pairings) \in Nat
  BY DEF GateTyped
<1>2. \A i \in G!Ids : pairings[i] \in Pairing
  BY <1>1 DEF G!Ids
<1>3. ASSUME NEW k \in Runtimes, G!Commit(k), store[k].mutation.op = "issue",
             pairings' = Append(pairings, [binding |-> store[k].mutation.of, revoked |-> FALSE])
      PROVE  /\ pairings' \in Seq(Pairing) /\ Len(pairings') = Len(pairings) + 1
             /\ \A i \in 1..Len(pairings) : pairings'[i] = pairings[i]
  <2>1. [binding |-> store[k].mutation.of, revoked |-> FALSE] \in Pairing
    BY <1>3 DEF WriterAlone, G!Commit, Pairing
  <2> QED BY <1>1, <1>3, <2>1
<1>4. ASSUME NEW k \in Runtimes, G!Commit(k), store[k].mutation.op = "revoke",
             pairings' = [pairings EXCEPT ![store[k].mutation.of].revoked = TRUE]
      PROVE  /\ pairings' \in Seq(Pairing) /\ Len(pairings') = Len(pairings)
             /\ \A i \in 1..Len(pairings) : pairings'[i].binding = pairings[i].binding
  <2> DEFINE id == store[k].mutation.of
  <2>1. id \in G!Ids
    BY <1>4 DEF WriterAlone, G!Commit
  <2>2. [pairings[id] EXCEPT !.revoked = TRUE] \in Pairing
        /\ [pairings[id] EXCEPT !.revoked = TRUE].binding = pairings[id].binding
    BY <1>2, <2>1 DEF Pairing
  <2>3. pairings' = [pairings EXCEPT ![id] = [pairings[id] EXCEPT !.revoked = TRUE]]
    BY <1>4
  <2> HIDE DEF id
  <2> QED BY <1>1, <2>1, <2>2, <2>3 DEF G!Ids
<1>5. CASE UNCHANGED pairings
  BY <1>1, <1>5 DEF G!Ids
<1>6. CASE pairings' \in Seq(Pairing) /\ Len(pairings') \in {Len(pairings), Len(pairings) + 1}
             /\ \A i \in 1..Len(pairings) : pairings'[i].binding = pairings[i].binding
  BY <1>1, <1>6 DEF G!Ids
<1> QED BY <1>3, <1>4, <1>5, <1>6, PairingMoves

(* What a step does to one store *)
LEMMA StoreMoves ==
  ASSUME GateTyped, G!Next, NEW k \in Runtimes
  PROVE  \/ store'[k] = store[k]
         \/ G!Open(k) \/ G!Commit(k) \/ G!Publish(k) \/ G!Abandon(k) \/ G!DropStore(k) \/ G!Crash(k)
         \/ (\E b \in Bindings : G!Issue(k, b)) \/ (\E id \in G!Ids : G!Revoke(k, id))
<1>1. ASSUME NEW j \in Runtimes, G!Runtime(j), j # k PROVE store'[k] = store[k]
  BY <1>1 DEF GateTyped, G!Runtime, G!Open, G!Commit, G!Publish, G!Abandon, G!Issue, G!Revoke, G!Begin, G!Serve,
       G!CloseNative, G!Stop, G!SupervisorEnds, G!CloseConnections, G!Returned, G!DropStore, G!Crash, G!DiscardReview
<1>2. ASSUME G!Runtime(k)
      PROVE  \/ UNCHANGED store
             \/ G!Open(k) \/ G!Commit(k) \/ G!Publish(k) \/ G!Abandon(k) \/ G!DropStore(k) \/ G!Crash(k)
             \/ (\E b \in Bindings : G!Issue(k, b)) \/ (\E id \in G!Ids : G!Revoke(k, id))
  BY <1>2 DEF G!Runtime, G!Serve, G!CloseNative, G!Stop, G!SupervisorEnds, G!CloseConnections, G!Returned,
       G!DiscardReview
<1>3. ASSUME NEW t \in Tasks, G!TaskStep(t) PROVE UNCHANGED store
  BY <1>3 DEF G!TaskStep, G!Enter, G!Run, G!CancelCall, G!Exit, G!Reviewed, G!Decide, G!AdmitSign, G!SignDone,
       G!AdmitPost, G!WorkerEnds, G!Authenticate, G!Prepare, G!Confirm
<1> QED BY <1>1, <1>2, <1>3 DEF G!Next

(* The new store of a runtime whose store a step changes *)
Opens(k) ==
  /\ G!Open(k)
  /\ store'[k].open /\ store'[k].mutation = G!NoMutation /\ UNCHANGED pairings
  /\ DOMAIN store'[k].flags = G!Ids /\ \A i \in G!Ids : store'[k].flags[i] = pairings[i].revoked

Begins(k) ==
  /\ store[k].open /\ store'[k].open /\ UNCHANGED pairings /\ store'[k].flags = store[k].flags
  /\ ~G!Writing(k) /\ ~G!Reading(k)
  /\ store'[k].mutation.committed = FALSE
  /\ \/ store'[k].mutation.op = "issue" /\ store'[k].mutation.of \in Bindings
     \/ store'[k].mutation.op = "revoke" /\ store'[k].mutation.of \in G!Ids

Commits(k) ==
  /\ G!Commit(k)
  /\ store'[k].open = store[k].open /\ store'[k].flags = store[k].flags
  /\ store'[k].mutation.op = store[k].mutation.op /\ store'[k].mutation.of = store[k].mutation.of
  /\ store'[k].mutation.committed

Published(k) == IF store[k].mutation.op = "issue" THEN Len(pairings) ELSE store[k].mutation.of

Publishes(k) ==
  /\ G!Publish(k)
  /\ store'[k].open = store[k].open /\ store'[k].mutation = G!NoMutation /\ UNCHANGED pairings
  /\ DOMAIN store'[k].flags = DOMAIN store[k].flags \cup {Published(k)}
  /\ \A i \in DOMAIN store'[k].flags :
       store'[k].flags[i] = IF i = Published(k) THEN store[k].mutation.op = "revoke" ELSE store[k].flags[i]

Abandons(k) ==
  /\ G!Abandon(k)
  /\ store'[k].open = store[k].open /\ store'[k].mutation = G!NoMutation /\ UNCHANGED pairings
  /\ DOMAIN store'[k].flags = DOMAIN store[k].flags /\ \A i \in DOMAIN store[k].flags : store'[k].flags[i]

Drops(k) ==
  /\ G!DropStore(k) \/ G!Crash(k)
  /\ ~store'[k].open /\ store'[k].mutation = G!NoMutation /\ UNCHANGED pairings

(* An empty slot is no mutation, and a store nobody opened has one. *)
LEMMA NothingHeld ==
  /\ G!NoMutation \in Mutation /\ G!NoMutation.op = "none"
  /\ G!NoStore \in StoreState /\ ~G!NoStore.open /\ G!NoStore.mutation = G!NoMutation
<1> DEFINE empty == <<>>
<1>1. empty \in [{} -> BOOLEAN]
  OBVIOUS
<1>2. empty \in Flags
  BY <1>1, FlagsFunction
<1>3. G!NoStore = [open |-> FALSE, closed |-> FALSE, flags |-> empty, mutation |-> G!NoMutation]
  BY DEF G!NoStore
<1>4. G!NoMutation \in Mutation /\ G!NoMutation.op = "none"
  BY DEF G!NoMutation, Mutation
<1> HIDE DEF empty
<1> QED BY <1>2, <1>3, <1>4 DEF StoreState

(* Each step makes one of these changes, and keeps the type. *)
LEMMA StoreSteps ==
  ASSUME GateTyped, WriterAlone, G!Next, NEW k \in Runtimes
  PROVE  /\ store'[k] \in StoreState
         /\ \/ store'[k] = store[k]
            \/ Opens(k) \/ Begins(k) \/ Commits(k) \/ Publishes(k) \/ Abandons(k) \/ Drops(k)
<1>0. /\ store \in [Runtimes -> StoreState] /\ store[k] \in StoreState
      /\ store[k].flags \in Flags /\ store[k].mutation \in Mutation
      /\ Len(pairings) \in Nat /\ G!Ids \subseteq Nat /\ \A i \in G!Ids : pairings[i].revoked \in BOOLEAN
  <2>1. \A i \in G!Ids : pairings[i] \in Pairing
    BY DEF GateTyped, G!Ids
  <2> QED BY <2>1 DEF GateTyped, StoreState, G!Ids, Pairing
<1>1. CASE G!Open(k)
  <2> DEFINE flags == [i \in G!Ids |-> pairings[i].revoked]
  <2>1. flags \in Flags /\ DOMAIN flags = G!Ids /\ \A i \in G!Ids : flags[i] = pairings[i].revoked
    BY <1>0, FlagsFunction
  <2>2. store' = [store EXCEPT ![k] = [open |-> TRUE, closed |-> FALSE, mutation |-> G!NoMutation, flags |-> flags]]
        /\ UNCHANGED pairings
    BY <1>1 DEF G!Open
  <2> HIDE DEF flags
  <2>3. store'[k] = [open |-> TRUE, closed |-> FALSE, mutation |-> G!NoMutation, flags |-> flags]
    BY <1>0, <2>2
  <2>4. store'[k].open /\ store'[k].mutation = G!NoMutation /\ store'[k].flags = flags
    BY <2>3
  <2>5. store'[k] \in StoreState
    BY <2>1, <2>3, NothingHeld DEF StoreState
  <2> QED BY <1>1, <2>1, <2>2, <2>4, <2>5 DEF Opens
<1>2. ASSUME NEW op \in {"issue", "revoke"}, NEW of, G!Begin(k, op, of),
             op = "issue" => of \in Bindings, op = "revoke" => of \in G!Ids
      PROVE  store'[k] \in StoreState /\ Begins(k)
  <2> DEFINE m == [op |-> op, of |-> of, committed |-> FALSE]
  <2>1. m \in Mutation /\ m.op = op /\ m.of = of /\ m.committed = FALSE
    BY <1>0, <1>2 DEF Mutation
  <2>2. store' = [store EXCEPT ![k].mutation = m]
    BY <1>2 DEF G!Begin
  <2> HIDE DEF m
  <2>3. /\ store'[k] \in StoreState /\ store'[k].mutation = m
        /\ store'[k].open = store[k].open /\ store'[k].flags = store[k].flags
    BY <1>0, <2>1, <2>2 DEF StoreState
  <2> QED BY <1>2, <2>1, <2>3 DEF G!Begin, Begins
<1>3. CASE G!Commit(k)
  <2> DEFINE m == [store[k].mutation EXCEPT !.committed = TRUE]
  <2>1. m \in Mutation /\ m.op = store[k].mutation.op /\ m.of = store[k].mutation.of /\ m.committed
    BY <1>0 DEF Mutation
  <2>2. store' = [store EXCEPT ![k].mutation = m]
    BY <1>3 DEF G!Commit
  <2> HIDE DEF m
  <2>3. /\ store'[k] \in StoreState /\ store'[k].mutation = m
        /\ store'[k].open = store[k].open /\ store'[k].flags = store[k].flags
    BY <1>0, <2>1, <2>2 DEF StoreState
  <2> QED BY <1>3, <2>1, <2>3 DEF Commits
<1>4. CASE G!Publish(k)
  <2> DEFINE ids == DOMAIN store[k].flags \cup {Published(k)}
             flags == [i \in ids |-> IF i = Published(k) THEN store[k].mutation.op = "revoke" ELSE store[k].flags[i]]
  <2>1. Published(k) \in Nat
    BY <1>0, <1>4 DEF G!Publish, G!Writing, WriterAlone, Published, Mutation, G!Ids
  <2>2. flags \in [ids -> BOOLEAN] /\ ids \in SUBSET Nat
    BY <1>0, <2>1, FlagsFunction
  <2>3. flags \in Flags
    BY <2>2, FlagsFunction
  <2>4. DOMAIN flags = ids /\ \A i \in ids : flags[i] = IF i = Published(k) THEN store[k].mutation.op = "revoke"
                                                         ELSE store[k].flags[i]
    OBVIOUS
  <2>5. store' = [store EXCEPT ![k] = [@ EXCEPT !.mutation = G!NoMutation, !.flags = flags]] /\ UNCHANGED pairings
    BY <1>0, <1>4 DEF G!Publish, Published
  <2> HIDE DEF flags
  <2>6. store'[k] = [store[k] EXCEPT !.mutation = G!NoMutation, !.flags = flags]
    BY <1>0, <2>5
  <2>7. /\ store'[k] \in StoreState /\ store'[k].mutation = G!NoMutation /\ store'[k].flags = flags
        /\ store'[k].open = store[k].open
    BY <1>0, <2>3, <2>6, NothingHeld DEF StoreState
  <2> QED BY <1>4, <2>4, <2>5, <2>7 DEF Publishes
<1>5. CASE G!Abandon(k)
  <2> DEFINE flags == [i \in DOMAIN store[k].flags |-> TRUE]
  <2>1. flags \in Flags /\ DOMAIN flags = DOMAIN store[k].flags /\ \A i \in DOMAIN store[k].flags : flags[i]
    BY <1>0, FlagsFunction
  <2>2. store' = [store EXCEPT ![k] = [@ EXCEPT !.mutation = G!NoMutation, !.closed = TRUE, !.flags = flags]]
        /\ UNCHANGED pairings
    BY <1>5 DEF G!Abandon, G!Abandoned
  <2> HIDE DEF flags
  <2>3. store'[k] = [store[k] EXCEPT !.mutation = G!NoMutation, !.closed = TRUE, !.flags = flags]
    BY <1>0, <2>2
  <2>4. /\ store'[k] \in StoreState /\ store'[k].mutation = G!NoMutation /\ store'[k].flags = flags
        /\ store'[k].open = store[k].open
    BY <1>0, <2>1, <2>3, NothingHeld DEF StoreState
  <2> QED BY <1>5, <2>1, <2>2, <2>4 DEF Abandons
<1>6. CASE G!DropStore(k) \/ G!Crash(k)
  <2>1. store' = [store EXCEPT ![k] = G!NoStore] /\ UNCHANGED pairings
    BY <1>6 DEF G!DropStore, G!Crash
  <2>2. store'[k] = G!NoStore
    BY <1>0, <2>1
  <2> QED BY <1>6, <2>1, <2>2, NothingHeld DEF Drops
<1>7. ASSUME NEW b \in Bindings, G!Issue(k, b) PROVE store'[k] \in StoreState /\ Begins(k)
  BY <1>2, <1>7 DEF G!Issue
<1>8. ASSUME NEW id \in G!Ids, G!Revoke(k, id) PROVE store'[k] \in StoreState /\ Begins(k)
  BY <1>2, <1>8 DEF G!Revoke
<1> QED BY <1>0, <1>1, <1>3, <1>4, <1>5, <1>6, <1>7, <1>8, StoreMoves

(* What a step does to a task: it starts one, moves it on, or ends it. *)
Starts(t) ==
  /\ ~Alive(t) /\ UNCHANGED <<pairings, store, server>>
  /\ \E k \in Runtimes :
       /\ task'[t].of = k /\ store[k].open
       /\ task'[t].id \in DOMAIN store[k].flags /\ task'[t].pinned \in {0, task'[t].id}
       /\ task'[t].phase = "asked" \/ (task'[t].phase \in {"preparing", "running"} /\ server[k].up)

Continues(t) ==
  /\ Alive(t) /\ UNCHANGED <<pairings, store, server>>
  /\ task'[t].of = task[t].of /\ task'[t].id = task[t].id /\ task'[t].pinned = task[t].pinned
  /\ \/ task'[t].phase = task[t].phase
     \/ task[t].phase = "asked" /\ task'[t].phase = "entering"
     \/ task[t].phase = "entering" /\ task'[t].phase = "running" /\ server[task[t].of].up
     \/ task[t].phase = "running" /\ task'[t].phase = "decided"
     \/ task[t].phase \in {"decided", "signed"} /\ task'[t].phase \in {"signing", "posting"} /\ G!Admitted(t)
     \/ task[t].phase = "signing" /\ task'[t].phase = "signed"

Ends(t) == task'[t].phase = "none"

(* A task that is nobody's *)
LEMMA NobodysTask == G!NoTask \in TaskState /\ G!NoTask.phase = "none" /\ G!NoTask.pinned = 0
BY DEF G!NoTask, TaskState

(* One step is of one task, or a crash that ends those of one runtime. *)
LEMMA TaskMoves ==
  ASSUME GateTyped, G!Next, NEW t \in Tasks
  PROVE  \/ task'[t] = task[t]
         \/ (\E k \in Runtimes : G!Crash(k) /\ task'[t] = G!NoTask)
         \/ G!TaskStep(t)
<1>1. ASSUME NEW k \in Runtimes, G!Runtime(k) PROVE UNCHANGED task \/ G!Crash(k)
  BY <1>1 DEF G!Runtime, G!Open, G!Commit, G!Publish, G!Abandon, G!Issue, G!Revoke, G!Begin, G!Serve,
       G!CloseNative, G!Stop, G!SupervisorEnds, G!CloseConnections, G!Returned, G!DropStore, G!DiscardReview
<1>2. ASSUME NEW k \in Runtimes, G!Crash(k) PROVE task'[t] \in {task[t], G!NoTask}
  BY <1>2 DEF G!Crash
<1>3. ASSUME NEW u \in Tasks, u # t, G!TaskStep(u) PROVE task'[t] = task[t]
  BY <1>3 DEF GateTyped, G!TaskStep, G!Enter, G!Run, G!CancelCall, G!Exit, G!Reviewed, G!Decide, G!AdmitSign,
       G!SignDone, G!AdmitPost, G!WorkerEnds, G!Authenticate, G!Prepare, G!Confirm
<1> QED BY <1>1, <1>2, <1>3 DEF G!Next

(* What becomes of a task in a step: it starts, advances, ends or stays. *)
LEMMA TaskSteps ==
  ASSUME GateTyped, G!Next, NEW t \in Tasks
  PROVE  /\ task'[t] \in TaskState
         /\ task'[t] = task[t] \/ Starts(t) \/ Continues(t) \/ Ends(t)
<1>0. /\ task \in [Tasks -> TaskState] /\ task[t] \in TaskState
      /\ store \in [Runtimes -> StoreState] /\ review \in [Runtimes -> Nat]
      /\ \A k \in Runtimes : DOMAIN store[k].flags \subseteq Nat
  BY FlagsFunction DEF GateTyped, StoreState
<1>1. ASSUME task'[t] = G!NoTask PROVE task'[t] \in TaskState /\ Ends(t)
  BY <1>1, NobodysTask DEF Ends
<1>2. CASE G!Enter(t)
  <2>1. task[t].phase = "asked" /\ UNCHANGED <<pairings, store, server>>
        /\ task'[t] \in {G!NoTask, [task[t] EXCEPT !.phase = "entering", !.method = TRUE]}
    BY <1>0, <1>2 DEF G!Enter
  <2> QED BY <1>0, <1>1, <2>1 DEF TaskState, Continues, Alive
<1>3. CASE G!Run(t)
  <2>1. task[t].phase = "entering" /\ UNCHANGED <<pairings, store, server>> /\ server[task[t].of].up
        /\ task'[t] = [task[t] EXCEPT !.phase = "running"]
    BY <1>0, <1>3 DEF G!Run, G!Proceed, G!Interrupted
  <2> QED BY <1>0, <2>1 DEF TaskState, Continues, Alive
<1>4. CASE G!CancelCall(t)
  <2>1. UNCHANGED <<pairings, store, server>> /\ task'[t] = [task[t] EXCEPT !.cancelled = TRUE]
    BY <1>0, <1>4 DEF G!CancelCall
  <2>2. CASE Alive(t)
    BY <1>0, <2>1, <2>2 DEF TaskState, Continues, Alive
  <2>3. CASE ~Alive(t)
    BY <1>0, <2>1, <2>3 DEF TaskState, Ends, Alive
  <2> QED BY <2>2, <2>3
<1>5. CASE G!Exit(t)
  <2>1. UNCHANGED <<pairings, store, server>>
        /\ task'[t] \in {G!NoTask, [task[t] EXCEPT !.method = FALSE, !.cancelled = TRUE]}
    BY <1>0, <1>5 DEF G!Exit
  <2>2. CASE Alive(t)
    BY <1>0, <1>1, <2>1, <2>2 DEF TaskState, Continues, Alive
  <2>3. CASE ~Alive(t)
    BY <1>0, <1>1, <2>1, <2>3 DEF TaskState, Ends, Alive
  <2> QED BY <2>2, <2>3
<1>6. CASE G!Reviewed(t) \/ G!WorkerEnds(t)
  BY <1>0, <1>1, <1>6 DEF G!Reviewed, G!WorkerEnds
<1>7. CASE G!Decide(t)
  <2>1. task[t].phase = "running" /\ UNCHANGED <<pairings, store, server>>
        /\ task'[t] = [task[t] EXCEPT !.phase = "decided", !.worker = TRUE]
    BY <1>0, <1>7 DEF G!Decide
  <2> QED BY <1>0, <2>1 DEF TaskState, Continues, Alive
<1>8. CASE G!AdmitSign(t) \/ G!AdmitPost(t)
  <2>1. task[t].phase \in {"decided", "signed"} /\ G!Admitted(t) /\ UNCHANGED <<pairings, store, server>>
        /\ task'[t] \in {[task[t] EXCEPT !.phase = "signing"], [task[t] EXCEPT !.phase = "posting"]}
    BY <1>0, <1>8 DEF G!AdmitSign, G!AdmitPost
  <2> QED BY <1>0, <2>1 DEF TaskState, Continues, Alive
<1>9. CASE G!SignDone(t)
  <2>1. task[t].phase = "signing" /\ UNCHANGED <<pairings, store, server>>
        /\ task'[t] = [task[t] EXCEPT !.phase = "signed"]
    BY <1>0, <1>9 DEF G!SignDone
  <2> QED BY <1>0, <2>1 DEF TaskState, Continues, Alive
<1>10. ASSUME NEW k \in Runtimes, NEW id, G!Authenticate(t, k, id)
       PROVE  task'[t] \in TaskState /\ Starts(t)
  <2>1. task'[t] = [G!NoTask EXCEPT !.phase = "asked", !.of = k, !.id = id]
    BY <1>0, <1>10 DEF G!Authenticate
  <2>0. ~Alive(t) /\ store[k].open /\ id \in DOMAIN store[k].flags /\ UNCHANGED <<pairings, store, server>>
    BY <1>10 DEF G!Authenticate, G!CheckAuthority, G!Readable, G!Unrevoked, Alive
  <2>2. id \in Nat
    BY <1>0, <2>0
  <2>3. task'[t] = [phase |-> "asked", of |-> k, id |-> id, native |-> FALSE, pinned |-> 0,
                     method |-> FALSE, worker |-> FALSE, cancelled |-> FALSE]
    BY <2>1 DEF G!NoTask
  <2>4. /\ task'[t] \in TaskState /\ task'[t].of = k /\ task'[t].id = id
        /\ task'[t].phase = "asked" /\ task'[t].pinned = 0
    BY <2>2, <2>3 DEF TaskState
  <2>5. task'[t].id \in DOMAIN store[k].flags /\ task'[t].pinned \in {0, task'[t].id}
    BY <2>0, <2>4
  <2> QED BY <2>0, <2>4, <2>5 DEF Starts
<1>11. ASSUME NEW k \in Runtimes, NEW b \in Bindings, G!Prepare(t, k, b)
       PROVE  task'[t] \in TaskState /\ Starts(t)
  <2>1. PICK id \in G!OperatorAuthority(k, b) :
          task'[t] = [G!NoTask EXCEPT !.phase = "preparing", !.of = k, !.id = id, !.native = TRUE]
    BY <1>0, <1>11 DEF G!Prepare
  <2>2. ~Alive(t) /\ store[k].open /\ server[k].up /\ UNCHANGED <<pairings, store, server>>
    BY <1>11 DEF G!Prepare, G!Readable, Alive
  <2>3. id \in DOMAIN store[k].flags /\ id \in Nat
    BY <1>0 DEF G!OperatorAuthority
  <2>4. task'[t] = [phase |-> "preparing", of |-> k, id |-> id, native |-> TRUE, pinned |-> 0,
                     method |-> FALSE, worker |-> FALSE, cancelled |-> FALSE]
    BY <2>1 DEF G!NoTask
  <2>5. /\ task'[t] \in TaskState /\ task'[t].of = k /\ task'[t].id = id
        /\ task'[t].phase = "preparing" /\ task'[t].pinned = 0
    BY <2>3, <2>4 DEF TaskState
  <2>6. task'[t].id \in DOMAIN store[k].flags /\ task'[t].pinned \in {0, task'[t].id}
    BY <2>5, <2>1, <2>2, <2>3
  <2> QED BY <2>1, <2>2, <2>3, <2>5, <2>6 DEF Starts
<1>12. ASSUME NEW k \in Runtimes, G!Confirm(t, k)
       PROVE  task'[t] \in TaskState /\ Starts(t)
  <2> DEFINE id == review[k]
  <2>1. task'[t] = [G!NoTask EXCEPT !.phase = "running", !.of = k, !.id = id, !.native = TRUE, !.pinned = id]
    BY <1>0, <1>12 DEF G!Confirm, G!Pinned
  <2>0. /\ id \in DOMAIN store[k].flags /\ ~Alive(t) /\ store[k].open /\ server[k].up
        /\ UNCHANGED <<pairings, store, server>>
    BY <1>12 DEF G!Confirm, G!Pinned, G!CheckAuthority, G!Readable, G!Unrevoked, Alive
  <2>2. id \in Nat
    BY <1>0
  <2> HIDE DEF id
  <2>3. task'[t] = [phase |-> "running", of |-> k, id |-> id, native |-> TRUE, pinned |-> id,
                     method |-> FALSE, worker |-> FALSE, cancelled |-> FALSE]
    BY <2>1 DEF G!NoTask
  <2>4. /\ task'[t] \in TaskState /\ task'[t].of = k /\ task'[t].id = id
        /\ task'[t].phase = "running" /\ task'[t].pinned = id
    BY <2>2, <2>3 DEF TaskState
  <2>5. task'[t].id \in DOMAIN store[k].flags /\ task'[t].pinned \in {0, task'[t].id}
    BY <2>0, <2>4
  <2> QED BY <2>0, <2>4, <2>5 DEF Starts
<1> QED
  BY <1>0, <1>1, <1>2, <1>3, <1>4, <1>5, <1>6, <1>7, <1>8, <1>9, <1>10, <1>11, <1>12, TaskMoves DEF G!TaskStep

(* Steps change entries of the tables and nothing else. *)
LEMMA TablesStay ==
  ASSUME GateTyped, G!Next
  PROVE  /\ store' = [k \in Runtimes |-> store'[k]]
         /\ task' = [t \in Tasks |-> task'[t]]
<1>1. ASSUME NEW k \in Runtimes, G!Runtime(k)
      PROVE  store' = [j \in Runtimes |-> store'[j]]
  BY <1>1 DEF GateTyped, G!Runtime, G!Open, G!Commit, G!Publish, G!Abandon, G!Issue, G!Revoke, G!Begin, G!Serve,
       G!CloseNative, G!Stop, G!SupervisorEnds, G!CloseConnections, G!Returned, G!DropStore, G!Crash, G!DiscardReview
<1>2. ASSUME NEW k \in Runtimes, G!Runtime(k)
      PROVE  task' = [t \in Tasks |-> task'[t]]
  BY <1>2 DEF GateTyped, G!Runtime, G!Open, G!Commit, G!Publish, G!Abandon, G!Issue, G!Revoke, G!Begin, G!Serve,
       G!CloseNative, G!Stop, G!SupervisorEnds, G!CloseConnections, G!Returned, G!DropStore, G!Crash, G!DiscardReview
<1>3. ASSUME NEW t \in Tasks, G!TaskStep(t)
      PROVE  UNCHANGED store /\ task' = [u \in Tasks |-> task'[u]]
  BY <1>3 DEF GateTyped, G!TaskStep, G!Enter, G!Run, G!CancelCall, G!Exit, G!Reviewed, G!Decide, G!AdmitSign,
       G!SignDone, G!AdmitPost, G!WorkerEnds, G!Authenticate, G!Prepare, G!Confirm
<1> QED BY <1>1, <1>2, <1>3 DEF G!Next, GateTyped

(* What a step does to a listener: only serve brings it up, and only a      *)
(* drained one, or one that is dropped or dies, goes down.                  *)
LEMMA ServerSteps ==
  ASSUME GateTyped, G!Next
  PROVE  /\ server' \in [Runtimes -> ServerState]
         /\ \A k \in Runtimes : \/ server'[k].up = server[k].up
                                \/ server'[k].up
                                \/ G!Returned(k) \/ G!DropStore(k) \/ G!Crash(k)
<1>0. server \in [Runtimes -> ServerState] /\ G!NoServer \in ServerState
  BY DEF GateTyped, G!NoServer, ServerState
<1>1. ASSUME NEW k \in Runtimes, G!Serve(k)
      PROVE  server' \in [Runtimes -> ServerState] /\ \A j \in Runtimes : server'[j].up \/ server'[j].up = server[j].up
  <2> DEFINE serving == [up |-> TRUE, started |-> TRUE, native |-> TRUE, shutdown |-> FALSE,
                         supervisor |-> TRUE, accepting |-> TRUE]
  <2>1. server' = [server EXCEPT ![k] = serving]
    BY <1>1 DEF G!Serve
  <2>2. serving \in ServerState /\ serving.up
    BY DEF ServerState
  <2> HIDE DEF serving
  <2> QED BY <1>0, <2>1, <2>2
<1>2. ASSUME NEW k \in Runtimes,
             G!CloseNative(k) \/ G!Stop(k) \/ G!SupervisorEnds(k) \/ G!CloseConnections(k)
      PROVE  server' \in [Runtimes -> ServerState] /\ \A j \in Runtimes : server'[j].up = server[j].up
  <2>1. \/ server' = [server EXCEPT ![k].native = FALSE]
        \/ server' = [server EXCEPT ![k].native = FALSE, ![k].shutdown = TRUE]
        \/ server' = [server EXCEPT ![k].supervisor = FALSE, ![k].native = FALSE, ![k].shutdown = TRUE]
        \/ server' = [server EXCEPT ![k].accepting = FALSE]
    BY <1>2 DEF G!CloseNative, G!Stop, G!SupervisorEnds, G!CloseConnections
  <2>2. PICK new \in {[server[k] EXCEPT !.native = FALSE],
                     [server[k] EXCEPT !.native = FALSE, !.shutdown = TRUE],
                     [server[k] EXCEPT !.supervisor = FALSE, !.native = FALSE, !.shutdown = TRUE],
                     [server[k] EXCEPT !.accepting = FALSE]} : server' = [server EXCEPT ![k] = new]
    BY <1>0, <2>1
  <2>3. new \in ServerState /\ new.up = server[k].up
    BY <1>0, <2>2 DEF ServerState
  <2> QED BY <1>0, <2>2, <2>3
<1>3. ASSUME NEW k \in Runtimes, G!Returned(k)
      PROVE  server' \in [Runtimes -> ServerState] /\ \A j \in Runtimes : j = k \/ server'[j].up = server[j].up
  BY <1>0, <1>3 DEF G!Returned, ServerState
<1>4. ASSUME NEW k \in Runtimes, G!DropStore(k) \/ G!Crash(k)
      PROVE  server' \in [Runtimes -> ServerState] /\ \A j \in Runtimes : j = k \/ server'[j] = server[j]
  BY <1>0, <1>4 DEF G!DropStore, G!Crash
<1>5. ASSUME NEW k \in Runtimes,
             G!Open(k) \/ G!Commit(k) \/ G!Publish(k) \/ G!Abandon(k) \/ G!DiscardReview(k)
             \/ (\E b \in Bindings : G!Issue(k, b)) \/ (\E id \in G!Ids : G!Revoke(k, id))
      PROVE  UNCHANGED server
  BY <1>5 DEF G!Open, G!Commit, G!Publish, G!Abandon, G!DiscardReview, G!Issue, G!Revoke, G!Begin
<1>6. ASSUME NEW t \in Tasks, G!TaskStep(t) PROVE UNCHANGED server
  BY <1>6 DEF G!TaskStep, G!Enter, G!Run, G!CancelCall, G!Exit, G!Reviewed, G!Decide, G!AdmitSign, G!SignDone,
       G!AdmitPost, G!WorkerEnds, G!Authenticate, G!Prepare, G!Confirm
<1> QED BY <1>0, <1>1, <1>2, <1>3, <1>4, <1>5, <1>6 DEF G!Next, G!Runtime

(* A review is retained only by a runtime that has a task. *)
LEMMA ReviewSteps ==
  ASSUME GateTyped, OneOwner, G!Next
  PROVE  /\ review' \in [Runtimes -> Nat]
         /\ \A k \in Runtimes : review'[k] # 0 => G!HoldsLease(k)
<1>0. review \in [Runtimes -> Nat] /\ task \in [Tasks -> TaskState]
  BY DEF GateTyped
<1>1. \A k \in Runtimes : review[k] # 0 => G!HoldsLease(k)
  BY DEF G!HoldsLease
<1>2. ASSUME NEW t \in Tasks, G!Reviewed(t)
      PROVE  review' \in [Runtimes -> Nat] /\ \A k \in Runtimes : review'[k] # 0 => G!HoldsLease(k)
  <2> DEFINE k == task[t].of
  <2>1. k \in Runtimes /\ t \in G!TasksOf(k) /\ task[t].id \in Nat
    BY <1>0, <1>2 DEF OneOwner, Alive, G!Reviewed, G!TasksOf, TaskState
  <2>2. \E n \in Nat : review' = [review EXCEPT ![k] = n]
    BY <1>0, <1>2, <2>1 DEF G!Reviewed
  <2> HIDE DEF k
  <2>3. G!HoldsLease(k)
    BY <2>1 DEF G!HoldsLease
  <2> QED BY <1>0, <1>1, <2>1, <2>2, <2>3
<1>3. ASSUME NEW k \in Runtimes, review' = [review EXCEPT ![k] = 0]
      PROVE  review' \in [Runtimes -> Nat] /\ \A j \in Runtimes : review'[j] # 0 => G!HoldsLease(j)
  BY <1>0, <1>1, <1>3
<1>4. ASSUME NEW k \in Runtimes, G!Runtime(k) PROVE UNCHANGED review \/ review' = [review EXCEPT ![k] = 0]
  BY <1>4 DEF G!Runtime, G!Open, G!Commit, G!Publish, G!Abandon, G!Issue, G!Revoke, G!Begin, G!Serve, G!CloseNative,
       G!Stop, G!SupervisorEnds, G!CloseConnections, G!Returned, G!DropStore, G!Crash, G!DiscardReview
<1>5. ASSUME NEW t \in Tasks, G!TaskStep(t)
      PROVE  UNCHANGED review \/ G!Reviewed(t) \/ (\E k \in Runtimes : review' = [review EXCEPT ![k] = 0])
  BY <1>5 DEF G!TaskStep, G!Enter, G!Run, G!CancelCall, G!Exit, G!Decide, G!AdmitSign, G!SignDone,
       G!AdmitPost, G!WorkerEnds, G!Authenticate, G!Prepare, G!Confirm
<1> QED BY <1>0, <1>1, <1>2, <1>3, <1>4, <1>5 DEF G!Next

(* A signature is of a task that is signing. *)
LEMMA SignedSteps ==
  ASSUME G!Next
  PROVE  \/ UNCHANGED signed
         \/ \E t \in Tasks : /\ task[t].phase = "signing" /\ UNCHANGED <<pairings, store>>
                             /\ signed' = signed \cup {[id |-> task[t].id, pinned |-> task[t].pinned]}
<1>1. ASSUME NEW k \in Runtimes, G!Runtime(k) PROVE UNCHANGED signed
  BY <1>1 DEF G!Runtime, G!Open, G!Commit, G!Publish, G!Abandon, G!Issue, G!Revoke, G!Begin, G!Serve, G!CloseNative,
       G!Stop, G!SupervisorEnds, G!CloseConnections, G!Returned, G!DropStore, G!Crash, G!DiscardReview
<1>2. ASSUME NEW t \in Tasks, G!TaskStep(t) PROVE UNCHANGED signed \/ G!SignDone(t)
  BY <1>2 DEF G!TaskStep, G!Enter, G!Run, G!CancelCall, G!Exit, G!Reviewed, G!Decide, G!AdmitSign,
       G!AdmitPost, G!WorkerEnds, G!Authenticate, G!Prepare, G!Confirm
<1> QED BY <1>1, <1>2 DEF G!Next, G!SignDone

(* The types are kept by every step. *)
LEMMA GateTypeStep ==
  ASSUME GateTyped, OneOwner, WriterAlone, G!Next
  PROVE  GateTyped'
<1>1. store' \in [Runtimes -> StoreState]
  BY StoreSteps, TablesStay
<1>2. task' \in [Tasks -> TaskState]
  BY TaskSteps, TablesStay
<1>3. signed' \subseteq [id : Nat, pinned : Nat]
  <2>1. \A t \in Tasks : [id |-> task[t].id, pinned |-> task[t].pinned] \in [id : Nat, pinned : Nat]
    BY DEF GateTyped, TaskState
  <2> QED BY <2>1, SignedSteps DEF GateTyped
<1> QED BY <1>1, <1>2, <1>3, PairingsGrow, ServerSteps, ReviewSteps DEF GateTyped

-----------------------------------------------------------------------------
(* The owner's lease *)

(* The runtime of a task holds the lease, and no other store is open. *)
LEMMA OwnerOf ==
  ASSUME OneOwner, NEW t \in Tasks, Alive(t)
  PROVE  /\ task[t].of \in Runtimes /\ t \in G!TasksOf(task[t].of)
         /\ G!HoldsLease(task[t].of)
         /\ \A k \in Runtimes : store[k].open => k = task[t].of
<1>1. task[t].of \in Runtimes /\ t \in G!TasksOf(task[t].of)
  BY DEF OneOwner, Alive, G!TasksOf
<1>2. G!HoldsLease(task[t].of)
  BY <1>1 DEF G!HoldsLease
<1> QED BY <1>1, <1>2 DEF OneOwner, G!HoldsLease

(* A lease is taken only by opening a store, when nobody has it. *)
LEMMA LeaseSteps ==
  ASSUME GateTyped, OneOwner, WriterAlone, G!Next, NEW k \in Runtimes, G!HoldsLease(k)'
  PROVE  G!HoldsLease(k) \/ Opens(k)
<1>1. CASE store'[k].open
  BY <1>1, StoreSteps DEF G!HoldsLease, Begins, Commits, Publishes, Abandons, Drops
<1>2. ASSUME NEW t \in G!TasksOf(k)' PROVE G!HoldsLease(k)
  <2>1. t \in Tasks /\ task'[t].phase # "none" /\ task'[t].of = k
    BY DEF G!TasksOf
  <2>2. CASE task'[t] = task[t] \/ Continues(t)
    <3>1. t \in G!TasksOf(k)
      BY <2>1, <2>2 DEF G!TasksOf, Continues, Alive
    <3> QED BY <3>1 DEF G!HoldsLease
  <2>3. CASE Starts(t)
    BY <2>1, <2>3 DEF Starts, G!HoldsLease
  <2> QED BY <2>1, <2>2, <2>3, TaskSteps DEF Ends
<1>3. CASE review'[k] # 0
  BY <1>3, ReviewSteps
<1> QED BY <1>1, <1>2, <1>3 DEF G!HoldsLease

(* Opening needs a free lease and gives it to one runtime. *)
LEMMA OpensAlone ==
  ASSUME GateTyped, NEW k \in Runtimes, Opens(k)
  PROVE  /\ \A j \in Runtimes : ~G!HoldsLease(j)
         /\ \A j \in Runtimes : Opens(j) => j = k
<1>1. \A j \in Runtimes : ~G!HoldsLease(j)
  BY DEF Opens, G!Open
<1>2. \A j \in Runtimes : j # k => store'[j] = store[j]
  BY DEF Opens, G!Open, GateTyped
<1> QED BY <1>1, <1>2 DEF Opens, G!HoldsLease

(* One owner stays one owner. *)
LEMMA OwnerStep ==
  ASSUME GateTyped, OneOwner, WriterAlone, G!Next
  PROVE  OneOwner'
<1>1. ASSUME NEW k \in Runtimes, NEW j \in Runtimes, G!HoldsLease(k)', G!HoldsLease(j)' PROVE k = j
  <2>1. G!HoldsLease(k) \/ Opens(k)
    BY <1>1, LeaseSteps
  <2>2. G!HoldsLease(j) \/ Opens(j)
    BY <1>1, LeaseSteps
  <2> QED BY <2>1, <2>2, OpensAlone DEF OneOwner
<1>2. ASSUME NEW t \in Tasks, Alive(t)' PROVE task'[t].of \in Runtimes
  BY <1>2, TaskSteps DEF OneOwner, Alive, Starts, Continues, Ends
<1> QED BY <1>1, <1>2 DEF OneOwner

(* A commit is made by the one store that is open. *)
LEMMA CommitSteps ==
  ASSUME GateTyped, OneOwner, WriterAlone, NEW k \in Runtimes, G!Commit(k), G!Next
  PROVE  /\ Commits(k) /\ store[k].open /\ ~store[k].mutation.committed /\ UNCHANGED <<server, task, review, signed>>
         /\ \A j \in Runtimes : store[j].open => j = k
         /\ \A j \in Runtimes : store'[j].open = store[j].open
         /\ \A t \in Tasks : task[t].phase \notin {"signing", "posting"}
<1>1. /\ store[k].open /\ ~store[k].mutation.committed /\ UNCHANGED <<server, task, review, signed>> /\ G!Writing(k)
  BY DEF G!Commit, WriterAlone
<1>2. \A j \in Runtimes : store[j].open => j = k
  BY <1>1 DEF OneOwner, G!HoldsLease
<1>3. store'[k].mutation.committed /\ store'[k].open = store[k].open
      /\ \A j \in Runtimes : j # k => store'[j] = store[j]
  <2>1. store[k] \in StoreState /\ store \in [Runtimes -> StoreState] /\ store[k].mutation \in Mutation
    BY DEF GateTyped, StoreState
  <2> DEFINE m == [store[k].mutation EXCEPT !.committed = TRUE]
  <2>2. store' = [store EXCEPT ![k].mutation = m] /\ m.committed
    BY <2>1 DEF G!Commit, Mutation
  <2> HIDE DEF m
  <2> QED BY <2>1, <2>2 DEF StoreState
<1>4. Commits(k)
  <2>1. store'[k] # store[k]
    BY <1>1, <1>3
  <2>2. store'[k].mutation # G!NoMutation
    BY <1>3 DEF G!NoMutation
  <2> QED BY <1>1, <1>3, <2>1, <2>2, StoreSteps DEF Opens, Begins, Publishes, Abandons, Drops
<1>5. \A t \in Tasks : task[t].phase \notin {"signing", "posting"}
  <2> SUFFICES ASSUME NEW t \in Tasks, task[t].phase \in {"signing", "posting"} PROVE FALSE
    OBVIOUS
  <2>1. t \in G!TasksOf(k)
    BY <1>1, OwnerOf DEF Alive
  <2> QED BY <1>1, <2>1 DEF WriterAlone, G!Reading
<1> QED BY <1>1, <1>2, <1>3, <1>4, <1>5

-----------------------------------------------------------------------------
(* What tasks and stores know *)

(* Tasks and signatures keep a pairing that was issued. *)
LEMMA IdsStep ==
  ASSUME GateTyped, OneOwner, IdsFit, StoreKnows, WriterAlone, G!Next
  PROVE  IdsFit'
<1>1. G!Ids \subseteq G!Ids'
  BY PairingsGrow
<1>2. ASSUME NEW t \in Tasks, Alive(t)'
      PROVE  task'[t].id \in G!Ids /\ task'[t].pinned \in {0, task'[t].id}
  BY <1>2, TaskSteps DEF IdsFit, StoreKnows, Alive, Starts, Continues, Ends
<1>3. ASSUME NEW x \in signed' PROVE x.id \in G!Ids /\ x.pinned \in {0, x.id}
  BY SignedSteps DEF IdsFit, Alive
<1> QED BY <1>1, <1>2, <1>3 DEF IdsFit

(* An open store keeps knowing them, since a store opens from all pairings. *)
LEMMA KnowsStep ==
  ASSUME GateTyped, OneOwner, IdsFit, StoreKnows, WriterAlone, G!Next
  PROVE  StoreKnows'
<1> SUFFICES ASSUME NEW k \in Runtimes, store'[k].open
             PROVE  /\ DOMAIN store'[k].flags \subseteq G!Ids'
                    /\ \A t \in Tasks : task'[t].phase # "none" => task'[t].id \in DOMAIN store'[k].flags
                    /\ \A x \in signed' : x.id \in DOMAIN store'[k].flags
  BY DEF StoreKnows, Alive
<1>1. G!Ids \subseteq G!Ids'
  BY PairingsGrow
<1>2. CASE Opens(k)
  <2>1. DOMAIN store'[k].flags = G!Ids
    BY <1>2 DEF Opens
  <2>2. \A t \in Tasks : ~Alive(t)
    BY <1>2, OpensAlone, OwnerOf
  <2>3. \A t \in Tasks : ~Starts(t) /\ ~Continues(t)
    BY <1>2, <2>2, OpensAlone DEF Starts, Continues, G!HoldsLease
  <2>4. \A t \in Tasks : task'[t].phase = "none"
    BY <2>2, <2>3, TaskSteps DEF Alive, Ends
  <2>5. UNCHANGED signed
    BY <2>2, SignedSteps DEF Alive
  <2> QED BY <1>1, <2>1, <2>4, <2>5 DEF IdsFit
<1>3. CASE store[k].open
  <2>1. DOMAIN store[k].flags \subseteq DOMAIN store'[k].flags /\ DOMAIN store'[k].flags \subseteq G!Ids
    <3>1. CASE store'[k].flags = store[k].flags
      BY <1>3, <3>1 DEF StoreKnows
    <3>2. CASE Opens(k)
      BY <1>3, <3>2, OpensAlone DEF G!HoldsLease
    <3>3. CASE Publishes(k)
      <4>1. Published(k) \in G!Ids
        BY <3>3 DEF Publishes, G!Publish, G!Writing, WriterAlone, Published, G!Ids, GateTyped, StoreState, Mutation
      <4> QED BY <1>3, <3>3, <4>1 DEF Publishes, StoreKnows
    <3>4. CASE Abandons(k)
      BY <1>3, <3>4 DEF Abandons, StoreKnows
    <3> QED BY <3>1, <3>2, <3>3, <3>4, StoreSteps DEF Begins, Commits, Drops
  <2>2. ASSUME NEW t \in Tasks, task'[t].phase # "none" PROVE task'[t].id \in DOMAIN store[k].flags
    <3>1. CASE Starts(t)
      BY <1>3, <3>1 DEF Starts, OneOwner, G!HoldsLease
    <3> QED BY <1>3, <2>2, <3>1, TaskSteps DEF StoreKnows, Alive, Continues, Ends
  <2>3. ASSUME NEW x \in signed' PROVE x.id \in DOMAIN store[k].flags
    BY <1>3, SignedSteps DEF StoreKnows, Alive
  <2> QED BY <1>1, <2>1, <2>2, <2>3
<1> QED BY <1>2, <1>3, StoreSteps DEF Begins, Commits, Publishes, Abandons, Drops

(* Nothing begins to read while the store is written, and the reverse. *)
LEMMA WriterStep ==
  ASSUME GateTyped, OneOwner, WriterAlone, G!Next
  PROVE  WriterAlone'
<1> SUFFICES ASSUME NEW k \in Runtimes, store'[k].mutation.op # "none"
             PROVE  /\ store'[k].open /\ ~G!Reading(k)'
                    /\ store'[k].mutation.op = "revoke" => store'[k].mutation.of \in G!Ids'
                    /\ store'[k].mutation.op = "issue" =>
                         /\ store'[k].mutation.of \in Bindings
                         /\ store'[k].mutation.committed =>
                              Len(pairings') > 0 /\ ~pairings'[Len(pairings')].revoked
  BY DEF WriterAlone, G!Writing
<1>1. G!Ids \subseteq G!Ids'
  BY PairingsGrow
<1>2. (store'[k] = store[k] /\ G!Writing(k)) \/ Begins(k) \/ (Commits(k) /\ G!Writing(k))
  BY StoreSteps, NothingHeld DEF Opens, Publishes, Abandons, Drops, G!Writing, Commits, G!Commit
<1>3. ~G!Reading(k) /\ store'[k].open
  BY <1>2 DEF WriterAlone, Begins, Commits
<1>4. ~G!Reading(k)'
  <2> SUFFICES ASSUME NEW t \in Tasks, task'[t].phase \in {"signing", "posting"}, task'[t].of = k PROVE FALSE
    BY DEF G!Reading, G!TasksOf
  <2>1. ~(task[t].phase \in {"signing", "posting"} /\ task[t].of = k)
    BY <1>3 DEF G!Reading, G!TasksOf
  <2>2. CASE Continues(t)
    <3>1. G!Admitted(t) /\ task[t].of = k /\ UNCHANGED store
      BY <2>1, <2>2 DEF Continues
    <3> QED BY <3>1 DEF G!Admitted, G!CheckAuthority, G!Readable, G!Writing
  <2> QED BY <2>1, <2>2, TaskSteps DEF Starts, Ends
<1>5. store'[k].mutation.op = "revoke" => store'[k].mutation.of \in G!Ids'
  BY <1>1, <1>2 DEF WriterAlone, Begins, Commits
<1>6. store'[k].mutation.op = "issue" => store'[k].mutation.of \in Bindings
  BY <1>2 DEF WriterAlone, Begins, Commits
<1>7. ASSUME store'[k].mutation.op = "issue", store'[k].mutation.committed
      PROVE  Len(pairings') > 0 /\ ~pairings'[Len(pairings')].revoked
  <2>1. CASE Commits(k)
    <3>1. pairings' = Append(pairings, [binding |-> store[k].mutation.of, revoked |-> FALSE])
      BY <1>7, <2>1 DEF Commits, G!Commit
    <3>2. pairings \in Seq(Pairing)
      BY DEF GateTyped
    <3>3. [binding |-> store[k].mutation.of, revoked |-> FALSE] \in Pairing
      BY <1>6, <1>7, <2>1 DEF Commits, Pairing
    <3> QED BY <3>1, <3>2, <3>3
  <2>2. CASE store'[k] = store[k] /\ G!Writing(k)
    <3>1. UNCHANGED pairings
      <4>1. ASSUME NEW j \in Runtimes, G!Commit(j) PROVE FALSE
        BY <1>7, <2>2, <4>1, CommitSteps DEF WriterAlone
      <4> QED BY <4>1, PairingMoves
    <3> QED BY <1>7, <2>2, <3>1 DEF WriterAlone
  <2> QED BY <1>2, <1>7, <2>1, <2>2 DEF Begins
<1> QED BY <1>3, <1>4, <1>5, <1>6, <1>7

(* A flag goes down only for a new pairing, and up before anybody reads. *)
LEMMA FlagsStep ==
  ASSUME GateTyped, OneOwner, StoreKnows, WriterAlone, FlagsRight, G!Next
  PROVE  FlagsRight'
<1> SUFFICES ASSUME NEW k \in Runtimes, store'[k].open, NEW i \in DOMAIN store'[k].flags,
                    ~store'[k].flags[i], pairings'[i].revoked
             PROVE  store'[k].mutation.op = "revoke" /\ store'[k].mutation.of = i /\ store'[k].mutation.committed
  BY DEF FlagsRight
<1>1. CASE UNCHANGED pairings
  <2>1. CASE store'[k] = store[k]
    BY <1>1, <2>1 DEF FlagsRight
  <2>2. CASE Opens(k)
    BY <1>1, <2>2 DEF Opens
  <2>3. CASE Begins(k)
    BY <1>1, <2>3 DEF Begins, FlagsRight, G!Writing
  <2>4. CASE Commits(k)
    BY <1>1, <2>4 DEF Commits, FlagsRight
  <2>5. CASE Publishes(k)
    <3>1. /\ store[k].open /\ G!Writing(k) /\ store[k].mutation.committed
          /\ store[k].mutation.op \in {"issue", "revoke"}
      BY <2>5 DEF Publishes, G!Publish, G!Writing, GateTyped, StoreState, Mutation
    <3>2. CASE i = Published(k)
      BY <1>1, <2>5, <3>1, <3>2 DEF Publishes, Published, WriterAlone
    <3>3. CASE i # Published(k)
      BY <1>1, <2>5, <3>1, <3>3 DEF Publishes, Published, FlagsRight
    <3> QED BY <3>2, <3>3
  <2>6. CASE Abandons(k)
    BY <2>6 DEF Abandons
  <2> QED BY <2>1, <2>2, <2>3, <2>4, <2>5, <2>6, StoreSteps DEF Drops
<1>2. ASSUME NEW j \in Runtimes, G!Commit(j)
      PROVE  store'[k].mutation.op = "revoke" /\ store'[k].mutation.of = i /\ store'[k].mutation.committed
  <2>1. j = k /\ Commits(k) /\ store[k].open /\ ~store[k].mutation.committed
    BY <1>2, CommitSteps
  <2>2. i \in DOMAIN store[k].flags /\ i \in G!Ids /\ ~store[k].flags[i] /\ ~pairings[i].revoked
    BY <2>1 DEF Commits, StoreKnows, FlagsRight
  <2>3. /\ G!Writing(k) /\ store[k].mutation.op \in {"issue", "revoke"}
        /\ pairings' = IF store[k].mutation.op = "issue"
                       THEN Append(pairings, [binding |-> store[k].mutation.of, revoked |-> FALSE])
                       ELSE [pairings EXCEPT ![store[k].mutation.of].revoked = TRUE]
    BY <1>2, <2>1 DEF G!Commit, G!Writing, GateTyped, StoreState, Mutation
  <2>4. pairings \in Seq(Pairing) /\ i \in 1..Len(pairings)
    BY <2>2 DEF GateTyped, G!Ids
  <2>5. CASE store[k].mutation.op = "issue"
    <3>1. [binding |-> store[k].mutation.of, revoked |-> FALSE] \in Pairing
      BY <2>3, <2>5 DEF WriterAlone, Pairing
    <3>2. pairings'[i] = pairings[i]
      BY <2>3, <2>4, <2>5, <3>1
    <3> QED BY <2>2, <3>2
  <2>6. CASE store[k].mutation.op = "revoke"
    <3>1. i # store[k].mutation.of => pairings'[i] = pairings[i]
      BY <2>3, <2>4, <2>6
    <3> QED BY <2>1, <2>2, <2>6, <3>1 DEF Commits
  <2> QED BY <2>3, <2>5, <2>6
<1> QED BY <1>1, <1>2, PairingMoves

-----------------------------------------------------------------------------
(* The listener's end, and signatures *)

(* A listener goes down when its tasks are gone or have not entered. *)
LEMMA IdleStep ==
  ASSUME GateTyped, OneOwner, IdleBelow, G!Next
  PROVE  IdleBelow'
<1> SUFFICES ASSUME NEW t \in Tasks, task'[t].phase # "none", ~server'[task'[t].of].up
             PROVE  task'[t].phase \in {"asked", "entering"}
  BY DEF IdleBelow, Alive
<1>1. CASE Starts(t)
  BY <1>1 DEF Starts
<1>2. CASE Continues(t)
  BY <1>2 DEF Continues, IdleBelow
<1>3. CASE task'[t] = task[t]
  <2> DEFINE k == task[t].of
  <2>1. k \in Runtimes /\ t \in G!TasksOf(k) /\ Alive(t)
    BY <1>3, OwnerOf DEF Alive
  <2>2. CASE server'[k].up = server[k].up
    BY <1>3, <2>1, <2>2 DEF IdleBelow
  <2>3. CASE G!Returned(k)
    BY <1>3, <2>1, <2>3 DEF G!Returned, G!Drained, G!Registered, Alive
  <2>4. CASE G!DropStore(k)
    BY <1>3, <2>1, <2>4 DEF G!DropStore, IdleBelow
  <2>5. CASE G!Crash(k)
    <3>1. task'[t] = G!NoTask
      BY <2>1, <2>5 DEF G!Crash
    <3> QED BY <3>1, NobodysTask
  <2> QED BY <1>3, <2>1, <2>2, <2>3, <2>4, <2>5, ServerSteps
<1> QED BY <1>1, <1>2, <1>3, TaskSteps DEF Ends

(* Nothing starts to sign under a pairing that is revoked, and a         *)
(* revocation commits when nothing signs.                                  *)
LEMMA RevokedStep ==
  ASSUME GateTyped, OneOwner, WriterAlone, FlagsRight, NoneRevoked, G!Next
  PROVE  NoneRevoked'
<1> SUFFICES ASSUME NEW t \in Tasks, task'[t].phase \in {"signing", "posting"}
             PROVE  ~pairings'[task'[t].id].revoked
  BY DEF NoneRevoked
<1>1. CASE Continues(t) /\ task[t].phase \notin {"signing", "posting"}
  <2>1. G!Admitted(t) /\ task[t].of \in Runtimes /\ task'[t].id = task[t].id /\ UNCHANGED pairings
    BY <1>1, OwnerOf DEF Continues
  <2> QED BY <2>1 DEF G!Admitted, G!CheckAuthority, G!Readable, G!Unrevoked, G!Writing, FlagsRight
<1>2. CASE Continues(t) /\ task[t].phase \in {"signing", "posting"}
  BY <1>2 DEF Continues, NoneRevoked
<1>3. CASE task'[t] = task[t]
  <2>1. UNCHANGED pairings
    <3>1. ASSUME NEW k \in Runtimes, G!Commit(k) PROVE FALSE
      BY <1>3, <3>1, CommitSteps
    <3> QED BY <3>1, PairingMoves
  <2> QED BY <1>3, <2>1 DEF NoneRevoked
<1> QED BY <1>1, <1>2, <1>3, TaskSteps DEF Starts, Ends

(* The invariant is inductive. *)
LEMMA GateStep ==
  ASSUME GateInv, G!Next
  PROVE  GateInv'
BY GateTypeStep, OwnerStep, IdsStep, KnowsStep, WriterStep, FlagsStep, IdleStep, RevokedStep DEF GateInv

(* It holds at the start, where nobody has a lease. *)
LEMMA GateInit == G!Init => GateInv
<1> SUFFICES ASSUME G!Init PROVE GateInv
  OBVIOUS
<1>1. /\ pairings = <<>> /\ store = [k \in Runtimes |-> G!NoStore] /\ server = [k \in Runtimes |-> G!NoServer]
      /\ task = [t \in Tasks |-> G!NoTask] /\ review = [k \in Runtimes |-> 0] /\ signed = {}
  BY DEF G!Init
<1>2. G!NoServer \in ServerState
  BY DEF G!NoServer, ServerState
<1>3. GateTyped
  BY <1>1, <1>2, NothingHeld, NobodysTask DEF GateTyped
<1>4. \A t \in Tasks : ~Alive(t) /\ task[t].phase = "none"
  BY <1>1, NobodysTask DEF Alive
<1>5. \A k \in Runtimes : ~store[k].open /\ ~G!Writing(k) /\ ~G!HoldsLease(k)
  BY <1>1, <1>4, NothingHeld DEF G!Writing, G!HoldsLease, G!TasksOf
<1>6. OneOwner /\ IdsFit /\ StoreKnows /\ WriterAlone /\ FlagsRight
  BY <1>1, <1>4, <1>5 DEF OneOwner, IdsFit, StoreKnows, WriterAlone, FlagsRight
<1>7. IdleBelow /\ NoneRevoked
  BY <1>4 DEF IdleBelow, NoneRevoked
<1> QED BY <1>3, <1>6, <1>7 DEF GateInv

(* It is about the listener's variables alone. *)
LEMMA GateKept == GateInv /\ UNCHANGED gatewayVars => GateInv'
<1> SUFFICES ASSUME GateInv, UNCHANGED gatewayVars PROVE GateInv'
  OBVIOUS
<1>1. UNCHANGED <<pairings, store, server, task, review, signed>>
  BY DEF gatewayVars
<1> QED BY <1>1 DEF GateInv, GateTyped, OneOwner, IdsFit, StoreKnows, WriterAlone, FlagsRight, IdleBelow, NoneRevoked,
       Alive, G!HoldsLease, G!TasksOf, G!Ids, G!Writing, G!Reading

(* The listener, its tasks and the stores of pairings always fit: one lease *)
(* holder, a writer that excludes readers, a flag that is down only when    *)
(* right or about to be raised, and no work under a listener that is down   *)
(* (Mutation and check_authority of auth.rs, admission and drain of         *)
(* server.rs, the owner's lease of ledger/pairing.rs).                      *)
THEOREM GatewayInvariant == Spec => []GateInv
<1>1. Init => GateInv
  BY GateInit DEF Init
<1>2. GateInv /\ [Next]_<<focus, poolVars, gatewayVars, registryVars, supervisionVars>> => GateInv'
  BY GateStep, GateKept DEF Next
<1> QED BY <1>1, <1>2, PTL DEF Spec

(* For any runtimes, tasks, bindings and bounds: nothing is signed or       *)
(* posted under a committed revocation, the lease outlives the tasks,       *)
(* nothing runs once serve has returned, a review keeps its pairing, and a  *)
(* sweep reaches every binding something was signed for (check_authority    *)
(* of auth.rs, the drain of server.rs, the pinned review of                 *)
(* server/operator.rs).                                                     *)
THEOREM AuthorityIsBounded == Spec => []AuthorityHolds
<1>1. GateInv => AuthorityHolds
  <2> SUFFICES ASSUME GateInv PROVE G!AuthorityHolds
    BY DEF AuthorityHolds
  <2>1. G!RevokedNeverSigns
    BY DEF GateInv, NoneRevoked, G!RevokedNeverSigns
  <2>2. G!OwnerOutlivesTasks
    BY DEF GateInv, OneOwner, G!OwnerOutlivesTasks, G!HoldsLease
  <2>3. G!NothingRunsAfterReturn
    BY DEF GateInv, IdleBelow, Alive, G!NothingRunsAfterReturn, G!TasksOf
  <2>4. G!ReviewKeepsPairing
    BY DEF GateInv, IdsFit, G!ReviewKeepsPairing
  <2>5. G!SweepReachesSigned
    BY DEF GateInv, StoreKnows, G!SweepReachesSigned, G!SweptBindings, G!Readable
  <2> QED BY <2>1, <2>2, <2>3, <2>4, <2>5 DEF G!AuthorityHolds
<1> QED BY <1>1, GatewayInvariant, PTL

-----------------------------------------------------------------------------
(* The connection pool: what its slots, its sockets and its registry keep true *)

SubCommand == [cmd : {"subscribe", "unsubscribe"}, sub : Subs]
WireFrame == [kind : {"ack", "close", "data"}, sub : Subs]

EntryState ==
  [conn : 0..MaxConns, acked : BOOLEAN, strikes : 0..QuarantineAfter, quarantine : {"none", "active", "lapsed"}]

Working == {"connecting", "bursting", "up", "backoff"}
Aborted == {"aborting", "closed"}

ConnState ==
  [phase : {"none"} \cup Working \cup Aborted,
   connected : BOOLEAN, announcedDown : BOOLEAN, proved : BOOLEAN,
   burst : SUBSET Subs, resubscribed : SUBSET Subs, venue : SUBSET Subs,
   cmds : Seq(SubCommand), wire : Seq(WireFrame)]

PoolTyped ==
  /\ entry \in [Subs -> EntryState]
  /\ conn \in [K!Conns -> ConnState]
  /\ told \in [K!Conns -> {"none", "up", "down"}]
  /\ shutdown \in BOOLEAN /\ missed \subseteq Subs
  /\ amended \in Nat /\ drops \in Nat

(* Slots open in order, and what is registered sits on an open one. *)
SlotsHold ==
  /\ \E n \in 0..MaxConns : K!Opened = 1..n
  /\ \A s \in K!Registered : entry[s].conn \in K!Opened
  /\ \A c \in K!Conns \ K!Opened : told[c] = "none"
  /\ missed \subseteq K!Registered

(* After a shutdown nothing is connected and no task works. *)
ShutdownHolds ==
  \A c \in K!Opened : IF shutdown THEN ~conn[c].connected /\ conn[c].phase \in Aborted
                                  ELSE conn[c].phase \in Working

(* What the venue refuses it never acknowledges. *)
RefusedHolds == \A s \in Subs \cap Poison : ~entry[s].acked

Cause == drops + amended

(* A strike on what the venue accepts has its cause. *)
CausesHold ==
  \A s \in Subs \ Poison : /\ entry[s].strikes <= Cause
                           /\ entry[s].quarantine # "none" => QuarantineAfter <= Cause

(* Of one socket: the outage it announced, *)
OutageHolds(c) ==
  /\ conn[c].announcedDown <=> told[c] = "down"
  /\ conn[c].phase = "backoff" => conn[c].announcedDown
  /\ conn[c].phase = "up" => ~conn[c].announcedDown

(* its wire, on which a close is the last frame and acks are of what is accepted, *)
WireHolds(c) ==
  \A i \in DOMAIN conn[c].wire :
    /\ conn[c].wire[i].kind = "close" => i = Len(conn[c].wire)
    /\ conn[c].wire[i].kind = "ack" => conn[c].wire[i].sub \notin Poison

(* the queue, whose last word on a subscription is the registry's, *)
CommandsHold(c) ==
  \A i \in DOMAIN conn[c].cmds :
    (\A j \in DOMAIN conn[c].cmds : j > i => conn[c].cmds[j].sub # conn[c].cmds[i].sub) =>
        (conn[c].cmds[i].cmd = "subscribe" <=> entry[conn[c].cmds[i].sub].conn = c)

(* the acks, which only a session beyond its burst records, *)
AcksHold(c) == ~shutdown => \A s \in Subs : entry[s].conn = c /\ entry[s].acked => conn[c].phase = "up"

Settled(c, s) == \A i \in DOMAIN conn[c].cmds : conn[c].cmds[i].sub # s
AckComes(c, s) == \E i \in DOMAIN conn[c].wire : conn[c].wire[i].kind = "ack" /\ conn[c].wire[i].sub = s

(* what the venue serves of the subscriptions no command is queued for, *)
ServiceHolds(c) ==
  K!InSession(c) =>
    \A s \in Subs : Settled(c, s) =>
      /\ entry[s].conn = c /\ entry[s].quarantine = "none" =>
           s \in conn[c].venue \cup conn[c].burst \/ K!Closing(conn[c])
      /\ entry[s].conn # c => s \notin conn[c].burst /\ (s \notin conn[c].venue \/ K!Closing(conn[c]))
      /\ entry[s].conn = c /\ (entry[s].acked \/ AckComes(c, s)) =>
           s \in conn[c].venue \/ K!Closing(conn[c])

(* the gaps still to be told, *)
GapsHold(c) ==
  ~shutdown =>
    \A s \in missed : entry[s].conn = c =>
      /\ conn[c].announcedDown /\ entry[s].quarantine # "active"
      /\ conn[c].phase = "bursting" => s \in conn[c].resubscribed

(* A close cannot charge s: it is acknowledged or about to be, or a refused *)
(* subscription comes before it in key order.                               *)
Spared(c, s) ==
  \/ entry[s].acked \/ AckComes(c, s) \/ entry[s].quarantine = "active"
  \/ \E p \in Poison \cap Subs : entry[p].conn = c /\ p < s /\ entry[p].quarantine # "active"
  \/ /\ s \in conn[c].burst /\ ~K!Closing(conn[c])
     /\ \A p \in Poison \cap conn[c].burst : ~(p < s)

(* and a strike that is still to come, which has its cause already. *)
ChargesHold(c) ==
  K!InSession(c) =>
    \A s \in Subs \ Poison :
      entry[s].conn = c /\ ~Spared(c, s) => entry[s].strikes + 1 <= Cause \/ QuarantineAfter <= Cause

SocketHolds(c) ==
  /\ OutageHolds(c) /\ WireHolds(c) /\ CommandsHold(c) /\ AcksHold(c)
  /\ ServiceHolds(c) /\ GapsHold(c) /\ ChargesHold(c)

PoolInv ==
  /\ PoolTyped /\ SlotsHold /\ ShutdownHolds /\ RefusedHolds /\ CausesHold
  /\ \A c \in K!Opened : SocketHolds(c)

(* The first subscription or slot of a set is one of it. *)
LEMMA FirstIs ==
  ASSUME NEW T \in SUBSET Nat, T # {}
  PROVE  K!First(T) \in T /\ \A t \in T : K!First(T) <= t
<1>1. IsWellFoundedOn(OpToRel(<, Nat), Nat)
  BY NatLessThanWellFounded
<1>2. PICK x \in T : \A y \in T : ~(<<y, x>> \in OpToRel(<, Nat))
  BY <1>1, WFMin
<1>3. \A y \in T : ~(y < x)
  BY <1>2 DEF OpToRel
<1>4. \A y \in T : x <= y
  BY <1>3
<1> QED BY <1>4 DEF K!First

(* Among the places of a sequence where something is, there is a last one. *)
LEMMA LastOne ==
  ASSUME NEW V, NEW q \in Seq(V), NEW s, \E i \in DOMAIN q : q[i].sub = s
  PROVE  \E i \in DOMAIN q : q[i].sub = s /\ \A j \in DOMAIN q : j > i => q[j].sub # s
<1> DEFINE D == {i \in 1..Len(q) : q[i].sub = s}
           Up == {Len(q) - i : i \in D}
<1>1. DOMAIN q = 1..Len(q) /\ Len(q) \in Nat
  OBVIOUS
<1>2. Up \in SUBSET Nat /\ Up # {}
  BY <1>1
<1>3. PICK u \in Up : \A v \in Up : u <= v
  BY <1>2, FirstIs
<1>4. PICK i \in D : u = Len(q) - i
  BY <1>3
<1>5. \A j \in DOMAIN q : j > i => q[j].sub # s
  <2> SUFFICES ASSUME NEW j \in DOMAIN q, j > i, q[j].sub = s PROVE FALSE
    OBVIOUS
  <2>1. Len(q) - j \in Up /\ j \in Int /\ i \in Int
    BY <1>1
  <2>2. Len(q) - i <= Len(q) - j
    BY <1>3, <1>4, <2>1
  <2> QED BY <1>1, <2>1, <2>2
<1> QED BY <1>1, <1>4, <1>5

(* What the fields of a connection hold *)
LEMMA ConnFields ==
  ASSUME NEW k \in ConnState
  PROVE  /\ k.phase \in {"none"} \cup Working \cup Aborted
         /\ k.connected \in BOOLEAN /\ k.announcedDown \in BOOLEAN /\ k.proved \in BOOLEAN
         /\ k.burst \in SUBSET Subs /\ k.resubscribed \in SUBSET Subs /\ k.venue \in SUBSET Subs
         /\ k.cmds \in Seq(SubCommand) /\ k.wire \in Seq(WireFrame)
BY DEF ConnState

LEMMA EntryFields ==
  ASSUME NEW e \in EntryState
  PROVE  /\ e.conn \in 0..MaxConns /\ e.acked \in BOOLEAN /\ e.strikes \in 0..QuarantineAfter
         /\ e.quarantine \in {"none", "active", "lapsed"}
BY DEF EntryState

(* The pool's state is typed. *)
LEMMA PoolFields ==
  ASSUME PoolTyped
  PROVE  /\ \A s \in Subs : entry[s] \in EntryState
         /\ \A c \in K!Conns : conn[c] \in ConnState
BY DEF PoolTyped

LEMMA StrikesCounted ==
  ASSUME PoolTyped, NEW s \in Subs
  PROVE  entry[s].strikes \in 0..QuarantineAfter /\ entry[s].strikes \in Nat
<1>1. entry[s] \in EntryState
  BY PoolFields
<1>2. entry[s].strikes \in 0..QuarantineAfter
  BY <1>1, EntryFields
<1> QED BY <1>2, PoolAssumption

LEMMA NatSum == ASSUME NEW x \in Nat, NEW y \in Nat PROVE x + y \in Nat
OBVIOUS

LEMMA CauseTyped == ASSUME PoolTyped PROVE Cause \in Nat
<1>1. drops \in Nat /\ amended \in Nat
  BY DEF PoolTyped
<1> QED BY <1>1 DEF Cause

LEMMA CauseCounted ==
  ASSUME PoolTyped, PoolTyped' PROVE Cause \in Nat /\ Cause' \in Nat
<1>1. drops' \in Nat /\ amended' \in Nat
  BY DEF PoolTyped
<1>2. drops' + amended' \in Nat
  BY <1>1, NatSum
<1>3. Cause' \in Nat
  BY <1>2 DEF Cause
<1> QED BY <1>3, CauseTyped

(* What is queued is of the pool's subscriptions. *)
LEMMA QueuedTyped ==
  ASSUME PoolTyped, NEW c \in K!Conns, NEW i \in DOMAIN conn[c].cmds
  PROVE  conn[c].cmds[i] \in SubCommand /\ conn[c].cmds[i].sub \in Subs
<1>1. conn[c] \in ConnState
  BY PoolFields
<1>2. conn[c].cmds \in Seq(SubCommand)
  BY <1>1, ConnFields
<1>3. conn[c].cmds[i] \in SubCommand
  BY <1>2
<1> QED BY <1>3 DEF SubCommand

(* What the venue's answer leaves of a connection, and what it adds *)
Answered(k, r, cmd, s) ==
  /\ r.phase = k.phase /\ r.connected = k.connected /\ r.announcedDown = k.announcedDown
  /\ r.proved = k.proved /\ r.burst = k.burst /\ r.resubscribed = k.resubscribed /\ r.cmds = k.cmds
  /\ K!Closing(k) => r.venue = k.venue /\ r.wire = k.wire
  /\ ~K!Closing(k) /\ cmd = "unsubscribe" => r.venue = k.venue \ {s} /\ r.wire = k.wire
  /\ ~K!Closing(k) /\ cmd # "unsubscribe" /\ s \in Poison =>
       r.venue = k.venue /\ r.wire = Append(k.wire, [kind |-> "close", sub |-> s])
  /\ ~K!Closing(k) /\ cmd # "unsubscribe" /\ s \notin Poison =>
       r.venue = k.venue \cup {s} /\ r.wire = Append(k.wire, [kind |-> "ack", sub |-> s])

LEMMA SentAnswers ==
  ASSUME NEW k \in ConnState, NEW cmd, NEW s \in Subs
  PROVE  K!Sent(k, cmd, s) \in ConnState /\ Answered(k, K!Sent(k, cmd, s), cmd, s)
<1> DEFINE ack == [kind |-> "ack", sub |-> s]
           close == [kind |-> "close", sub |-> s]
           closed == Append(k.wire, close)
           acked == Append(k.wire, ack)
           served == k.venue \cup {s}
<1>1. ack \in WireFrame /\ close \in WireFrame
  BY DEF WireFrame
<1>2. k.wire \in Seq(WireFrame) /\ k.venue \in SUBSET Subs
  BY ConnFields
<1>3. Append(k.wire, ack) \in Seq(WireFrame) /\ Append(k.wire, close) \in Seq(WireFrame)
  BY <1>1, <1>2
<1>4. CASE K!Closing(k)
  <2>1. K!Sent(k, cmd, s) = k
    BY <1>4 DEF K!Sent
  <2> QED BY <1>4, <2>1 DEF Answered
<1>5. CASE ~K!Closing(k) /\ cmd = "unsubscribe"
  <2>1. K!Sent(k, cmd, s) = [k EXCEPT !.venue = k.venue \ {s}]
    BY <1>5 DEF K!Sent
  <2> QED BY <1>2, <1>5, <2>1 DEF ConnState, Answered
<1>6. CASE ~K!Closing(k) /\ cmd # "unsubscribe" /\ s \in Poison
  <2>1. K!Sent(k, cmd, s) = [k EXCEPT !.wire = Append(k.wire, close)]
    BY <1>6 DEF K!Sent
  <2> HIDE DEF close
  <2>2. K!Sent(k, cmd, s) \in ConnState
    BY <1>3, <2>1 DEF ConnState
  <2> QED BY <1>6, <2>1, <2>2 DEF ConnState, Answered, close
<1>7. CASE ~K!Closing(k) /\ cmd # "unsubscribe" /\ s \notin Poison
  <2>1. K!Sent(k, cmd, s) = [k EXCEPT !.venue = served, !.wire = acked]
    BY <1>7 DEF K!Sent
  <2>2. acked \in Seq(WireFrame) /\ served \in SUBSET Subs
    BY <1>2, <1>3
  <2> HIDE DEF acked, served
  <2>3. K!Sent(k, cmd, s) \in ConnState
    BY <2>1, <2>2 DEF ConnState
  <2> QED BY <1>7, <2>1, <2>3 DEF ConnState, Answered, acked, served
<1> QED BY <1>4, <1>5, <1>6, <1>7

-----------------------------------------------------------------------------
(* One socket's step leaves the others what they are. *)
Elsewhere(c) ==
  /\ \A d \in K!Conns \ {c} : conn'[d] = conn[d] /\ told'[d] = told[d]
  /\ \A s \in Subs, d \in K!Conns \ {c} :
       entry[s].conn = d \/ entry'[s].conn = d => entry'[s] = entry[s]
  /\ \A s \in missed', d \in K!Conns \ {c} : entry'[s].conn = d => s \in missed
  /\ Cause <= Cause' /\ shutdown' = shutdown

LEMMA ElsewhereKept ==
  ASSUME PoolTyped, PoolTyped', NEW c, Elsewhere(c),
         NEW d \in K!Conns, d # c, SocketHolds(d)
  PROVE  SocketHolds(d)'
<1>1. conn'[d] = conn[d] /\ told'[d] = told[d] /\ shutdown' = shutdown
  BY DEF Elsewhere
<1>2. \A s \in Subs : entry[s].conn = d \/ entry'[s].conn = d => entry'[s] = entry[s]
  BY DEF Elsewhere
<1>3. \A s \in Subs : entry'[s].conn = d <=> entry[s].conn = d
  BY <1>2
<1>4. \A i \in DOMAIN conn[d].cmds : conn[d].cmds[i].sub \in Subs
  BY QueuedTyped
<1>5. OutageHolds(d)'
  BY <1>1 DEF SocketHolds, OutageHolds
<1>6. WireHolds(d)'
  BY <1>1 DEF SocketHolds, WireHolds
<1>7. CommandsHold(d)'
  BY <1>1, <1>3, <1>4 DEF SocketHolds, CommandsHold
<1>8. AcksHold(d)'
  BY <1>1, <1>2 DEF SocketHolds, AcksHold
<1>9. ServiceHolds(d)'
  BY <1>1, <1>2, <1>3 DEF SocketHolds, ServiceHolds, Settled, AckComes, K!InSession, K!Closing
<1>10. GapsHold(d)'
  <2>1. missed' \subseteq Subs
    BY DEF PoolTyped
  <2>2. \A s \in missed' : entry'[s].conn = d => s \in missed /\ entry'[s] = entry[s]
    BY <1>2, <2>1 DEF Elsewhere
  <2> QED BY <1>1, <2>2 DEF SocketHolds, GapsHold
<1>11. ChargesHold(d)'
  <2> SUFFICES ASSUME K!InSession(d)', NEW s \in Subs \ Poison, entry'[s].conn = d, ~Spared(d, s)'
               PROVE  (entry[s].strikes + 1 <= Cause \/ QuarantineAfter <= Cause)'
    BY DEF ChargesHold
  <2>1. entry'[s] = entry[s] /\ entry[s].conn = d
    BY <1>2, <1>3
  <2>2. Spared(d, s) => Spared(d, s)'
    BY <1>1, <1>2, <2>1 DEF Spared, AckComes, K!Closing
  <2>3. entry[s].strikes + 1 <= Cause \/ QuarantineAfter <= Cause
    BY <1>1, <2>1, <2>2 DEF SocketHolds, ChargesHold, K!InSession
  <2>4. Cause <= Cause'
    BY DEF Elsewhere
  <2>5. entry[s].strikes \in Nat
    BY StrikesCounted
  <2> QED BY <2>1, <2>3, <2>4, <2>5, CauseCounted, PoolAssumption
<1> QED BY <1>5, <1>6, <1>7, <1>8, <1>9, <1>10, <1>11 DEF SocketHolds

(* What a step of socket c changes at most *)
Local(c) ==
  /\ shutdown' = shutdown /\ Cause <= Cause'
  /\ \A d \in K!Conns \ {c} : conn'[d] = conn[d] /\ told'[d] = told[d]
  /\ \A s \in Subs : /\ entry'[s].conn = entry[s].conn
                     /\ entry[s].conn # c => entry'[s] = entry[s]
  /\ \A s \in missed' : s \in missed \/ entry[s].conn = c

LEMMA LocalElsewhere == ASSUME NEW c, Local(c), PoolTyped' PROVE Elsewhere(c)
<1>1. missed' \subseteq Subs
  BY DEF PoolTyped
<1> QED BY <1>1 DEF Local, Elsewhere

LEMMA LocalSlots ==
  ASSUME PoolTyped, PoolTyped', SlotsHold, NEW c \in K!Opened, Local(c), conn'[c].phase # "none"
  PROVE  SlotsHold' /\ K!Opened' = K!Opened
<1>1. c \in K!Conns /\ conn[c].phase # "none"
  BY DEF K!Opened
<1>2. K!Opened' = K!Opened
  BY <1>1 DEF Local, K!Opened
<1>3. K!Registered' = K!Registered
  BY DEF Local, K!Registered
<1>4. \A s \in K!Registered' : entry'[s].conn \in K!Opened'
  BY <1>2, <1>3 DEF Local, SlotsHold, K!Registered
<1>5. \A d \in K!Conns \ K!Opened' : told'[d] = "none"
  BY <1>2 DEF Local, SlotsHold
<1>6. missed' \subseteq K!Registered'
  <2> SUFFICES ASSUME NEW s \in missed' PROVE s \in K!Registered
    BY <1>3
  <2>1. CASE s \in missed
    BY <2>1 DEF SlotsHold
  <2>2. CASE entry[s].conn = c
    <3>1. s \in Subs
      BY DEF PoolTyped
    <3>2. c # 0
      BY <1>1, PoolAssumption DEF K!Conns
    <3> QED BY <2>2, <3>1, <3>2 DEF K!Registered, K!NoConn
  <2> QED BY <2>1, <2>2 DEF Local
<1>7. \E n \in 0..MaxConns : K!Opened' = 1..n
  BY <1>2 DEF SlotsHold
<1> QED BY <1>2, <1>4, <1>5, <1>6, <1>7 DEF SlotsHold

(* What is left to show of a step of one socket *)
LEMMA LocalStep ==
  ASSUME PoolInv, NEW c \in K!Opened, Local(c), PoolTyped', RefusedHolds', CausesHold',
         IF shutdown THEN ~conn'[c].connected /\ conn'[c].phase \in Aborted ELSE conn'[c].phase \in Working,
         SocketHolds(c)'
  PROVE  PoolInv'
<1>1. conn'[c].phase # "none"
  BY DEF Working, Aborted
<1>2. SlotsHold' /\ K!Opened' = K!Opened
  BY <1>1, LocalSlots DEF PoolInv
<1>3. \A d \in K!Opened \ {c} : conn'[d] = conn[d]
  BY DEF Local, K!Opened
<1>4. ShutdownHolds'
  <2> SUFFICES ASSUME NEW d \in K!Opened
               PROVE  IF shutdown THEN ~conn'[d].connected /\ conn'[d].phase \in Aborted
                                  ELSE conn'[d].phase \in Working
    BY <1>2 DEF ShutdownHolds, Local
  <2>1. CASE d = c
    BY <2>1
  <2>2. CASE d # c
    BY <1>3, <2>2 DEF PoolInv, ShutdownHolds
  <2> QED BY <2>1, <2>2
<1>5. \A d \in K!Opened : d # c => SocketHolds(d)'
  BY LocalElsewhere, ElsewhereKept DEF PoolInv, K!Opened
<1> QED BY <1>2, <1>4, <1>5 DEF PoolInv

(* The acks and strikes of a step that charges nobody *)
LEMMA NobodyCharged ==
  ASSUME PoolTyped, PoolTyped', CausesHold, Cause <= Cause',
         \A s \in Subs : /\ entry'[s].strikes = entry[s].strikes \/ entry'[s].strikes = 0
                         /\ entry'[s].quarantine # "none" => entry[s].quarantine # "none"
  PROVE  CausesHold'
<1> SUFFICES ASSUME NEW s \in Subs \ Poison
             PROVE  /\ entry'[s].strikes <= Cause'
                    /\ entry'[s].quarantine # "none" => QuarantineAfter <= Cause'
  BY DEF CausesHold
<1>1. Cause \in Nat /\ Cause' \in Nat
  BY CauseCounted
<1>2. entry[s].strikes \in Nat /\ QuarantineAfter \in Nat
  BY StrikesCounted, PoolAssumption
<1>3. entry[s].strikes <= Cause /\ (entry[s].quarantine # "none" => QuarantineAfter <= Cause)
  BY DEF CausesHold
<1> QED BY <1>1, <1>2, <1>3

-----------------------------------------------------------------------------
(* The pool's calls *)

(* A command is the last of its socket's queue, and nothing else is touched. *)
Appended(c, cmd, s) ==
  /\ conn'[c].cmds = Append(conn[c].cmds, [cmd |-> cmd, sub |-> s])
  /\ conn'[c].phase = conn[c].phase /\ conn'[c].connected = conn[c].connected
  /\ conn'[c].announcedDown = conn[c].announcedDown /\ conn'[c].proved = conn[c].proved
  /\ conn'[c].burst = conn[c].burst /\ conn'[c].resubscribed = conn[c].resubscribed
  /\ conn'[c].venue = conn[c].venue /\ conn'[c].wire = conn[c].wire
  /\ \A d \in K!Conns \ {c} : conn'[d] = conn[d]

LEMMA QueueAppends ==
  ASSUME PoolTyped, NEW c \in K!Conns, NEW cmd \in {"subscribe", "unsubscribe"}, NEW s \in Subs, K!Queue(c, cmd, s)
  PROVE  /\ conn' \in [K!Conns -> ConnState] /\ amended' \in Nat
         /\ Appended(c, cmd, s)
         /\ amended' = IF K!InSession(c) THEN amended + 1 ELSE amended
<1> DEFINE new == [cmd |-> cmd, sub |-> s]
           cmds == Append(conn[c].cmds, new)
           k == [conn[c] EXCEPT !.cmds = cmds]
<1>1. conn[c] \in ConnState /\ amended \in Nat
  BY PoolFields DEF PoolTyped
<1>2. new \in SubCommand /\ conn[c].cmds \in Seq(SubCommand)
  BY <1>1, ConnFields DEF SubCommand
<1>3. cmds \in Seq(SubCommand)
  BY <1>2
<1>4. conn' = [conn EXCEPT ![c] = k]
  BY DEF K!Queue
<1>5. amended' = IF K!InSession(c) THEN amended + 1 ELSE amended
  BY DEF K!Queue
<1>6. amended' \in Nat
  BY <1>1, <1>5
<1> HIDE DEF cmds
<1>7. k \in ConnState
  BY <1>1, <1>3 DEF ConnState
<1>8. /\ k.cmds = cmds
      /\ k.phase = conn[c].phase /\ k.connected = conn[c].connected
      /\ k.announcedDown = conn[c].announcedDown /\ k.proved = conn[c].proved
      /\ k.burst = conn[c].burst /\ k.resubscribed = conn[c].resubscribed
      /\ k.venue = conn[c].venue /\ k.wire = conn[c].wire
  BY <1>1 DEF ConnState
<1> HIDE DEF k
<1>9. conn \in [K!Conns -> ConnState]
  BY DEF PoolTyped
<1>10. conn' \in [K!Conns -> ConnState]
  BY <1>4, <1>7, <1>9
<1>11. conn'[c] = k /\ \A d \in K!Conns \ {c} : conn'[d] = conn[d]
  BY <1>4, <1>9
<1>12. Appended(c, cmd, s)
  BY <1>8, <1>11 DEF Appended, cmds
<1> QED BY <1>5, <1>6, <1>10, <1>12

(* What a call does to the entry it is about *)
CallOn(c, cmd, s) ==
  /\ K!Queue(c, cmd, s)
  /\ \A t \in Subs : t # s => entry'[t] = entry[t]
  /\ entry[s].conn \in {c, K!NoConn}
  /\ entry'[s].conn = IF cmd = "subscribe" THEN c ELSE K!NoConn
  /\ entry'[s].acked => entry[s].acked /\ entry[s].conn = c
  /\ entry'[s].strikes = 0 /\ entry'[s].quarantine = "none"
  /\ missed' \subseteq missed /\ (s \in missed' => cmd = "subscribe" /\ entry[s].conn = c)
  /\ UNCHANGED <<shutdown, told, drops>>

(* A call that changes a live socket's subscriptions is a cause. *)
LEMMA CallCause ==
  ASSUME PoolTyped, NEW c \in K!Conns, NEW cmd \in {"subscribe", "unsubscribe"}, NEW s \in Subs, CallOn(c, cmd, s)
  PROVE  /\ Cause \in Nat /\ Cause' \in Nat /\ Cause <= Cause'
         /\ K!InSession(c) => Cause' = Cause + 1
<1>1. drops \in Nat /\ amended \in Nat /\ drops' = drops
  BY DEF PoolTyped, CallOn
<1>2. amended' = IF K!InSession(c) THEN amended + 1 ELSE amended
  BY QueueAppends DEF CallOn
<1>3. Cause' = drops + amended'
  BY <1>1 DEF Cause
<1>4. amended' \in Nat
  BY <1>1, <1>2
<1> QED BY <1>1, <1>2, <1>3, <1>4 DEF Cause

LEMMA CallElsewhere ==
  ASSUME PoolTyped, PoolTyped', NEW c \in K!Conns, NEW cmd \in {"subscribe", "unsubscribe"}, NEW s \in Subs,
         CallOn(c, cmd, s)
  PROVE  Elsewhere(c)
<1>1. \A d \in K!Conns \ {c} : conn'[d] = conn[d] /\ told'[d] = told[d]
  BY QueueAppends DEF CallOn, Appended
<1>2. entry'[s].conn \in {c, 0} /\ entry[s].conn \in {c, 0}
  BY DEF CallOn, K!NoConn
<1>3. \A d \in K!Conns : d # 0
  BY PoolAssumption DEF K!Conns
<1>4. \A t \in Subs, d \in K!Conns \ {c} : entry[t].conn = d \/ entry'[t].conn = d => entry'[t] = entry[t]
  BY <1>2, <1>3 DEF CallOn
<1> QED BY <1>1, <1>4, CallCause DEF CallOn, Elsewhere

LEMMA CallSocket ==
  ASSUME PoolTyped, PoolTyped', CausesHold, NEW c \in K!Conns, SocketHolds(c),
         NEW cmd \in {"subscribe", "unsubscribe"}, NEW s \in Subs, CallOn(c, cmd, s)
  PROVE  SocketHolds(c)'
<1> DEFINE q == conn[c].cmds
           new == [cmd |-> cmd, sub |-> s]
<1>1. Appended(c, cmd, s)
  BY QueueAppends DEF CallOn
<1>2. told'[c] = told[c] /\ shutdown' = shutdown
  BY DEF CallOn
<1>3. OutageHolds(c)'
  BY <1>1, <1>2 DEF Appended, SocketHolds, OutageHolds
<1>4. WireHolds(c)'
  BY <1>1 DEF Appended, SocketHolds, WireHolds
<1>q. q \in Seq(SubCommand) /\ conn'[c].cmds = Append(q, new)
  BY <1>1, PoolFields, ConnFields DEF Appended
<1>i. /\ DOMAIN conn'[c].cmds = 1..Len(q) + 1 /\ DOMAIN q = 1..Len(q) /\ Len(q) \in Nat
      /\ \A i \in DOMAIN q : conn'[c].cmds[i] = q[i]
      /\ conn'[c].cmds[Len(q) + 1] = new
  BY <1>q
<1>e. \A t \in Subs : t # s => entry'[t] = entry[t]
  BY DEF CallOn
<1>n. \A t \in Subs : Settled(c, t)' => t # s /\ Settled(c, t)
  BY <1>i DEF Settled
<1>c. c # 0
  BY PoolAssumption DEF K!Conns
<1>5. CommandsHold(c)'
  <2> SUFFICES ASSUME NEW i \in DOMAIN conn'[c].cmds,
                      \A j \in DOMAIN conn'[c].cmds : j > i => conn'[c].cmds[j].sub # conn'[c].cmds[i].sub
               PROVE  conn'[c].cmds[i].cmd = "subscribe" <=> entry'[conn'[c].cmds[i].sub].conn = c
    BY DEF CommandsHold
  <2>1. CASE i = Len(q) + 1
    BY <1>i, <1>c, <2>1 DEF CallOn, K!NoConn
  <2>2. CASE i # Len(q) + 1
    <3>1. i \in DOMAIN q /\ i < Len(q) + 1
      BY <1>i, <2>2
    <3>2. conn'[c].cmds[i] = q[i] /\ q[i].sub \in Subs
      BY <1>i, <3>1, QueuedTyped
    <3>3. q[i].sub # s
      <4>1. Len(q) + 1 \in DOMAIN conn'[c].cmds /\ Len(q) + 1 > i
        BY <1>i, <3>1
      <4>2. conn'[c].cmds[Len(q) + 1].sub # conn'[c].cmds[i].sub
        BY <4>1
      <4> QED BY <1>i, <3>2, <4>2
    <3>4. \A j \in DOMAIN q : j > i => q[j].sub # q[i].sub
      <4> SUFFICES ASSUME NEW j \in DOMAIN q, j > i PROVE q[j].sub # q[i].sub
        OBVIOUS
      <4>1. j \in DOMAIN conn'[c].cmds /\ conn'[c].cmds[j] = q[j]
        BY <1>i
      <4>2. conn'[c].cmds[j].sub # conn'[c].cmds[i].sub
        BY <4>1
      <4> QED BY <3>2, <4>1, <4>2
    <3>5. q[i].cmd = "subscribe" <=> entry[q[i].sub].conn = c
      BY <3>1, <3>4 DEF SocketHolds, CommandsHold
    <3> QED BY <1>e, <3>2, <3>3, <3>5
  <2> QED BY <2>1, <2>2
<1>6. AcksHold(c)'
  BY <1>1, <1>2, <1>e DEF SocketHolds, AcksHold, Appended, CallOn
<1>7. ServiceHolds(c)'
  <2>1. K!InSession(c)' <=> K!InSession(c)
    BY <1>1 DEF Appended, K!InSession
  <2>2. \A t \in Subs : AckComes(c, t)' <=> AckComes(c, t)
    BY <1>1 DEF Appended, AckComes
  <2>3. /\ K!Closing(conn'[c]) <=> K!Closing(conn[c])
        /\ conn'[c].venue = conn[c].venue /\ conn'[c].burst = conn[c].burst
    BY <1>1 DEF Appended, K!Closing
  <2> QED BY <2>1, <2>2, <2>3, <1>n, <1>e DEF SocketHolds, ServiceHolds
<1>8. GapsHold(c)'
  <2>1. missed' \subseteq missed /\ (s \in missed' => entry[s].conn = c) /\ entry'[s].quarantine = "none"
    BY DEF CallOn
  <2>2. missed \subseteq Subs
    BY DEF PoolTyped
  <2> QED BY <2>1, <2>2, <1>1, <1>2, <1>e DEF SocketHolds, GapsHold, Appended
<1>9. ChargesHold(c)'
  <2> SUFFICES ASSUME K!InSession(c)', NEW t \in Subs \ Poison
               PROVE  entry'[t].strikes + 1 <= Cause'
    BY DEF ChargesHold
  <2>1. Cause' = Cause + 1 /\ Cause \in Nat
    BY <1>1, CallCause DEF K!InSession, Appended
  <2>2. entry[t].strikes <= Cause /\ entry[t].strikes \in Nat
    BY StrikesCounted DEF CausesHold
  <2>3. entry'[t].strikes = entry[t].strikes \/ entry'[t].strikes = 0
    BY <1>e DEF CallOn
  <2> QED BY <2>1, <2>2, <2>3
<1> QED BY <1>3, <1>4, <1>5, <1>6, <1>7, <1>8, <1>9 DEF SocketHolds

(* What is left to show of a call *)
LEMMA CallStep ==
  ASSUME PoolInv, NEW c \in K!Opened, NEW cmd \in {"subscribe", "unsubscribe"}, NEW s \in Subs,
         CallOn(c, cmd, s), PoolTyped'
  PROVE  PoolInv'
<1>1. c \in K!Conns
  BY DEF K!Opened
<1>2. PoolTyped /\ SlotsHold /\ ShutdownHolds /\ RefusedHolds /\ CausesHold /\ SocketHolds(c)
  BY DEF PoolInv
<1>3. Appended(c, cmd, s)
  BY <1>1, <1>2, QueueAppends DEF CallOn
<1>4. K!Opened' = K!Opened /\ \A d \in K!Opened : conn'[d].phase = conn[d].phase /\ conn'[d].connected = conn[d].connected
  BY <1>1, <1>3 DEF Appended, K!Opened
<1>5. SlotsHold'
  <2>1. \E n \in 0..MaxConns : K!Opened' = 1..n
    BY <1>2, <1>4 DEF SlotsHold
  <2>2. \A t \in K!Registered' : entry'[t].conn \in K!Opened'
    BY <1>2, <1>4 DEF SlotsHold, K!Registered, K!NoConn, CallOn
  <2>3. \A d \in K!Conns \ K!Opened' : told'[d] = "none"
    BY <1>2, <1>4 DEF SlotsHold, CallOn
  <2>4. missed' \subseteq K!Registered'
    <3>1. c # 0
      BY <1>1, PoolAssumption DEF K!Conns
    <3> QED BY <1>2, <3>1 DEF SlotsHold, K!Registered, K!NoConn, CallOn
  <2> QED BY <2>1, <2>2, <2>3, <2>4 DEF SlotsHold
<1>6. ShutdownHolds'
  BY <1>2, <1>4 DEF ShutdownHolds, CallOn
<1>7. RefusedHolds'
  BY <1>2 DEF RefusedHolds, CallOn
<1>8. CausesHold'
  <2>1. \A t \in Subs : /\ entry'[t].strikes = entry[t].strikes \/ entry'[t].strikes = 0
                        /\ entry'[t].quarantine # "none" => entry[t].quarantine # "none"
    BY DEF CallOn
  <2> QED BY <1>1, <1>2, <2>1, NobodyCharged, CallCause
<1>9. SocketHolds(c)'
  BY <1>1, <1>2, CallSocket
<1>10. \A d \in K!Opened : d # c => SocketHolds(d)'
  BY <1>1, <1>2, CallElsewhere, ElsewhereKept DEF PoolInv, K!Opened
<1> QED BY <1>4, <1>5, <1>6, <1>7, <1>8, <1>9, <1>10 DEF PoolInv

LEMMA NewEntryTyped ==
  ASSUME NEW c \in 0..MaxConns
  PROVE  /\ K!NewEntry(c) \in EntryState
         /\ K!NewEntry(c).conn = c /\ ~K!NewEntry(c).acked
         /\ K!NewEntry(c).strikes = 0 /\ K!NewEntry(c).quarantine = "none"
<1>1. 0 \in 0..QuarantineAfter
  BY PoolAssumption
<1> QED BY <1>1 DEF K!NewEntry, EntryState

LEMMA ConnsCounted == \A c \in K!Conns : c \in Nat /\ c \in 0..MaxConns /\ c # 0
BY PoolAssumption DEF K!Conns

LEMMA PoolSubscribeOld ==
  ASSUME PoolInv, NEW s \in Subs, K!SubscribeTo(s), K!Slots(s) # {}
  PROVE  PoolInv'
<1>0. PICK c : c = K!First(K!Slots(s))
  OBVIOUS
<1>1. c \in K!Opened
  <2>1. K!Slots(s) \in SUBSET Nat /\ K!Slots(s) \subseteq K!Opened
    BY ConnsCounted DEF K!Slots, K!Opened
  <2> QED BY <1>0, <2>1, FirstIs
<1>2. c \in K!Conns /\ c \in 0..MaxConns /\ c # 0
  BY <1>1, ConnsCounted DEF K!Opened
<1>3. /\ entry' = [entry EXCEPT ![s] = K!NewEntry(c)] /\ K!Queue(c, "subscribe", s)
      /\ s \notin K!Registered /\ UNCHANGED <<shutdown, told, missed, drops>>
  BY <1>0 DEF K!SubscribeTo
<1>4. PoolTyped /\ s \notin missed /\ entry[s].conn = K!NoConn
  BY <1>3 DEF PoolInv, SlotsHold, K!Registered
<1>5. entry \in [Subs -> EntryState]
  BY <1>4 DEF PoolTyped
<1>6. /\ entry' \in [Subs -> EntryState] /\ entry'[s] = K!NewEntry(c)
      /\ \A t \in Subs : t # s => entry'[t] = entry[t]
  BY <1>2, <1>3, <1>5, NewEntryTyped
<1>7. conn' \in [K!Conns -> ConnState] /\ amended' \in Nat
  BY <1>2, <1>3, <1>4, QueueAppends
<1>8. PoolTyped'
  BY <1>3, <1>4, <1>6, <1>7 DEF PoolTyped
<1>9. CallOn(c, "subscribe", s)
  BY <1>2, <1>3, <1>4, <1>6, NewEntryTyped DEF CallOn
<1> QED BY <1>1, <1>8, <1>9, CallStep

LEMMA NewConnIs ==
  /\ K!NewConn \in ConnState /\ K!NewConn.phase = "connecting" /\ ~K!NewConn.connected
  /\ ~K!NewConn.announcedDown /\ K!NewConn.cmds = <<>> /\ K!NewConn.wire = <<>>
<1>1. <<>> \in Seq(SubCommand) /\ <<>> \in Seq(WireFrame)
  OBVIOUS
<1> QED BY <1>1 DEF K!NewConn, ConnState, Working

LEMMA SameCount == ASSUME NEW T PROVE K!Cardinality(T) = Cardinality(T)
BY DEF K!Cardinality, Cardinality

LEMMA PoolSubscribeNew ==
  ASSUME PoolInv, NEW s \in Subs, K!SubscribeTo(s), K!Slots(s) = {}
  PROVE  PoolInv'
<1>0. PICK c : c = Cardinality(K!Opened) + 1
  OBVIOUS
<1>1. /\ Cardinality(K!Opened) < MaxConns
      /\ entry' = [entry EXCEPT ![s] = K!NewEntry(c)]
      /\ conn' = [conn EXCEPT ![c] = K!NewConn]
      /\ s \notin K!Registered /\ UNCHANGED <<shutdown, told, missed, amended, drops>> /\ ~shutdown
  <2>1. /\ Cardinality(K!Opened) < MaxConns
        /\ entry' = [entry EXCEPT ![s] = K!NewEntry(Cardinality(K!Opened) + 1)]
        /\ conn' = [conn EXCEPT ![Cardinality(K!Opened) + 1] = K!NewConn]
    BY SameCount DEF K!SubscribeTo
  <2>2. s \notin K!Registered /\ UNCHANGED <<shutdown, told, missed, amended, drops>> /\ ~shutdown
    BY DEF K!SubscribeTo, K!Call
  <2> QED BY <1>0, <2>1, <2>2
<1>2. PICK n \in 0..MaxConns : K!Opened = 1..n
  BY DEF PoolInv, SlotsHold
<1>3. Cardinality(K!Opened) = n /\ c = n + 1
  <2>1. Cardinality(1..n) = n
    BY <1>2, FS_Interval
  <2> QED BY <1>0, <1>2, <2>1
<1>4. c \in K!Conns /\ c \notin K!Opened /\ c \in 0..MaxConns /\ c # 0
  <2>1. n \in Nat /\ n < MaxConns
    BY <1>1, <1>2, <1>3
  <2> QED BY <1>2, <1>3, <2>1, PoolAssumption DEF K!Conns
<1>5. PoolTyped /\ s \notin missed /\ entry[s].conn = K!NoConn
  BY <1>1 DEF PoolInv, SlotsHold, K!Registered
<1>6. entry \in [Subs -> EntryState] /\ conn \in [K!Conns -> ConnState]
  BY <1>5 DEF PoolTyped
<1>7. /\ entry' \in [Subs -> EntryState] /\ entry'[s] = K!NewEntry(c)
      /\ \A t \in Subs : t # s => entry'[t] = entry[t]
  BY <1>1, <1>4, <1>6, NewEntryTyped
<1>8. /\ conn' \in [K!Conns -> ConnState] /\ conn'[c] = K!NewConn
      /\ \A d \in K!Conns \ {c} : conn'[d] = conn[d]
  BY <1>1, <1>4, <1>6, NewConnIs
<1>9. PoolTyped'
  BY <1>1, <1>5, <1>7, <1>8 DEF PoolTyped
<1>10. K!Opened' = K!Opened \cup {c}
  BY <1>4, <1>8, NewConnIs DEF K!Opened
<1>11. SlotsHold'
  <2>1. n + 1 \in 0..MaxConns /\ K!Opened' = 1..(n + 1)
    BY <1>2, <1>3, <1>4, <1>10
  <2>2. K!Registered' = K!Registered \cup {s}
    BY <1>4, <1>7, NewEntryTyped DEF K!Registered, K!NoConn
  <2>3. \A t \in K!Registered' : entry'[t].conn \in K!Opened'
    <3> SUFFICES ASSUME NEW t \in K!Registered' PROVE entry'[t].conn \in K!Opened'
      OBVIOUS
    <3>1. CASE t = s
      BY <1>4, <1>7, <1>10, <3>1, NewEntryTyped
    <3>2. CASE t # s
      BY <1>7, <1>10, <2>2, <3>2 DEF PoolInv, SlotsHold, K!Registered
    <3> QED BY <3>1, <3>2
  <2>4. \A d \in K!Conns \ K!Opened' : told'[d] = "none"
    BY <1>1, <1>10 DEF PoolInv, SlotsHold
  <2>5. missed' \subseteq K!Registered'
    BY <1>1, <2>2 DEF PoolInv, SlotsHold
  <2> QED BY <2>1, <2>3, <2>4, <2>5 DEF SlotsHold
<1>12. ShutdownHolds'
  BY <1>1, <1>4, <1>8, <1>10, NewConnIs DEF PoolInv, ShutdownHolds, K!Opened, Working
<1>13. RefusedHolds'
  BY <1>4, <1>7, NewEntryTyped DEF PoolInv, RefusedHolds
<1>14. Cause <= Cause'
  BY <1>1, <1>5, CauseTyped DEF Cause
<1>15. CausesHold'
  <2>1. \A t \in Subs : /\ entry'[t].strikes = entry[t].strikes \/ entry'[t].strikes = 0
                        /\ entry'[t].quarantine # "none" => entry[t].quarantine # "none"
    BY <1>4, <1>7, NewEntryTyped
  <2> QED BY <1>5, <1>9, <1>14, <2>1, NobodyCharged DEF PoolInv
<1>16. Elsewhere(c)
  <2>1. \A t \in Subs, d \in K!Conns \ {c} : entry[t].conn = d \/ entry'[t].conn = d => entry'[t] = entry[t]
    BY <1>4, <1>5, <1>7, NewEntryTyped, ConnsCounted DEF K!NoConn
  <2> QED BY <1>1, <1>8, <1>14, <2>1 DEF Elsewhere
<1>17. \A t \in Subs : entry[t].conn # c
  BY <1>4 DEF PoolInv, SlotsHold, K!Registered, K!NoConn
<1>18. SocketHolds(c)'
  <2>1. OutageHolds(c)'
    <3>1. told'[c] = "none"
      BY <1>1, <1>4 DEF PoolInv, SlotsHold
    <3> QED BY <1>8, <3>1, NewConnIs DEF OutageHolds
  <2>2. WireHolds(c)' /\ CommandsHold(c)'
    BY <1>8, NewConnIs DEF WireHolds, CommandsHold
  <2>3. AcksHold(c)'
    BY <1>4, <1>7, <1>17, NewEntryTyped DEF AcksHold
  <2>4. ServiceHolds(c)' /\ ChargesHold(c)'
    BY <1>8, NewConnIs DEF ServiceHolds, ChargesHold, K!InSession
  <2>5. GapsHold(c)'
    BY <1>1, <1>5, <1>7, <1>17 DEF GapsHold, PoolTyped
  <2> QED BY <2>1, <2>2, <2>3, <2>4, <2>5 DEF SocketHolds
<1>19. \A d \in K!Opened : SocketHolds(d)'
  BY <1>4, <1>5, <1>9, <1>16, ElsewhereKept DEF PoolInv, K!Opened
<1> QED BY <1>9, <1>10, <1>11, <1>12, <1>13, <1>15, <1>18, <1>19 DEF PoolInv

LEMMA PoolUnsubscribe == ASSUME PoolInv, NEW s \in Subs, K!Unsubscribe(s) PROVE PoolInv'
<1> DEFINE c == entry[s].conn
<1>1. c \in K!Opened /\ PoolTyped
  BY DEF K!Unsubscribe, PoolInv, SlotsHold
<1>2. c \in K!Conns
  BY <1>1 DEF K!Opened
<1>3. /\ entry' = [entry EXCEPT ![s] = K!NewEntry(K!NoConn)] /\ K!Queue(c, "unsubscribe", s)
      /\ missed' = missed \ {s} /\ UNCHANGED <<shutdown, told, drops>>
  BY DEF K!Unsubscribe
<1>4. 0 \in 0..MaxConns /\ K!NoConn = 0
  BY PoolAssumption DEF K!NoConn
<1>5. entry \in [Subs -> EntryState]
  BY <1>1 DEF PoolTyped
<1>6. /\ entry' \in [Subs -> EntryState] /\ entry'[s] = K!NewEntry(0)
      /\ \A t \in Subs : t # s => entry'[t] = entry[t]
  BY <1>3, <1>4, <1>5, NewEntryTyped
<1>7. conn' \in [K!Conns -> ConnState] /\ amended' \in Nat
  BY <1>1, <1>2, <1>3, QueueAppends
<1>8. PoolTyped'
  BY <1>1, <1>3, <1>6, <1>7 DEF PoolTyped
<1>9. CallOn(c, "unsubscribe", s)
  BY <1>3, <1>4, <1>6, NewEntryTyped DEF CallOn
<1> QED BY <1>1, <1>8, <1>9, CallStep

LEMMA PoolClear == ASSUME PoolInv, NEW s \in Subs, K!ClearQuarantine(s) PROVE PoolInv'
<1> DEFINE c == entry[s].conn
           e == [entry[s] EXCEPT !.quarantine = "none", !.strikes = 0]
<1>1. c \in K!Opened /\ PoolTyped
  BY DEF K!ClearQuarantine, PoolInv, SlotsHold
<1>2. c \in K!Conns
  BY <1>1 DEF K!Opened
<1>3. /\ entry' = [entry EXCEPT ![s].quarantine = "none", ![s].strikes = 0] /\ K!Queue(c, "subscribe", s)
      /\ UNCHANGED <<shutdown, told, missed, drops>>
  BY DEF K!ClearQuarantine
<1>4. entry \in [Subs -> EntryState] /\ entry[s] \in EntryState
  BY <1>1 DEF PoolTyped
<1>5. e \in EntryState /\ e.conn = c /\ e.acked = entry[s].acked /\ e.strikes = 0 /\ e.quarantine = "none"
  <2>1. 0 \in 0..QuarantineAfter
    BY PoolAssumption
  <2> QED BY <1>4, <2>1 DEF EntryState
<1>6. entry' = [entry EXCEPT ![s] = e]
  BY <1>3, <1>4
<1> HIDE DEF e
<1>7. /\ entry' \in [Subs -> EntryState] /\ entry'[s] = e
      /\ \A t \in Subs : t # s => entry'[t] = entry[t]
  BY <1>4, <1>5, <1>6
<1>8. conn' \in [K!Conns -> ConnState] /\ amended' \in Nat
  BY <1>1, <1>2, <1>3, QueueAppends
<1>9. PoolTyped'
  BY <1>1, <1>3, <1>7, <1>8 DEF PoolTyped
<1>10. CallOn(c, "subscribe", s)
  BY <1>3, <1>5, <1>7 DEF CallOn
<1> QED BY <1>1, <1>9, <1>10, CallStep

-----------------------------------------------------------------------------
(* A quarantine's wait, the shutdown, and what a task does after it *)

LEMMA LapseSocket ==
  ASSUME PoolTyped, PoolTyped', CausesHold, NEW s \in Subs, K!Lapse(s), NEW c \in K!Conns, SocketHolds(c)
  PROVE  SocketHolds(c)'
<1>1. /\ entry[s].quarantine = "active"
      /\ UNCHANGED <<conn, shutdown, told, missed, amended, drops>>
  BY DEF K!Lapse
<1>2. /\ \A t \in Subs : /\ entry'[t].conn = entry[t].conn /\ entry'[t].acked = entry[t].acked
                         /\ entry'[t].strikes = entry[t].strikes
                         /\ t # s => entry'[t] = entry[t]
      /\ entry'[s].quarantine = "lapsed"
  <2>1. entry' = [entry EXCEPT ![s].quarantine = "lapsed"]
    BY DEF K!Lapse
  <2>2. entry \in [Subs -> EntryState] /\ entry[s] \in EntryState
    BY DEF PoolTyped
  <2> QED BY <2>1, <2>2 DEF EntryState
<1>3. OutageHolds(c)' /\ WireHolds(c)'
  BY <1>1 DEF SocketHolds, OutageHolds, WireHolds
<1>4. CommandsHold(c)'
  <2>1. \A i \in DOMAIN conn[c].cmds : conn[c].cmds[i].sub \in Subs
    BY QueuedTyped
  <2> QED BY <1>1, <1>2, <2>1 DEF SocketHolds, CommandsHold
<1>5. AcksHold(c)'
  BY <1>1, <1>2 DEF SocketHolds, AcksHold
<1>6. ServiceHolds(c)'
  <2>1. \A t \in Subs : entry'[t].quarantine = "none" => entry[t].quarantine = "none"
    BY <1>2
  <2> QED BY <1>1, <1>2, <2>1 DEF SocketHolds, ServiceHolds, K!InSession, Settled, AckComes, K!Closing
<1>7. GapsHold(c)'
  <2>1. missed \subseteq Subs
    BY DEF PoolTyped
  <2> QED BY <1>1, <1>2, <2>1 DEF SocketHolds, GapsHold
<1>8. ChargesHold(c)'
  <2> SUFFICES ASSUME K!InSession(c), NEW t \in Subs \ Poison, entry[t].conn = c, ~Spared(c, t)'
               PROVE  entry[t].strikes + 1 <= Cause \/ QuarantineAfter <= Cause
    <3>1. Cause' = Cause
      BY <1>1 DEF Cause
    <3> QED BY <1>1, <1>2, <3>1 DEF ChargesHold, K!InSession
  <2>1. CASE t = s
    BY <1>1, <2>1 DEF CausesHold
  <2>2. CASE t # s
    <3>1. Spared(c, t) => Spared(c, t)'
      BY <1>1, <1>2, <2>2 DEF Spared, AckComes, K!Closing
    <3> QED BY <3>1 DEF SocketHolds, ChargesHold
  <2> QED BY <2>1, <2>2
<1> QED BY <1>3, <1>4, <1>5, <1>6, <1>7, <1>8 DEF SocketHolds

LEMMA PoolLapse == ASSUME PoolInv, NEW s \in Subs, K!Lapse(s) PROVE PoolInv'
<1> DEFINE e == [entry[s] EXCEPT !.quarantine = "lapsed"]
<1>1. /\ entry[s].quarantine = "active" /\ entry' = [entry EXCEPT ![s] = e]
      /\ UNCHANGED <<conn, shutdown, told, missed, amended, drops>>
  BY DEF K!Lapse
<1>2. PoolTyped
  BY DEF PoolInv
<1>3. entry \in [Subs -> EntryState] /\ entry[s] \in EntryState
  BY <1>2 DEF PoolTyped
<1>4. /\ e \in EntryState /\ e.conn = entry[s].conn /\ e.acked = entry[s].acked
      /\ e.strikes = entry[s].strikes /\ e.quarantine = "lapsed"
  BY <1>3 DEF EntryState
<1> HIDE DEF e
<1>5. /\ entry' \in [Subs -> EntryState] /\ entry'[s] = e
      /\ \A t \in Subs : t # s => entry'[t] = entry[t]
  BY <1>1, <1>3, <1>4
<1>6. PoolTyped'
  BY <1>1, <1>2, <1>5 DEF PoolTyped
<1>7. K!Opened' = K!Opened /\ K!Registered' = K!Registered
  BY <1>1, <1>4, <1>5 DEF K!Opened, K!Registered
<1>8. SlotsHold'
  <2>1. \A t \in K!Registered : entry'[t].conn \in K!Opened
    BY <1>4, <1>5 DEF PoolInv, SlotsHold, K!Registered
  <2> QED BY <1>1, <1>7, <2>1 DEF PoolInv, SlotsHold
<1>9. ShutdownHolds'
  BY <1>1, <1>7 DEF PoolInv, ShutdownHolds
<1>10. RefusedHolds'
  BY <1>4, <1>5 DEF PoolInv, RefusedHolds
<1>11. CausesHold'
  <2>1. Cause' = Cause /\ Cause \in Nat
    BY <1>1, <1>2, CauseTyped DEF Cause
  <2>2. \A t \in Subs : /\ entry'[t].strikes = entry[t].strikes
                        /\ entry'[t].quarantine # "none" => entry[t].quarantine # "none"
    BY <1>1, <1>4, <1>5
  <2> QED BY <1>2, <1>6, <2>1, <2>2, NobodyCharged DEF PoolInv
<1>12. \A c \in K!Opened : SocketHolds(c)'
  BY <1>2, <1>6, LapseSocket DEF PoolInv, K!Opened
<1> QED BY <1>6, <1>7, <1>8, <1>9, <1>10, <1>11, <1>12 DEF PoolInv

LEMMA PoolShutdown == ASSUME PoolInv, K!Shutdown PROVE PoolInv'
<1> DEFINE Down(c) == [conn[c] EXCEPT !.phase = IF @ = "up" THEN "aborting" ELSE "closed", !.connected = FALSE]
           Unacked(s) == [entry[s] EXCEPT !.acked = FALSE]
<1>1. /\ shutdown' = TRUE
      /\ conn' = [c \in K!Conns |-> IF c \in K!Opened THEN Down(c) ELSE conn[c]]
      /\ entry' = [s \in Subs |-> Unacked(s)]
      /\ UNCHANGED <<told, missed, amended, drops>>
  BY DEF K!Shutdown
<1>2. PoolTyped
  BY DEF PoolInv
<1>3. \A c \in K!Conns : /\ Down(c) \in ConnState /\ Down(c).phase \in Aborted /\ ~Down(c).connected
                         /\ Down(c).announcedDown = conn[c].announcedDown
                         /\ Down(c).wire = conn[c].wire /\ Down(c).cmds = conn[c].cmds
  <2> SUFFICES ASSUME NEW c \in K!Conns
               PROVE  /\ Down(c) \in ConnState /\ Down(c).phase \in Aborted /\ ~Down(c).connected
                      /\ Down(c).announcedDown = conn[c].announcedDown
                      /\ Down(c).wire = conn[c].wire /\ Down(c).cmds = conn[c].cmds
    OBVIOUS
  <2>1. conn[c] \in ConnState
    BY <1>2, PoolFields
  <2> QED BY <2>1 DEF ConnState, Aborted
<1>4. \A s \in Subs : /\ Unacked(s) \in EntryState /\ ~Unacked(s).acked
                      /\ Unacked(s).conn = entry[s].conn /\ Unacked(s).strikes = entry[s].strikes
                      /\ Unacked(s).quarantine = entry[s].quarantine
  <2> SUFFICES ASSUME NEW s \in Subs
               PROVE  /\ Unacked(s) \in EntryState /\ ~Unacked(s).acked
                      /\ Unacked(s).conn = entry[s].conn /\ Unacked(s).strikes = entry[s].strikes
                      /\ Unacked(s).quarantine = entry[s].quarantine
    OBVIOUS
  <2>1. entry[s] \in EntryState
    BY <1>2, PoolFields
  <2> QED BY <2>1 DEF EntryState
<1> HIDE DEF Down, Unacked
<1>5. \A s \in Subs : entry'[s] = Unacked(s)
  BY <1>1
<1>6. /\ \A c \in K!Opened : conn'[c] = Down(c) /\ c \in K!Conns
      /\ \A c \in K!Conns : c \notin K!Opened => conn'[c] = conn[c]
  BY <1>1 DEF K!Opened
<1>7. conn' \in [K!Conns -> ConnState] /\ entry' \in [Subs -> EntryState]
  <2>1. \A c \in K!Conns : conn[c] \in ConnState
    BY <1>2, PoolFields
  <2> QED BY <1>1, <1>3, <1>4, <2>1
<1>8. PoolTyped'
  BY <1>1, <1>2, <1>7 DEF PoolTyped
<1>9. K!Opened' = K!Opened /\ K!Registered' = K!Registered
  <2>1. \A c \in K!Conns : conn'[c].phase # "none" <=> conn[c].phase # "none"
    BY <1>3, <1>6 DEF Aborted, K!Opened
  <2> QED BY <1>4, <1>5, <2>1 DEF K!Opened, K!Registered
<1>10. SlotsHold'
  <2>1. \A t \in K!Registered : entry'[t].conn \in K!Opened
    BY <1>4, <1>5 DEF PoolInv, SlotsHold, K!Registered
  <2> QED BY <1>1, <1>9, <2>1 DEF PoolInv, SlotsHold
<1>11. ShutdownHolds'
  BY <1>1, <1>3, <1>6, <1>9 DEF ShutdownHolds
<1>12. RefusedHolds'
  BY <1>4, <1>5 DEF RefusedHolds
<1>13. CausesHold'
  <2>1. Cause' = Cause /\ Cause \in Nat
    BY <1>1, <1>2, CauseTyped DEF Cause
  <2> QED BY <1>2, <1>4, <1>5, <1>8, <2>1, NobodyCharged DEF PoolInv
<1>14. ASSUME NEW c \in K!Opened PROVE SocketHolds(c)'
  <2>1. conn'[c] = Down(c) /\ c \in K!Conns /\ SocketHolds(c) /\ conn'[c].phase \in Aborted
    BY <1>3, <1>6 DEF PoolInv
  <2>2. OutageHolds(c)' /\ WireHolds(c)'
    BY <1>1, <1>3, <2>1 DEF SocketHolds, OutageHolds, WireHolds, Aborted
  <2>3. CommandsHold(c)'
    <3>1. \A i \in DOMAIN conn[c].cmds : conn[c].cmds[i].sub \in Subs
      BY <1>2, <2>1, QueuedTyped
    <3>2. conn'[c].cmds = conn[c].cmds /\ \A t \in Subs : entry'[t].conn = entry[t].conn
      BY <1>3, <1>4, <1>5, <2>1
    <3> QED BY <2>1, <3>1, <3>2 DEF SocketHolds, CommandsHold
  <2>4. AcksHold(c)' /\ GapsHold(c)'
    BY <1>1 DEF AcksHold, GapsHold
  <2>5. ServiceHolds(c)' /\ ChargesHold(c)'
    BY <2>1 DEF ServiceHolds, ChargesHold, K!InSession, Aborted
  <2> QED BY <2>2, <2>3, <2>4, <2>5 DEF SocketHolds
<1> QED BY <1>8, <1>9, <1>10, <1>11, <1>12, <1>13, <1>14 DEF PoolInv

(* An ack is recorded for the subscription as long as the socket holds it. *)
LEMMA RecordedIs ==
  ASSUME PoolTyped, NEW c, NEW s \in Subs, entry' = K!Recorded(c, s)
  PROVE  /\ entry' \in [Subs -> EntryState]
         /\ \A t \in Subs : /\ entry'[t].conn = entry[t].conn /\ entry'[t].quarantine = entry[t].quarantine
                            /\ t # s \/ entry[t].conn # c => entry'[t] = entry[t]
         /\ entry[s].conn = c => entry'[s].acked /\ entry'[s].strikes = 0
<1> DEFINE e == [entry[s] EXCEPT !.acked = TRUE, !.strikes = 0]
<1>1. entry \in [Subs -> EntryState] /\ entry[s] \in EntryState
  BY DEF PoolTyped
<1>2. e \in EntryState /\ e.conn = entry[s].conn /\ e.acked /\ e.strikes = 0 /\ e.quarantine = entry[s].quarantine
  <2>1. 0 \in 0..QuarantineAfter
    BY PoolAssumption
  <2> QED BY <1>1, <2>1 DEF EntryState
<1>3. CASE entry[s].conn = c
  <2>1. entry' = [entry EXCEPT ![s] = e]
    BY <1>1, <1>3 DEF K!Recorded, K!Acked
  <2> HIDE DEF e
  <2> QED BY <1>1, <1>2, <1>3, <2>1
<1>4. CASE entry[s].conn # c
  BY <1>1, <1>4 DEF K!Recorded
<1> QED BY <1>3, <1>4

(* The head of a wire and what is behind it *)
LEMMA WireTail ==
  ASSUME PoolTyped, NEW c \in K!Conns, conn[c].wire # <<>>
  PROVE  LET w == conn[c].wire
         IN  /\ w[1] \in WireFrame /\ w[1].sub \in Subs /\ 1 \in DOMAIN w
             /\ Tail(w) \in Seq(WireFrame) /\ Len(w) \in Nat /\ Len(Tail(w)) = Len(w) - 1
             /\ \A i \in DOMAIN Tail(w) : i + 1 \in DOMAIN w /\ Tail(w)[i] = w[i + 1]
             /\ \A i \in DOMAIN w : i # 1 => i - 1 \in DOMAIN Tail(w) /\ Tail(w)[i - 1] = w[i]
<1> DEFINE w == conn[c].wire
<1>1. w \in Seq(WireFrame)
  BY PoolFields, ConnFields
<1>2. w[1] \in WireFrame /\ 1 \in DOMAIN w
  BY <1>1
<1>3. w[1].sub \in Subs
  BY <1>2 DEF WireFrame
<1> QED BY <1>1, <1>2, <1>3, SMTT(30)

LEMMA PoolLateAck == ASSUME PoolInv, NEW c \in K!Opened, K!LateAck(c) PROVE PoolInv'
<1> DEFINE k == [conn[c] EXCEPT !.phase = "closed", !.venue = {}, !.wire = <<>>]
           acks == conn[c].wire # <<>> /\ conn[c].wire[1].kind = "ack"
<1>1. /\ conn[c].phase = "aborting" /\ conn' = [conn EXCEPT ![c] = k]
      /\ entry' = IF acks THEN K!Recorded(c, conn[c].wire[1].sub) ELSE entry
      /\ UNCHANGED <<shutdown, told, missed, amended, drops>>
  BY DEF K!LateAck
<1>2. c \in K!Conns /\ PoolTyped /\ SocketHolds(c) /\ shutdown /\ ~conn[c].connected
  BY <1>1 DEF K!Opened, PoolInv, ShutdownHolds, Working
<1>3. conn \in [K!Conns -> ConnState] /\ conn[c] \in ConnState
  BY <1>2 DEF PoolTyped
<1>4. /\ k \in ConnState /\ k.phase = "closed" /\ k.wire = <<>> /\ k.cmds = conn[c].cmds
      /\ k.announcedDown = conn[c].announcedDown /\ k.connected = conn[c].connected
  <2>1. <<>> \in Seq(WireFrame)
    OBVIOUS
  <2> QED BY <1>3, <2>1 DEF ConnState, Aborted
<1> HIDE DEF k
<1>5. conn' \in [K!Conns -> ConnState] /\ conn'[c] = k /\ \A d \in K!Conns \ {c} : conn'[d] = conn[d]
  BY <1>1, <1>2, <1>3, <1>4
<1>6. /\ entry' \in [Subs -> EntryState]
      /\ \A t \in Subs : /\ entry'[t].conn = entry[t].conn /\ entry'[t].quarantine = entry[t].quarantine
                         /\ entry[t].conn # c => entry'[t] = entry[t]
                         /\ entry'[t] # entry[t] => t \notin Poison /\ entry'[t].strikes = 0
  <2>1. CASE acks
    <3>1. conn[c].wire[1].sub \in Subs \ Poison
      BY <1>2, <2>1, WireTail DEF SocketHolds, WireHolds
    <3>2. entry' = K!Recorded(c, conn[c].wire[1].sub)
      BY <1>1, <2>1
    <3>3. PICK t \in Subs \ Poison : entry' = K!Recorded(c, t)
      BY <3>1, <3>2
    <3> QED BY <1>2, <3>3, RecordedIs
  <2>2. CASE ~acks
    BY <1>1, <1>2, <2>2 DEF PoolTyped
  <2> QED BY <2>1, <2>2
<1>7. PoolTyped'
  BY <1>1, <1>2, <1>5, <1>6 DEF PoolTyped
<1>8. Cause' = Cause /\ Cause \in Nat
  BY <1>1, <1>2, CauseTyped DEF Cause
<1>9. Local(c)
  BY <1>1, <1>5, <1>6, <1>8 DEF Local
<1>10. RefusedHolds'
  BY <1>6 DEF PoolInv, RefusedHolds
<1>11. CausesHold'
  <2>1. \A t \in Subs : /\ entry'[t].strikes = entry[t].strikes \/ entry'[t].strikes = 0
                        /\ entry'[t].quarantine # "none" => entry[t].quarantine # "none"
    BY <1>6
  <2> QED BY <1>2, <1>7, <1>8, <2>1, NobodyCharged DEF PoolInv
<1>12. SocketHolds(c)'
  <2>1. OutageHolds(c)'
    BY <1>1, <1>2, <1>4, <1>5 DEF SocketHolds, OutageHolds
  <2>2. WireHolds(c)'
    BY <1>4, <1>5 DEF WireHolds
  <2>3. CommandsHold(c)'
    <3>1. \A i \in DOMAIN conn[c].cmds : conn[c].cmds[i].sub \in Subs
      BY <1>2, QueuedTyped
    <3> QED BY <1>2, <1>4, <1>5, <1>6, <3>1 DEF SocketHolds, CommandsHold
  <2>4. AcksHold(c)' /\ GapsHold(c)'
    BY <1>1, <1>2 DEF AcksHold, GapsHold
  <2>5. ServiceHolds(c)' /\ ChargesHold(c)'
    BY <1>4, <1>5 DEF ServiceHolds, ChargesHold, K!InSession
  <2> QED BY <2>1, <2>2, <2>3, <2>4, <2>5 DEF SocketHolds
<1>13. shutdown /\ ~conn'[c].connected /\ conn'[c].phase \in Aborted
  BY <1>2, <1>4, <1>5 DEF Aborted
<1> QED BY <1>7, <1>9, <1>10, <1>11, <1>12, <1>13, LocalStep

-----------------------------------------------------------------------------
(* The turns of a connection task that leave the registry alone *)

LEMMA ConnPut ==
  ASSUME PoolTyped, NEW c \in K!Conns, NEW k \in ConnState, conn' = [conn EXCEPT ![c] = k]
  PROVE  conn' \in [K!Conns -> ConnState] /\ conn'[c] = k /\ \A d \in K!Conns \ {c} : conn'[d] = conn[d]
<1>1. conn \in [K!Conns -> ConnState]
  BY DEF PoolTyped
<1> QED BY <1>1

(* A task at work is one of a pool that is not shut down. *)
LEMMA AtWork ==
  ASSUME PoolInv, NEW c \in K!Opened, conn[c].phase \in Working
  PROVE  /\ c \in K!Conns /\ ~shutdown /\ PoolTyped /\ CausesHold /\ SocketHolds(c) /\ conn[c] \in ConnState
<1>1. c \in K!Conns /\ PoolTyped
  BY DEF K!Opened, PoolInv
<1> QED BY <1>1, PoolFields DEF PoolInv, ShutdownHolds, Working, Aborted

LEMMA QuietStep ==
  ASSUME PoolInv, NEW c \in K!Opened, conn[c].phase \in Working,
         NEW k \in ConnState, conn' = [conn EXCEPT ![c] = k], k.phase \in Working,
         UNCHANGED <<entry, shutdown, amended, drops>>,
         told' \in [K!Conns -> {"none", "up", "down"}], \A d \in K!Conns \ {c} : told'[d] = told[d],
         missed' \subseteq missed,
         conn'[c] = k => SocketHolds(c)'
  PROVE  PoolInv'
<1>1. c \in K!Conns /\ ~shutdown /\ PoolTyped /\ CausesHold
  BY AtWork
<1>2. conn' \in [K!Conns -> ConnState] /\ conn'[c] = k /\ \A d \in K!Conns \ {c} : conn'[d] = conn[d]
  BY <1>1, ConnPut
<1>3. PoolTyped'
  BY <1>1, <1>2 DEF PoolTyped
<1>4. Cause' = Cause /\ Cause \in Nat
  BY <1>1, CauseTyped DEF Cause
<1>5. Local(c)
  BY <1>2, <1>4 DEF Local
<1>6. RefusedHolds' /\ CausesHold'
  BY <1>4 DEF PoolInv, RefusedHolds, CausesHold
<1> QED BY <1>1, <1>2, <1>3, <1>5, <1>6, LocalStep

(* What an answer of the venue does to a wire and to what is served *)
AnswerSeen(c, r, cmd, s) ==
  /\ WireHolds(c)'
  /\ K!Closing(conn[c]) => K!Closing(conn'[c])
  /\ K!Closing(conn'[c]) /\ ~K!Closing(conn[c]) => s \in Poison
  /\ \A t : AckComes(c, t) => AckComes(c, t)'
  /\ \A t : AckComes(c, t)' => AckComes(c, t) \/ (t = s /\ cmd # "unsubscribe")
  /\ cmd # "unsubscribe" => s \in r.venue \/ K!Closing(conn'[c])
  /\ cmd # "unsubscribe" /\ s \notin Poison /\ ~K!Closing(conn[c]) => AckComes(c, s)'
  /\ cmd = "unsubscribe" => s \notin r.venue \/ K!Closing(conn'[c])
  /\ \A t : t # s => (t \in r.venue <=> t \in conn[c].venue)

LEMMA AnswerOnWire ==
  ASSUME PoolTyped, NEW c \in K!Conns, WireHolds(c), NEW cmd, NEW s \in Subs,
         NEW r, Answered(conn[c], r, cmd, s), conn'[c].wire = r.wire
  PROVE  AnswerSeen(c, r, cmd, s)
<1> DEFINE w == conn[c].wire
           ack == [kind |-> "ack", sub |-> s]
           close == [kind |-> "close", sub |-> s]
<1>1. w \in Seq(WireFrame)
  BY PoolFields, ConnFields
<1>2. CASE K!Closing(conn[c]) \/ cmd = "unsubscribe"
  <2>1. conn'[c].wire = w
    BY <1>2 DEF Answered
  <2>2. /\ r.venue = IF K!Closing(conn[c]) THEN conn[c].venue ELSE conn[c].venue \ {s}
    BY <1>2 DEF Answered
  <2>3. K!Closing(conn[c]) => cmd = "unsubscribe" \/ K!Closing(conn'[c])
    BY <2>1 DEF K!Closing
  <2> QED BY <1>2, <2>1, <2>2, <2>3 DEF WireHolds, AckComes, K!Closing, AnswerSeen
<1>3. CASE ~K!Closing(conn[c]) /\ cmd # "unsubscribe"
  <2> DEFINE f == IF s \in Poison THEN close ELSE ack
  <2>1. conn'[c].wire = Append(w, f) /\ f \in WireFrame
    BY <1>3 DEF Answered, WireFrame
  <2>2. /\ DOMAIN w = 1..Len(w) /\ DOMAIN conn'[c].wire = 1..Len(w) + 1 /\ Len(w) \in Nat
        /\ Len(conn'[c].wire) = Len(w) + 1
        /\ conn'[c].wire[Len(w) + 1] = f /\ \A i \in DOMAIN w : conn'[c].wire[i] = w[i]
    BY <1>1, <2>1
  <2>3. /\ f.sub = s /\ (f.kind = "close" <=> s \in Poison) /\ (f.kind = "ack" <=> s \notin Poison)
    OBVIOUS
  <2>4. r.venue = IF s \in Poison THEN conn[c].venue ELSE conn[c].venue \cup {s}
    BY <1>3 DEF Answered
  <2> HIDE DEF f
  <2>5. WireHolds(c)'
    BY <1>3, <2>2, <2>3, SMTT(30) DEF WireHolds, K!Closing
  <2>6. K!Closing(conn'[c]) <=> s \in Poison
    BY <1>3, <2>2, <2>3, SMTT(30) DEF K!Closing
  <2>7. \A t : AckComes(c, t)' <=> AckComes(c, t) \/ (t = s /\ s \notin Poison)
    BY <2>2, <2>3, SMTT(30) DEF AckComes
  <2> QED BY <1>3, <2>4, <2>5, <2>6, <2>7 DEF AnswerSeen
<1> QED BY <1>2, <1>3

LEMMA PoolSendBurst == ASSUME PoolInv, NEW c \in K!Opened, K!SendBurst(c) PROVE PoolInv'
<1>0. PICK s : s = K!First(conn[c].burst)
  OBVIOUS
<1> DEFINE r == K!Sent(conn[c], "subscribe", s)
           k == [r EXCEPT !.burst = conn[c].burst \ {s}]
<1>1. /\ conn[c].phase \in {"bursting", "up"} /\ conn[c].burst # {} /\ conn' = [conn EXCEPT ![c] = k]
      /\ UNCHANGED <<entry, shutdown, told, missed, amended, drops>>
  <2>1. conn[c].phase \in {"bursting", "up"} /\ conn[c].burst # {}
    BY DEF K!SendBurst, K!InSession
  <2>2. conn' = [conn EXCEPT ![c] = k]
    BY <1>0 DEF K!SendBurst
  <2>3. UNCHANGED <<entry, shutdown, told, missed, amended, drops>>
    BY DEF K!SendBurst
  <2> QED BY <2>1, <2>2, <2>3
<1>2. /\ c \in K!Conns /\ ~shutdown /\ PoolTyped /\ SocketHolds(c) /\ conn[c] \in ConnState
      /\ conn[c].phase \in Working
  BY <1>1, AtWork DEF Working
<1>3. s \in conn[c].burst /\ s \in Subs /\ \A t \in conn[c].burst : s <= t
  <2>1. conn[c].burst \in SUBSET Subs /\ conn[c].burst \in SUBSET Nat
    BY <1>2, ConnFields, PoolAssumption
  <2> QED BY <1>0, <1>1, <2>1, FirstIs
<1>4. r \in ConnState /\ Answered(conn[c], r, "subscribe", s)
  BY <1>2, <1>3, SentAnswers
<1> HIDE DEF r
<1>5. /\ k \in ConnState /\ k.phase = conn[c].phase /\ k.announcedDown = conn[c].announcedDown
      /\ k.cmds = conn[c].cmds /\ k.resubscribed = conn[c].resubscribed
      /\ k.burst = conn[c].burst \ {s} /\ k.venue = r.venue /\ k.wire = r.wire
  BY <1>2, <1>4 DEF ConnState, Answered
<1> HIDE DEF k
<1>6. ASSUME conn'[c] = k PROVE SocketHolds(c)'
  <2>1. WireHolds(c)
    BY <1>2 DEF SocketHolds
  <2>a. conn'[c].wire = r.wire /\ k.venue = r.venue
    BY <1>5, <1>6
  <2>2. /\ WireHolds(c)'
        /\ K!Closing(conn[c]) => K!Closing(conn'[c])
        /\ K!Closing(conn'[c]) /\ ~K!Closing(conn[c]) => s \in Poison
        /\ \A t : AckComes(c, t) => AckComes(c, t)'
        /\ \A t : AckComes(c, t)' => AckComes(c, t) \/ t = s
        /\ s \in k.venue \/ K!Closing(conn'[c])
        /\ s \notin Poison /\ ~K!Closing(conn[c]) => AckComes(c, s)'
        /\ \A t : t # s => (t \in k.venue <=> t \in conn[c].venue)
    <3>1. AnswerSeen(c, r, "subscribe", s)
      BY <1>2, <1>3, <1>4, <2>1, <2>a, AnswerOnWire
    <3> QED BY <2>a, <3>1 DEF AnswerSeen
  <2>3. OutageHolds(c)'
    BY <1>1, <1>2, <1>5, <1>6 DEF SocketHolds, OutageHolds
  <2>4. CommandsHold(c)'
    BY <1>1, <1>2, <1>5, <1>6 DEF SocketHolds, CommandsHold
  <2>5. AcksHold(c)' /\ GapsHold(c)'
    BY <1>1, <1>2, <1>5, <1>6 DEF SocketHolds, AcksHold, GapsHold
  <2>6. \A t \in Subs : Settled(c, t)' <=> Settled(c, t)
    BY <1>5, <1>6 DEF Settled
  <2>7. ServiceHolds(c)'
    <3>1. ServiceHolds(c) /\ K!InSession(c)
      BY <1>1, <1>2 DEF SocketHolds, K!InSession
    <3> SUFFICES ASSUME NEW t \in Subs, Settled(c, t)
                 PROVE  /\ entry[t].conn = c /\ entry[t].quarantine = "none" =>
                             t \in k.venue \cup k.burst \/ K!Closing(conn'[c])
                        /\ entry[t].conn # c => t \notin k.burst /\ (t \notin k.venue \/ K!Closing(conn'[c]))
                        /\ entry[t].conn = c /\ (entry[t].acked \/ AckComes(c, t)') =>
                             t \in k.venue \/ K!Closing(conn'[c])
      BY <1>1, <1>6, <2>6 DEF ServiceHolds
    <3> QED BY <1>3, <1>5, <2>2, <3>1 DEF ServiceHolds
  <2>8. ChargesHold(c)'
    <3>1. ChargesHold(c) /\ K!InSession(c) /\ Cause' = Cause
      BY <1>1, <1>2 DEF SocketHolds, K!InSession, Cause
    <3> SUFFICES ASSUME NEW t \in Subs \ Poison, entry[t].conn = c, Spared(c, t)
                 PROVE  Spared(c, t)'
      BY <1>1, <3>1 DEF ChargesHold
    <3>2. CASE entry[t].acked \/ AckComes(c, t) \/ entry[t].quarantine = "active"
      BY <1>1, <2>2, <3>2 DEF Spared
    <3>3. CASE \E p \in Poison \cap Subs : entry[p].conn = c /\ p < t /\ entry[p].quarantine # "active"
      BY <1>1, <3>3 DEF Spared
    <3>4. CASE /\ t \in conn[c].burst /\ ~K!Closing(conn[c])
               /\ \A p \in Poison \cap conn[c].burst : ~(p < t)
      <4>1. CASE t = s
        BY <2>2, <3>4, <4>1 DEF Spared
      <4>2. CASE t # s
        <5>1. s < t
          BY <1>3, <3>4, <4>2, PoolAssumption
        <5>2. s \notin Poison
          BY <1>3, <3>4, <5>1
        <5> QED BY <1>5, <1>6, <2>2, <3>4, <4>2, <5>2 DEF Spared
      <4> QED BY <4>1, <4>2
    <3> QED BY <3>2, <3>3, <3>4 DEF Spared
  <2> QED BY <2>2, <2>3, <2>4, <2>5, <2>7, <2>8 DEF SocketHolds
<1>7. told' \in [K!Conns -> {"none", "up", "down"}]
  BY <1>1, <1>2 DEF PoolTyped
<1> QED BY <1>1, <1>2, <1>5, <1>6, <1>7, QuietStep

(* A queue without its head: what is the last word stays the last word. *)
LEMMA QueueTail ==
  ASSUME PoolTyped, NEW c \in K!Conns, CommandsHold(c), conn[c].cmds # <<>>,
         conn'[c].cmds = Tail(conn[c].cmds), \A t \in Subs : entry'[t].conn = entry[t].conn
  PROVE  /\ CommandsHold(c)' /\ Tail(conn[c].cmds) \in Seq(SubCommand)
         /\ conn[c].cmds[1] \in SubCommand
         /\ \A t : Settled(c, t)' => Settled(c, t) \/ t = conn[c].cmds[1].sub
         /\ \A t : Settled(c, t)' /\ t = conn[c].cmds[1].sub =>
              (conn[c].cmds[1].cmd = "subscribe" <=> entry[t].conn = c)
<1> DEFINE q == conn[c].cmds
<1>1. q \in Seq(SubCommand) /\ q # <<>>
  BY PoolFields, ConnFields
<1>2. /\ Tail(q) \in Seq(SubCommand) /\ q[1] \in SubCommand /\ 1 \in DOMAIN q
      /\ DOMAIN q = 1..Len(q) /\ DOMAIN Tail(q) = 1..(Len(q) - 1) /\ Len(q) \in Nat
      /\ \A i \in DOMAIN Tail(q) : i + 1 \in DOMAIN q /\ Tail(q)[i] = q[i + 1]
      /\ \A i \in DOMAIN q : i # 1 => i - 1 \in DOMAIN Tail(q) /\ Tail(q)[i - 1] = q[i]
  BY <1>1
<1>3. \A i \in DOMAIN q : q[i].sub \in Subs
  BY QueuedTyped
<1> HIDE DEF q
<1>4. conn'[c].cmds = Tail(q)
  BY DEF q
<1>5. CommandsHold(c)'
  <2> SUFFICES ASSUME NEW i \in DOMAIN Tail(q), \A j \in DOMAIN Tail(q) : j > i => Tail(q)[j].sub # Tail(q)[i].sub
               PROVE  Tail(q)[i].cmd = "subscribe" <=> entry'[Tail(q)[i].sub].conn = c
    BY <1>4 DEF CommandsHold
  <2>1. i + 1 \in DOMAIN q /\ Tail(q)[i] = q[i + 1] /\ q[i + 1].sub \in Subs /\ i \in Nat
    BY <1>2, <1>3
  <2>2. ASSUME NEW j \in DOMAIN q, j > i + 1 PROVE q[j].sub # q[i + 1].sub
    <3>1. j - 1 \in DOMAIN Tail(q) /\ Tail(q)[j - 1] = q[j] /\ j - 1 > i
      BY <1>2, <2>1, <2>2
    <3> QED BY <2>1, <3>1
  <2>3. q[i + 1].cmd = "subscribe" <=> entry[q[i + 1].sub].conn = c
    BY <2>1, <2>2 DEF CommandsHold, q
  <2> QED BY <2>1, <2>3
<1>6. ASSUME NEW t, Settled(c, t)' PROVE Settled(c, t) \/ t = q[1].sub
  <2>1. \A i \in DOMAIN Tail(q) : Tail(q)[i].sub # t
    BY <1>4, <1>6 DEF Settled
  <2>2. \A i \in DOMAIN q : i # 1 => q[i].sub # t
    BY <1>2, <2>1, ZenonT(60)
  <2> QED BY <2>2 DEF Settled, q
<1>7. ASSUME NEW t, Settled(c, t)', t = q[1].sub PROVE q[1].cmd = "subscribe" <=> entry[t].conn = c
  <2>1. \A i \in DOMAIN Tail(q) : Tail(q)[i].sub # t
    BY <1>4, <1>7 DEF Settled
  <2>2. \A i \in DOMAIN q : i # 1 => q[i].sub # t
    BY <1>2, <2>1, ZenonT(60)
  <2>3. \A i \in DOMAIN q : i > 1 => q[i].sub # q[1].sub
    BY <1>2, <1>7, <2>2
  <2>4. q[1].cmd = "subscribe" <=> entry[q[1].sub].conn = c
    BY <1>2, <2>3 DEF CommandsHold, q
  <2> QED BY <1>7, <2>4
<1> QED BY <1>2, <1>5, <1>6, <1>7 DEF q

LEMMA PoolCommand == ASSUME PoolInv, NEW c \in K!Opened, K!Command(c) PROVE PoolInv'
<1>0. PICK f : f = conn[c].cmds[1]
  OBVIOUS
<1>s. PICK s : s = f.sub
  OBVIOUS
<1> DEFINE r == K!Sent(conn[c], f.cmd, s)
           k == [r EXCEPT !.cmds = Tail(conn[c].cmds)]
<1>1. /\ conn[c].phase = "up" /\ conn[c].burst = {} /\ conn[c].cmds # <<>>
      /\ conn' = [conn EXCEPT ![c] = k]
      /\ UNCHANGED <<entry, shutdown, told, missed, amended, drops>>
  <2>1. conn[c].phase = "up" /\ conn[c].burst = {} /\ conn[c].cmds # <<>>
    BY DEF K!Command, K!Reading
  <2>2. conn' = [conn EXCEPT ![c] = k]
    BY <1>0, <1>s DEF K!Command
  <2>3. UNCHANGED <<entry, shutdown, told, missed, amended, drops>>
    BY DEF K!Command
  <2> QED BY <2>1, <2>2, <2>3
<1>2. /\ c \in K!Conns /\ ~shutdown /\ PoolTyped /\ SocketHolds(c) /\ conn[c] \in ConnState
      /\ conn[c].phase \in Working
  BY <1>1, AtWork DEF Working
<1>3. Tail(conn[c].cmds) \in Seq(SubCommand) /\ s \in Subs
  <2>1. conn[c].cmds \in Seq(SubCommand) /\ conn[c].cmds # <<>>
    BY <1>1, <1>2, ConnFields
  <2>2. 1 \in DOMAIN conn[c].cmds /\ Tail(conn[c].cmds) \in Seq(SubCommand)
    BY <2>1
  <2> QED BY <1>0, <1>s, <1>2, <2>2, QueuedTyped
<1>4. r \in ConnState /\ Answered(conn[c], r, f.cmd, s)
  BY <1>2, <1>3, SentAnswers
<1> HIDE DEF r
<1>5. /\ k \in ConnState /\ k.phase = conn[c].phase /\ k.announcedDown = conn[c].announcedDown
      /\ k.cmds = Tail(conn[c].cmds) /\ k.resubscribed = conn[c].resubscribed
      /\ k.burst = {} /\ k.venue = r.venue /\ k.wire = r.wire
  BY <1>1, <1>3, <1>4 DEF ConnState, Answered
<1> HIDE DEF k
<1>6. ASSUME conn'[c] = k PROVE SocketHolds(c)'
  <2>1. WireHolds(c) /\ CommandsHold(c)
    BY <1>2 DEF SocketHolds
  <2>2. conn'[c].wire = r.wire /\ k.venue = r.venue
    BY <1>5, <1>6
  <2>3. AnswerSeen(c, r, f.cmd, s)
    BY <1>2, <1>3, <1>4, <2>1, <2>2, AnswerOnWire
  <2>4. OutageHolds(c)'
    BY <1>1, <1>2, <1>5, <1>6 DEF SocketHolds, OutageHolds
  <2>5. /\ CommandsHold(c)'
        /\ \A t : Settled(c, t)' => Settled(c, t) \/ t = s
        /\ Settled(c, s)' => (f.cmd = "subscribe" <=> entry[s].conn = c)
        /\ f.cmd \in {"subscribe", "unsubscribe"}
    <3>1. \A t \in Subs : entry'[t].conn = entry[t].conn
      BY <1>1
    <3>2. conn'[c].cmds = Tail(conn[c].cmds)
      BY <1>5, <1>6
    <3>3. /\ CommandsHold(c)' /\ conn[c].cmds[1] \in SubCommand
          /\ \A t : Settled(c, t)' => Settled(c, t) \/ t = conn[c].cmds[1].sub
          /\ \A t : Settled(c, t)' /\ t = conn[c].cmds[1].sub =>
                (conn[c].cmds[1].cmd = "subscribe" <=> entry[t].conn = c)
      BY <1>1, <1>2, <2>1, <3>1, <3>2, QueueTail
    <3> QED BY <1>0, <1>s, <3>3 DEF SubCommand
  <2>6. AcksHold(c)' /\ GapsHold(c)'
    BY <1>1, <1>2, <1>5, <1>6 DEF SocketHolds, AcksHold, GapsHold
  <2>7. ServiceHolds(c)'
    <3>1. ServiceHolds(c) /\ K!InSession(c)
      BY <1>1, <1>2 DEF SocketHolds, K!InSession
    <3> SUFFICES ASSUME NEW t \in Subs, Settled(c, t)'
                 PROVE  /\ entry[t].conn = c /\ (entry[t].quarantine = "none" \/ entry[t].acked \/ AckComes(c, t)') =>
                             t \in k.venue \/ K!Closing(conn'[c])
                        /\ entry[t].conn # c => t \notin k.venue \/ K!Closing(conn'[c])
      BY <1>1, <1>5, <1>6 DEF ServiceHolds
    <3>2. CASE t = s
      BY <2>2, <2>3, <2>5, <3>2 DEF AnswerSeen
    <3>3. CASE t # s
      <4>1. Settled(c, t)
        BY <2>5, <3>3
      <4>2. /\ t \in k.venue <=> t \in conn[c].venue
            /\ AckComes(c, t)' => AckComes(c, t)
            /\ K!Closing(conn[c]) => K!Closing(conn'[c])
        BY <2>2, <2>3, <3>3 DEF AnswerSeen
      <4> QED BY <1>1, <3>1, <4>1, <4>2 DEF ServiceHolds
    <3> QED BY <3>2, <3>3
  <2>8. ChargesHold(c)'
    <3>1. ChargesHold(c) /\ K!InSession(c) /\ Cause' = Cause
      BY <1>1, <1>2 DEF SocketHolds, K!InSession, Cause
    <3>2. \A t : Spared(c, t) => Spared(c, t)'
      BY <1>1, <2>3 DEF Spared, AnswerSeen
    <3> QED BY <1>1, <3>1, <3>2 DEF ChargesHold
  <2> QED BY <2>3, <2>4, <2>5, <2>6, <2>7, <2>8 DEF SocketHolds, AnswerSeen
<1>7. told' \in [K!Conns -> {"none", "up", "down"}]
  BY <1>1, <1>2 DEF PoolTyped
<1> QED BY <1>1, <1>2, <1>5, <1>6, <1>7, QuietStep

LEMMA PoolSubscribed == ASSUME PoolInv, NEW c \in K!Opened, K!Subscribed(c) PROVE PoolInv'
<1> DEFINE k == [conn[c] EXCEPT !.phase = "up", !.announcedDown = FALSE]
<1>1. /\ conn[c].phase = "bursting" /\ conn' = [conn EXCEPT ![c] = k]
      /\ UNCHANGED <<entry, shutdown, amended, drops>>
  BY DEF K!Subscribed
<1>2. /\ c \in K!Conns /\ ~shutdown /\ PoolTyped /\ SocketHolds(c) /\ conn[c] \in ConnState
      /\ conn[c].phase \in Working
  BY <1>1, AtWork DEF Working
<1>3. told \in [K!Conns -> {"none", "up", "down"}]
  BY <1>2 DEF PoolTyped
<1>4. /\ told' \in [K!Conns -> {"none", "up", "down"}] /\ told'[c] # "down"
      /\ \A d \in K!Conns \ {c} : told'[d] = told[d]
      /\ missed' \subseteq missed
      /\ \A s \in missed' : entry[s].conn # c
  <2>1. OutageHolds(c) /\ GapsHold(c)
    BY <1>2 DEF SocketHolds
  <2>2. CASE conn[c].announcedDown
    <3>1. told' = [told EXCEPT ![c] = "up"] /\ missed' = missed \ conn[c].resubscribed
      BY <2>2 DEF K!Subscribed
    <3>2. \A s \in missed : entry[s].conn = c => s \in conn[c].resubscribed
      BY <1>1, <1>2, <2>1 DEF GapsHold
    <3> QED BY <1>2, <1>3, <3>1, <3>2
  <2>3. CASE ~conn[c].announcedDown
    <3>1. told' = told /\ missed' = missed
      BY <2>3 DEF K!Subscribed
    <3> QED BY <1>2, <1>3, <2>1, <2>3, <3>1 DEF OutageHolds, GapsHold
  <2> QED BY <2>2, <2>3
<1>5. /\ k \in ConnState /\ k.phase = "up" /\ ~k.announcedDown
      /\ k.cmds = conn[c].cmds /\ k.burst = conn[c].burst /\ k.venue = conn[c].venue /\ k.wire = conn[c].wire
  BY <1>2 DEF ConnState, Working
<1> HIDE DEF k
<1>6. ASSUME conn'[c] = k PROVE SocketHolds(c)'
  <2>1. OutageHolds(c)' /\ WireHolds(c)'
    BY <1>2, <1>4, <1>5, <1>6 DEF SocketHolds, OutageHolds, WireHolds
  <2>2. CommandsHold(c)' /\ AcksHold(c)'
    BY <1>1, <1>2, <1>5, <1>6 DEF SocketHolds, CommandsHold, AcksHold
  <2>3. GapsHold(c)'
    BY <1>1, <1>4 DEF GapsHold
  <2>4. K!InSession(c)
    BY <1>1 DEF K!InSession
  <2>5. ServiceHolds(c)'
    BY <1>1, <1>2, <1>5, <1>6, <2>4 DEF SocketHolds, ServiceHolds, Settled, AckComes, K!Closing
  <2>6. ChargesHold(c)'
    <3>1. Cause' = Cause /\ \A t : Spared(c, t) => Spared(c, t)'
      BY <1>1, <1>5, <1>6 DEF Cause, Spared, AckComes, K!Closing
    <3> QED BY <1>1, <1>2, <2>4, <3>1 DEF SocketHolds, ChargesHold
  <2> QED BY <2>1, <2>2, <2>3, <2>5, <2>6 DEF SocketHolds
<1> QED BY <1>1, <1>2, <1>4, <1>5, <1>6, QuietStep DEF Working

LEMMA PoolBackoffEnds == ASSUME PoolInv, NEW c \in K!Opened, K!BackoffEnds(c) PROVE PoolInv'
<1>0. PICK q : q = IF conn' = [conn EXCEPT ![c].phase = "connecting"] THEN conn[c].cmds ELSE Tail(conn[c].cmds)
  OBVIOUS
<1> DEFINE k == [conn[c] EXCEPT !.phase = "connecting", !.cmds = q]
<1>1. conn[c].phase = "backoff" /\ UNCHANGED <<entry, shutdown, told, missed, amended, drops>>
  BY DEF K!BackoffEnds
<1>2. /\ c \in K!Conns /\ ~shutdown /\ PoolTyped /\ SocketHolds(c) /\ conn[c] \in ConnState
      /\ conn[c].phase \in Working
  BY <1>1, AtWork DEF Working
<1>3. conn \in [K!Conns -> ConnState] /\ conn[c].cmds \in Seq(SubCommand)
  BY <1>2, ConnFields DEF PoolTyped
<1>4. q = conn[c].cmds \/ (conn[c].cmds # <<>> /\ q = Tail(conn[c].cmds))
  BY <1>0 DEF K!BackoffEnds
<1>5. q \in Seq(SubCommand)
  <2>1. CASE q = conn[c].cmds
    BY <1>3, <2>1
  <2>2. CASE conn[c].cmds # <<>> /\ q = Tail(conn[c].cmds)
    BY <1>3, <2>2
  <2> QED BY <1>4, <2>1, <2>2
<1>6. conn' = [conn EXCEPT ![c] = k]
  <2>1. CASE conn' = [conn EXCEPT ![c].phase = "connecting"]
    <3>1. k = [conn[c] EXCEPT !.phase = "connecting"]
      BY <1>0, <1>2, <2>1 DEF ConnState
    <3> HIDE DEF k
    <3> QED BY <2>1, <3>1
  <2>2. CASE conn' # [conn EXCEPT ![c].phase = "connecting"]
    <3>1. conn' = [conn EXCEPT ![c].phase = "connecting", ![c].cmds = Tail(@)]
      BY <2>2 DEF K!BackoffEnds
    <3>2. q = Tail(conn[c].cmds)
      BY <1>0, <2>2
    <3> QED BY <1>2, <1>3, <3>1, <3>2
  <2> QED BY <2>1, <2>2
<1>7. /\ k \in ConnState /\ k.phase = "connecting" /\ k.announcedDown = conn[c].announcedDown
      /\ k.cmds = q /\ k.wire = conn[c].wire
  BY <1>2, <1>5 DEF ConnState, Working
<1> HIDE DEF k
<1>8. ASSUME conn'[c] = k PROVE SocketHolds(c)'
  <2>1. OutageHolds(c)' /\ WireHolds(c)' /\ AcksHold(c)' /\ GapsHold(c)'
    BY <1>1, <1>2, <1>7, <1>8 DEF SocketHolds, OutageHolds, WireHolds, AcksHold, GapsHold
  <2>2. CommandsHold(c)'
    <3>1. CASE q = conn[c].cmds
      BY <1>1, <1>2, <1>7, <1>8, <3>1 DEF SocketHolds, CommandsHold
    <3>2. CASE conn[c].cmds # <<>> /\ q = Tail(conn[c].cmds)
      <4>1. \A t \in Subs : entry'[t].conn = entry[t].conn
        BY <1>1
      <4>2. conn'[c].cmds = Tail(conn[c].cmds) /\ CommandsHold(c)
        BY <1>2, <1>7, <1>8, <3>2 DEF SocketHolds
      <4> QED BY <1>2, <3>2, <4>1, <4>2, QueueTail
    <3> QED BY <1>4, <3>1, <3>2
  <2>3. ServiceHolds(c)' /\ ChargesHold(c)'
    BY <1>7, <1>8 DEF ServiceHolds, ChargesHold, K!InSession
  <2> QED BY <2>1, <2>2, <2>3 DEF SocketHolds
<1>9. told' \in [K!Conns -> {"none", "up", "down"}]
  BY <1>1, <1>2 DEF PoolTyped
<1> QED BY <1>1, <1>2, <1>6, <1>7, <1>8, <1>9, QuietStep DEF Working

LEMMA PoolProve == ASSUME PoolInv, NEW c \in K!Opened, K!Prove(c) PROVE PoolInv'
<1> DEFINE k == [conn[c] EXCEPT !.proved = TRUE]
<1>1. /\ conn[c].phase = "up" /\ conn' = [conn EXCEPT ![c] = k]
      /\ UNCHANGED <<entry, shutdown, told, missed, amended, drops>>
  BY DEF K!Prove
<1>2. /\ c \in K!Conns /\ ~shutdown /\ PoolTyped /\ SocketHolds(c) /\ conn[c] \in ConnState
      /\ conn[c].phase \in Working
  BY <1>1, AtWork DEF Working
<1>3. /\ k \in ConnState /\ k.phase = "up" /\ k.announcedDown = conn[c].announcedDown
      /\ k.cmds = conn[c].cmds /\ k.burst = conn[c].burst /\ k.venue = conn[c].venue /\ k.wire = conn[c].wire
  BY <1>1, <1>2 DEF ConnState, Working
<1> HIDE DEF k
<1>4. ASSUME conn'[c] = k PROVE SocketHolds(c)'
  <2>1. OutageHolds(c)' /\ WireHolds(c)' /\ CommandsHold(c)' /\ AcksHold(c)' /\ GapsHold(c)'
    BY <1>1, <1>2, <1>3, <1>4 DEF SocketHolds, OutageHolds, WireHolds, CommandsHold, AcksHold, GapsHold
  <2>2. K!InSession(c)
    BY <1>1 DEF K!InSession
  <2>3. ServiceHolds(c)'
    BY <1>1, <1>2, <1>3, <1>4, <2>2 DEF SocketHolds, ServiceHolds, Settled, AckComes, K!Closing
  <2>4. ChargesHold(c)'
    <3>1. Cause' = Cause /\ \A t : Spared(c, t) => Spared(c, t)'
      BY <1>1, <1>3, <1>4 DEF Cause, Spared, AckComes, K!Closing
    <3> QED BY <1>1, <1>2, <2>2, <3>1 DEF SocketHolds, ChargesHold
  <2> QED BY <2>1, <2>3, <2>4 DEF SocketHolds
<1>5. told' \in [K!Conns -> {"none", "up", "down"}]
  BY <1>1, <1>2 DEF PoolTyped
<1> QED BY <1>1, <1>2, <1>3, <1>4, <1>5, QuietStep DEF Working

LEMMA PoolVenueSends == ASSUME PoolInv, NEW c \in K!Opened, NEW s, K!VenueSends(c, s) PROVE PoolInv'
<1> DEFINE f == [kind |-> "data", sub |-> s]
           w == Append(conn[c].wire, f)
           k == [conn[c] EXCEPT !.wire = w]
<1>1. /\ conn[c].phase \in {"bursting", "up"} /\ s \in conn[c].venue /\ ~K!Closing(conn[c])
      /\ conn' = [conn EXCEPT ![c] = k]
      /\ UNCHANGED <<entry, shutdown, told, missed, amended, drops>>
  BY DEF K!VenueSends
<1>2. /\ c \in K!Conns /\ ~shutdown /\ PoolTyped /\ SocketHolds(c) /\ conn[c] \in ConnState
      /\ conn[c].phase \in Working
  BY <1>1, AtWork DEF Working
<1>3. conn[c].wire \in Seq(WireFrame) /\ f \in WireFrame
  BY <1>1, <1>2, ConnFields DEF WireFrame
<1>4. w \in Seq(WireFrame)
  BY <1>3
<1> HIDE DEF w
<1>5. /\ k \in ConnState /\ k.phase = conn[c].phase /\ k.announcedDown = conn[c].announcedDown
      /\ k.cmds = conn[c].cmds /\ k.burst = conn[c].burst /\ k.venue = conn[c].venue
      /\ k.resubscribed = conn[c].resubscribed /\ k.wire = w
  BY <1>2, <1>4 DEF ConnState
<1> HIDE DEF k
<1>6. ASSUME conn'[c] = k PROVE SocketHolds(c)'
  <2>1. /\ DOMAIN conn[c].wire = 1..Len(conn[c].wire) /\ Len(conn[c].wire) \in Nat
        /\ DOMAIN w = 1..Len(conn[c].wire) + 1 /\ Len(w) = Len(conn[c].wire) + 1
        /\ w[Len(conn[c].wire) + 1] = f /\ \A i \in DOMAIN conn[c].wire : w[i] = conn[c].wire[i]
    BY <1>3 DEF w
  <2>2. conn'[c].wire = w
    BY <1>5, <1>6
  <2>3. WireHolds(c)' /\ ~K!Closing(conn'[c]) /\ \A t : AckComes(c, t)' <=> AckComes(c, t)
    <3>1. WireHolds(c)
      BY <1>2 DEF SocketHolds
    <3>2. f.kind = "data"
      OBVIOUS
    <3> HIDE DEF f
    <3>3. WireHolds(c)'
      BY <1>1, <2>1, <2>2, <3>1, <3>2 DEF WireHolds, K!Closing
    <3>4. ~K!Closing(conn'[c])
      BY <1>1, <2>1, <2>2, <3>2 DEF K!Closing
    <3>5. \A t : AckComes(c, t)' <=> AckComes(c, t)
      BY <2>1, <2>2, <3>2, SMTT(30) DEF AckComes
    <3> QED BY <3>3, <3>4, <3>5
  <2>4. OutageHolds(c)' /\ CommandsHold(c)' /\ AcksHold(c)' /\ GapsHold(c)'
    BY <1>1, <1>2, <1>5, <1>6 DEF SocketHolds, OutageHolds, CommandsHold, AcksHold, GapsHold
  <2>5. K!InSession(c)
    BY <1>1 DEF K!InSession
  <2>6. ServiceHolds(c)'
    BY <1>1, <1>2, <1>5, <1>6, <2>3, <2>5 DEF SocketHolds, ServiceHolds, Settled
  <2>7. ChargesHold(c)'
    <3>1. Cause' = Cause /\ \A t : Spared(c, t) => Spared(c, t)'
      BY <1>1, <1>5, <1>6, <2>3 DEF Cause, Spared
    <3> QED BY <1>1, <1>2, <2>5, <3>1 DEF SocketHolds, ChargesHold
  <2> QED BY <2>3, <2>4, <2>6, <2>7 DEF SocketHolds
<1>7. told' \in [K!Conns -> {"none", "up", "down"}]
  BY <1>1, <1>2 DEF PoolTyped
<1> QED BY <1>1, <1>2, <1>5, <1>6, <1>7, QuietStep

-----------------------------------------------------------------------------
(* The turns that write the registry *)

LEMMA AcksClearedIs ==
  ASSUME NEW e \in [Subs -> EntryState], NEW c
  PROVE  /\ K!AcksCleared(e, c) \in [Subs -> EntryState]
         /\ \A s \in Subs : /\ K!AcksCleared(e, c)[s].conn = e[s].conn
                            /\ K!AcksCleared(e, c)[s].strikes = e[s].strikes
                            /\ K!AcksCleared(e, c)[s].quarantine = e[s].quarantine
                            /\ K!AcksCleared(e, c)[s].acked => e[s].acked /\ e[s].conn # c
                            /\ e[s].conn # c => K!AcksCleared(e, c)[s] = e[s]
<1> DEFINE Off(s) == [e[s] EXCEPT !.acked = FALSE]
<1>1. \A s \in Subs : /\ Off(s) \in EntryState /\ ~Off(s).acked /\ Off(s).conn = e[s].conn
                      /\ Off(s).strikes = e[s].strikes /\ Off(s).quarantine = e[s].quarantine
  <2> SUFFICES ASSUME NEW s \in Subs
               PROVE  /\ Off(s) \in EntryState /\ ~Off(s).acked /\ Off(s).conn = e[s].conn
                      /\ Off(s).strikes = e[s].strikes /\ Off(s).quarantine = e[s].quarantine
    OBVIOUS
  <2>1. e[s] \in EntryState
    OBVIOUS
  <2> QED BY <2>1 DEF EntryState
<1>2. K!AcksCleared(e, c) = [s \in Subs |-> IF e[s].conn = c THEN Off(s) ELSE e[s]]
  BY DEF K!AcksCleared
<1> HIDE DEF Off
<1> QED BY <1>1, <1>2

LEMMA PoolConnect == ASSUME PoolInv, NEW c \in K!Opened, K!Connect(c) PROVE PoolInv'
<1>0. PICK B : B = K!ResubscribeSet(c)
  OBVIOUS
<1> DEFINE k == [conn[c] EXCEPT !.phase = "bursting", !.connected = TRUE,
                                !.proved = FALSE, !.venue = {}, !.wire = <<>>,
                                !.burst = B, !.resubscribed = B]
<1>1. /\ conn[c].phase = "connecting" /\ conn' = [conn EXCEPT ![c] = k]
      /\ entry' = K!AcksCleared(entry, c)
      /\ UNCHANGED <<shutdown, told, missed, amended, drops>>
  BY <1>0 DEF K!Connect
<1>2. /\ c \in K!Conns /\ ~shutdown /\ PoolTyped /\ CausesHold /\ SocketHolds(c) /\ conn[c] \in ConnState
      /\ conn[c].phase \in Working
  BY <1>1, AtWork DEF Working
<1>3. /\ B \in SUBSET Subs
      /\ \A t \in Subs : t \in B <=> entry[t].conn = c /\ entry[t].quarantine # "active"
  BY <1>0 DEF K!ResubscribeSet, K!Held, K!QuarantinedNow
<1>4. /\ k \in ConnState /\ k.phase = "bursting" /\ k.announcedDown = conn[c].announcedDown
      /\ k.cmds = conn[c].cmds /\ k.burst = B /\ k.resubscribed = B /\ k.venue = {} /\ k.wire = <<>>
  <2>1. <<>> \in Seq(WireFrame)
    OBVIOUS
  <2> QED BY <1>2, <1>3, <2>1 DEF ConnState, Working
<1> HIDE DEF k
<1>5. conn' \in [K!Conns -> ConnState] /\ conn'[c] = k /\ \A d \in K!Conns \ {c} : conn'[d] = conn[d]
  BY <1>1, <1>2, <1>4, ConnPut
<1>6. /\ entry' \in [Subs -> EntryState]
      /\ \A t \in Subs : /\ entry'[t].conn = entry[t].conn /\ entry'[t].strikes = entry[t].strikes
                         /\ entry'[t].quarantine = entry[t].quarantine
                         /\ entry'[t].acked => entry[t].acked /\ entry[t].conn # c
                         /\ entry[t].conn # c => entry'[t] = entry[t]
  <2>1. entry \in [Subs -> EntryState]
    BY <1>2 DEF PoolTyped
  <2> QED BY <1>1, <2>1, AcksClearedIs
<1>7. PoolTyped'
  BY <1>1, <1>2, <1>5, <1>6 DEF PoolTyped
<1>8. Cause' = Cause /\ Cause \in Nat
  BY <1>1, <1>2, CauseTyped DEF Cause
<1>9. Local(c)
  BY <1>1, <1>5, <1>6, <1>8 DEF Local
<1>10. RefusedHolds' /\ CausesHold'
  BY <1>2, <1>6, <1>8 DEF PoolInv, RefusedHolds, CausesHold
<1>11. SocketHolds(c)'
  <2>1. OutageHolds(c)' /\ WireHolds(c)'
    BY <1>1, <1>2, <1>4, <1>5 DEF SocketHolds, OutageHolds, WireHolds
  <2>2. CommandsHold(c)'
    <3>1. \A i \in DOMAIN conn[c].cmds : conn[c].cmds[i].sub \in Subs
      BY <1>2, QueuedTyped
    <3> QED BY <1>2, <1>4, <1>5, <1>6, <3>1 DEF SocketHolds, CommandsHold
  <2>3. AcksHold(c)'
    BY <1>6 DEF AcksHold
  <2>4. GapsHold(c)'
    <3>1. missed \subseteq Subs
      BY <1>2 DEF PoolTyped
    <3> QED BY <1>1, <1>2, <1>3, <1>4, <1>5, <1>6, <3>1 DEF SocketHolds, GapsHold
  <2>5. ~K!Closing(conn'[c]) /\ \A t : ~AckComes(c, t)'
    BY <1>4, <1>5 DEF K!Closing, AckComes
  <2>6. ServiceHolds(c)'
    BY <1>3, <1>4, <1>5, <1>6, <2>5 DEF ServiceHolds
  <2>7. ChargesHold(c)'
    <3>1. ASSUME NEW t \in Subs, entry[t].conn = c PROVE Spared(c, t)'
      <4>1. CASE entry[t].quarantine = "active"
        BY <1>6, <4>1 DEF Spared
      <4>2. CASE t \in B /\ \A p \in Poison \cap B : ~(p < t)
        BY <1>4, <1>5, <2>5, <4>2 DEF Spared
      <4>3. CASE \E p \in Poison \cap B : p < t
        BY <1>3, <1>6, <4>3 DEF Spared
      <4> QED BY <1>3, <3>1, <4>1, <4>2, <4>3
    <3> QED BY <1>6, <3>1 DEF ChargesHold
  <2> QED BY <2>1, <2>2, <2>3, <2>4, <2>6, <2>7 DEF SocketHolds
<1>12. conn'[c].phase \in Working
  BY <1>4, <1>5 DEF Working
<1> QED BY <1>2, <1>7, <1>9, <1>10, <1>11, <1>12, LocalStep

LEMMA PoolPingTick == ASSUME PoolInv, NEW c \in K!Opened, K!PingTick(c) PROVE PoolInv'
<1>0. PICK B : B = K!LapsedOf(c)
  OBVIOUS
<1> DEFINE k == [conn[c] EXCEPT !.burst = B]
           Revived(t) == [entry[t] EXCEPT !.quarantine = "none"]
<1>1. /\ conn[c].phase = "up" /\ conn[c].burst = {} /\ conn' = [conn EXCEPT ![c] = k]
      /\ entry' = [t \in Subs |-> IF t \in B THEN Revived(t) ELSE entry[t]]
      /\ UNCHANGED <<shutdown, told, missed, amended, drops>>
  BY <1>0 DEF K!PingTick, K!Reading
<1>2. /\ c \in K!Conns /\ ~shutdown /\ PoolTyped /\ CausesHold /\ SocketHolds(c) /\ conn[c] \in ConnState
      /\ conn[c].phase \in Working
  BY <1>1, AtWork DEF Working
<1>3. B \in SUBSET Subs /\ \A t \in Subs : t \in B <=> entry[t].conn = c /\ entry[t].quarantine = "lapsed"
  BY <1>0 DEF K!LapsedOf, K!Held
<1>4. /\ k \in ConnState /\ k.phase = "up" /\ k.announcedDown = conn[c].announcedDown
      /\ k.cmds = conn[c].cmds /\ k.burst = B /\ k.venue = conn[c].venue /\ k.wire = conn[c].wire
  BY <1>1, <1>2, <1>3 DEF ConnState
<1> HIDE DEF k
<1>5. conn' \in [K!Conns -> ConnState] /\ conn'[c] = k /\ \A d \in K!Conns \ {c} : conn'[d] = conn[d]
  BY <1>1, <1>2, <1>4, ConnPut
<1>6. /\ entry' \in [Subs -> EntryState]
      /\ \A t \in Subs : /\ entry'[t].conn = entry[t].conn /\ entry'[t].strikes = entry[t].strikes
                         /\ entry'[t].acked = entry[t].acked
                         /\ t \in B => entry'[t].quarantine = "none"
                         /\ t \notin B => entry'[t] = entry[t]
  <2>1. \A t \in Subs : /\ Revived(t) \in EntryState /\ Revived(t).conn = entry[t].conn
                        /\ Revived(t).strikes = entry[t].strikes /\ Revived(t).acked = entry[t].acked
                        /\ Revived(t).quarantine = "none" /\ entry[t] \in EntryState
    <3> SUFFICES ASSUME NEW t \in Subs
                 PROVE  /\ Revived(t) \in EntryState /\ Revived(t).conn = entry[t].conn
                        /\ Revived(t).strikes = entry[t].strikes /\ Revived(t).acked = entry[t].acked
                        /\ Revived(t).quarantine = "none" /\ entry[t] \in EntryState
      OBVIOUS
    <3>1. entry[t] \in EntryState
      BY <1>2, PoolFields
    <3> QED BY <3>1 DEF EntryState
  <2> HIDE DEF Revived
  <2> QED BY <1>1, <2>1
<1>7. PoolTyped'
  BY <1>1, <1>2, <1>5, <1>6 DEF PoolTyped
<1>8. Cause' = Cause /\ Cause \in Nat
  BY <1>1, <1>2, CauseTyped DEF Cause
<1>9. Local(c)
  BY <1>1, <1>3, <1>5, <1>6, <1>8 DEF Local
<1>10. RefusedHolds' /\ CausesHold'
  BY <1>2, <1>6, <1>8 DEF PoolInv, RefusedHolds, CausesHold
<1>11. SocketHolds(c)'
  <2>1. OutageHolds(c)' /\ WireHolds(c)'
    BY <1>1, <1>2, <1>4, <1>5 DEF SocketHolds, OutageHolds, WireHolds
  <2>2. CommandsHold(c)'
    <3>1. \A i \in DOMAIN conn[c].cmds : conn[c].cmds[i].sub \in Subs
      BY <1>2, QueuedTyped
    <3> QED BY <1>2, <1>4, <1>5, <1>6, <3>1 DEF SocketHolds, CommandsHold
  <2>3. AcksHold(c)'
    BY <1>4, <1>5 DEF AcksHold
  <2>4. GapsHold(c)'
    <3>1. missed \subseteq Subs
      BY <1>2 DEF PoolTyped
    <3>2. \A s \in missed : entry[s].conn # c
      BY <1>1, <1>2, <3>1 DEF SocketHolds, GapsHold, OutageHolds
    <3> QED BY <1>1, <1>6, <3>1, <3>2 DEF GapsHold
  <2>5. /\ K!InSession(c) /\ (K!Closing(conn'[c]) <=> K!Closing(conn[c]))
        /\ \A t : (AckComes(c, t)' <=> AckComes(c, t)) /\ (Settled(c, t)' <=> Settled(c, t))
    BY <1>1, <1>4, <1>5 DEF K!InSession, K!Closing, AckComes, Settled
  <2>6. ServiceHolds(c)'
    BY <1>1, <1>2, <1>3, <1>4, <1>5, <1>6, <2>5 DEF SocketHolds, ServiceHolds
  <2>7. ChargesHold(c)'
    <3>1. \A t \in Subs : Spared(c, t) => Spared(c, t)'
      BY <1>1, <1>3, <1>6, <2>5 DEF Spared
    <3> QED BY <1>2, <1>6, <1>8, <2>5, <3>1 DEF SocketHolds, ChargesHold
  <2> QED BY <2>1, <2>2, <2>3, <2>4, <2>6, <2>7 DEF SocketHolds
<1>12. conn'[c].phase \in Working
  BY <1>4, <1>5 DEF Working
<1> QED BY <1>2, <1>7, <1>9, <1>10, <1>11, <1>12, LocalStep

LEMMA PoolHandleText == ASSUME PoolInv, NEW c \in K!Opened, K!HandleText(c) PROVE PoolInv'
<1>0. PICK f : f = conn[c].wire[1]
  OBVIOUS
<1> DEFINE w == conn[c].wire
           k == [conn[c] EXCEPT !.wire = Tail(w)]
<1>1. /\ conn[c].phase = "up" /\ conn[c].burst = {} /\ w # <<>> /\ conn' = [conn EXCEPT ![c] = k]
      /\ \/ f.kind = "ack" /\ entry' = K!Recorded(c, f.sub)
         \/ f.kind = "data" /\ entry' = entry
      /\ UNCHANGED <<shutdown, told, missed, amended, drops>>
  BY <1>0 DEF K!HandleText, K!Reading
<1>2. /\ c \in K!Conns /\ ~shutdown /\ PoolTyped /\ CausesHold /\ SocketHolds(c) /\ conn[c] \in ConnState
      /\ conn[c].phase \in Working
  BY <1>1, AtWork DEF Working
<1>3. /\ f.sub \in Subs /\ 1 \in DOMAIN w
      /\ Tail(w) \in Seq(WireFrame) /\ Len(w) \in Nat /\ Len(Tail(w)) = Len(w) - 1
      /\ \A i \in DOMAIN Tail(w) : i + 1 \in DOMAIN w /\ Tail(w)[i] = w[i + 1] /\ i \in Nat
      /\ \A i \in DOMAIN w : i # 1 => i - 1 \in DOMAIN Tail(w) /\ Tail(w)[i - 1] = w[i]
  <2>1. Tail(w) \in Seq(WireFrame)
    BY <1>1, <1>2, WireTail
  <2>2. \A i \in DOMAIN Tail(w) : i \in Nat
    BY <2>1
  <2> QED BY <1>0, <1>1, <1>2, <2>2, WireTail
<1>4. /\ k \in ConnState /\ k.phase = "up" /\ k.announcedDown = conn[c].announcedDown
      /\ k.cmds = conn[c].cmds /\ k.burst = {} /\ k.venue = conn[c].venue /\ k.wire = Tail(w)
  BY <1>1, <1>2, <1>3 DEF ConnState
<1> HIDE DEF k
<1>5. conn' \in [K!Conns -> ConnState] /\ conn'[c] = k /\ \A d \in K!Conns \ {c} : conn'[d] = conn[d]
  BY <1>1, <1>2, <1>4, ConnPut
<1>6. /\ WireHolds(c)'
      /\ K!Closing(conn[c]) => K!Closing(conn'[c])
      /\ \A t : AckComes(c, t)' => AckComes(c, t)
      /\ \A t : AckComes(c, t) => AckComes(c, t)' \/ (f.kind = "ack" /\ f.sub = t)
      /\ f.kind = "ack" => AckComes(c, f.sub) /\ f.sub \notin Poison
  <2>1. conn'[c].wire = Tail(w) /\ WireHolds(c)
    BY <1>2, <1>4, <1>5 DEF SocketHolds
  <2>2. WireHolds(c)'
    BY <1>3, <2>1 DEF WireHolds
  <2>3. K!Closing(conn[c]) => K!Closing(conn'[c])
    <3> SUFFICES ASSUME NEW i \in DOMAIN w, w[i].kind = "close"
                 PROVE  \E j \in DOMAIN Tail(w) : Tail(w)[j].kind = "close"
      BY <2>1 DEF K!Closing
    <3>1. i # 1
      BY <1>0, <1>1
    <3> QED BY <1>3, <3>1
  <2>4. \A t : AckComes(c, t)' => AckComes(c, t)
    BY <1>3, <2>1 DEF AckComes
  <2>5. ASSUME NEW t, AckComes(c, t) PROVE AckComes(c, t)' \/ (f.kind = "ack" /\ f.sub = t)
    <3>1. PICK i \in DOMAIN w : w[i].kind = "ack" /\ w[i].sub = t
      BY <2>5 DEF AckComes
    <3>2. CASE i = 1
      BY <1>0, <3>1, <3>2
    <3>3. CASE i # 1
      <4>1. i - 1 \in DOMAIN Tail(w) /\ Tail(w)[i - 1] = w[i]
        BY <1>3, <3>3
      <4> QED BY <2>1, <3>1, <4>1 DEF AckComes
    <3> QED BY <3>2, <3>3
  <2>6. f.kind = "ack" => AckComes(c, f.sub) /\ f.sub \notin Poison
    BY <1>0, <1>3, <2>1 DEF AckComes, WireHolds
  <2> QED BY <2>2, <2>3, <2>4, <2>5, <2>6
<1>7. /\ entry' \in [Subs -> EntryState]
      /\ \A t \in Subs : /\ entry'[t].conn = entry[t].conn /\ entry'[t].quarantine = entry[t].quarantine
                         /\ entry[t].conn # c => entry'[t] = entry[t]
                         /\ entry'[t] # entry[t] => f.kind = "ack" /\ t = f.sub /\ entry'[t].strikes = 0
                         /\ f.kind = "ack" /\ t = f.sub /\ entry[t].conn = c => entry'[t].acked
  <2>1. CASE f.kind = "ack" /\ entry' = K!Recorded(c, f.sub)
    BY <1>2, <1>3, <2>1, RecordedIs
  <2>2. CASE f.kind = "data" /\ entry' = entry
    BY <1>2, <2>2 DEF PoolTyped
  <2> QED BY <1>1, <2>1, <2>2
<1>8. PoolTyped'
  BY <1>1, <1>2, <1>5, <1>7 DEF PoolTyped
<1>9. Cause' = Cause /\ Cause \in Nat
  BY <1>1, <1>2, CauseTyped DEF Cause
<1>10. Local(c)
  BY <1>1, <1>5, <1>7, <1>9 DEF Local
<1>11. RefusedHolds'
  BY <1>6, <1>7 DEF PoolInv, RefusedHolds
<1>12. CausesHold'
  <2>1. \A t \in Subs : /\ entry'[t].strikes = entry[t].strikes \/ entry'[t].strikes = 0
                        /\ entry'[t].quarantine # "none" => entry[t].quarantine # "none"
    BY <1>7
  <2> QED BY <1>2, <1>8, <1>9, <2>1, NobodyCharged
<1>13. SocketHolds(c)'
  <2>1. OutageHolds(c)' /\ AcksHold(c)'
    BY <1>1, <1>2, <1>4, <1>5 DEF SocketHolds, OutageHolds, AcksHold
  <2>2. CommandsHold(c)'
    <3>1. \A i \in DOMAIN conn[c].cmds : conn[c].cmds[i].sub \in Subs
      BY <1>2, QueuedTyped
    <3> QED BY <1>2, <1>4, <1>5, <1>7, <3>1 DEF SocketHolds, CommandsHold
  <2>3. GapsHold(c)'
    <3>1. missed \subseteq Subs
      BY <1>2 DEF PoolTyped
    <3>2. \A s \in missed : entry[s].conn # c
      BY <1>1, <1>2, <3>1 DEF SocketHolds, GapsHold, OutageHolds
    <3> QED BY <1>1, <1>7, <3>1, <3>2 DEF GapsHold
  <2>4. K!InSession(c) /\ \A t : Settled(c, t)' <=> Settled(c, t)
    BY <1>1, <1>4, <1>5 DEF K!InSession, Settled
  <2>5. ServiceHolds(c)'
    <3>1. ServiceHolds(c)
      BY <1>2 DEF SocketHolds
    <3>2. \A t \in Subs : entry'[t].acked \/ AckComes(c, t)' => entry[t].acked \/ AckComes(c, t)
      BY <1>6, <1>7
    <3> QED BY <1>1, <1>4, <1>5, <1>6, <1>7, <2>4, <3>1, <3>2 DEF ServiceHolds
  <2>6. ChargesHold(c)'
    <3>1. ASSUME NEW t \in Subs \ Poison, entry[t].conn = c, Spared(c, t) PROVE Spared(c, t)'
      <4>1. CASE entry'[t] # entry[t]
        BY <1>7, <3>1, <4>1 DEF Spared
      <4>2. CASE entry'[t] = entry[t] /\ (entry[t].acked \/ AckComes(c, t) \/ entry[t].quarantine = "active")
        BY <1>6, <1>7, <3>1, <4>2 DEF Spared
      <4>3. CASE \E p \in Poison \cap Subs : entry[p].conn = c /\ p < t /\ entry[p].quarantine # "active"
        BY <1>7, <4>3 DEF Spared
      <4> QED BY <1>1, <3>1, <4>1, <4>2, <4>3 DEF Spared
    <3>2. ASSUME NEW t \in Subs \ Poison, entry[t].conn = c, ~Spared(c, t)'
          PROVE  entry'[t].strikes + 1 <= Cause \/ QuarantineAfter <= Cause
      <4>1. entry[t].strikes + 1 <= Cause \/ QuarantineAfter <= Cause
        BY <1>2, <2>4, <3>1, <3>2 DEF SocketHolds, ChargesHold
      <4>2. entry'[t] = entry[t]
        BY <1>7, <3>2 DEF Spared
      <4> QED BY <4>1, <4>2
    <3> QED BY <1>7, <1>9, <3>2 DEF ChargesHold
  <2> QED BY <1>6, <2>1, <2>2, <2>3, <2>5, <2>6 DEF SocketHolds
<1>14. conn'[c].phase \in Working
  BY <1>4, <1>5 DEF Working
<1> QED BY <1>2, <1>8, <1>10, <1>11, <1>12, <1>13, <1>14, LocalStep

-----------------------------------------------------------------------------
(* The end of a session *)

(* Who a failed session charges *)
Charged(c, strike) ==
  IF strike /\ ~conn[c].announcedDown /\ K!Suspects(c) # {} THEN {K!First(K!Suspects(c))} ELSE {}

LEMMA StruckIs ==
  ASSUME PoolTyped, NEW U \in SUBSET Subs
  PROVE  /\ K!Struck(entry, U) \in [Subs -> EntryState]
         /\ \A t \in Subs :
              /\ K!Struck(entry, U)[t].conn = entry[t].conn /\ K!Struck(entry, U)[t].acked = entry[t].acked
              /\ U = {} \/ t # K!First(U) => K!Struck(entry, U)[t] = entry[t]
              /\ K!Struck(entry, U)[t].strikes <= entry[t].strikes + 1
              /\ \/ K!Struck(entry, U)[t].quarantine = entry[t].quarantine
                 \/ QuarantineAfter <= entry[t].strikes + 1
<1>1. entry \in [Subs -> EntryState]
  BY DEF PoolTyped
<1>2. \A t \in Subs : entry[t].strikes \in Nat
  BY StrikesCounted
<1>3. CASE U = {}
  BY <1>1, <1>2, <1>3 DEF K!Struck
<1>4. CASE U # {}
  <2>0. PICK s : s = K!First(U)
    OBVIOUS
  <2>1. s \in Subs
    BY <1>4, <2>0, FirstIs, PoolAssumption
  <2> DEFINE n == entry[s].strikes + 1
             strikes == IF n > QuarantineAfter THEN QuarantineAfter ELSE n
             mark == IF n >= QuarantineAfter THEN "active" ELSE entry[s].quarantine
             e == [entry[s] EXCEPT !.strikes = strikes, !.quarantine = mark]
  <2>2. entry[s] \in EntryState /\ entry[s].strikes \in 0..QuarantineAfter
        /\ entry[s].quarantine \in {"none", "active", "lapsed"}
    BY <1>1, <2>1, EntryFields
  <2>3. /\ strikes \in 0..QuarantineAfter /\ mark \in {"none", "active", "lapsed"}
        /\ strikes <= entry[s].strikes + 1
        /\ mark = entry[s].quarantine \/ QuarantineAfter <= entry[s].strikes + 1
    BY <2>2, PoolAssumption
  <2>4. K!Struck(entry, U) = [entry EXCEPT ![s] = e]
    <3>1. K!Struck(entry, U) = K!StrikeOn(entry, s)
      BY <1>4, <2>0 DEF K!Struck
    <3>2. K!StrikeOn(entry, s) = [entry EXCEPT ![s].strikes = strikes, ![s].quarantine = mark]
      BY DEF K!StrikeOn
    <3> HIDE DEF strikes, mark
    <3> QED BY <1>1, <2>2, <3>1, <3>2
  <2> HIDE DEF n, strikes, mark
  <2>5. e \in EntryState /\ e.strikes = strikes /\ e.quarantine = mark /\ e.conn = entry[s].conn /\ e.acked = entry[s].acked
    BY <2>2, <2>3 DEF EntryState
  <2> HIDE DEF e
  <2>6. K!Struck(entry, U) \in [Subs -> EntryState] /\ K!Struck(entry, U)[s] = e
        /\ \A t \in Subs : t # s => K!Struck(entry, U)[t] = entry[t]
    BY <1>1, <2>1, <2>4, <2>5
  <2>7. ASSUME NEW t \in Subs
        PROVE  /\ K!Struck(entry, U)[t].conn = entry[t].conn /\ K!Struck(entry, U)[t].acked = entry[t].acked
               /\ U = {} \/ t # s => K!Struck(entry, U)[t] = entry[t]
               /\ K!Struck(entry, U)[t].strikes <= entry[t].strikes + 1
               /\ \/ K!Struck(entry, U)[t].quarantine = entry[t].quarantine
                  \/ QuarantineAfter <= entry[t].strikes + 1
    <3>1. CASE t = s
      BY <1>4, <2>3, <2>5, <2>6, <3>1
    <3>2. CASE t # s
      BY <1>2, <2>6, <3>2
    <3> QED BY <3>1, <3>2
  <2> QED BY <2>0, <2>6, <2>7
<1> QED BY <1>3, <1>4

(* What a report of an outage does: to the task, *)
TaskFails(c) ==
  \E k \in ConnState :
    /\ conn' = [conn EXCEPT ![c] = k]
    /\ k.phase = "backoff" /\ k.announcedDown /\ k.wire = <<>> /\ k.cmds = conn[c].cmds

(* to an entry, *)
EntryFails(c, strike, t) ==
  /\ entry'[t].conn = entry[t].conn
  /\ entry'[t].acked => entry[t].acked /\ entry[t].conn # c
  /\ entry[t].conn # c => entry'[t] = entry[t]
  /\ entry'[t].strikes <= entry[t].strikes + 1
  /\ entry'[t].quarantine = entry[t].quarantine \/ QuarantineAfter <= entry[t].strikes + 1
  /\ t \notin Charged(c, strike) =>
       entry'[t].strikes = entry[t].strikes /\ entry'[t].quarantine = entry[t].quarantine

(* and to all of it *)
LEMMA ReportDownIs ==
  ASSUME PoolInv, NEW c \in K!Opened, conn[c].phase \in Working, NEW strike \in BOOLEAN, K!ReportDown(c, strike)
  PROVE  /\ TaskFails(c)
         /\ told' \in [K!Conns -> {"none", "up", "down"}] /\ told'[c] = "down"
         /\ \A d \in K!Conns \ {c} : told'[d] = told[d]
         /\ entry' \in [Subs -> EntryState] /\ \A t \in Subs : EntryFails(c, strike, t)
         /\ missed' \subseteq Subs
         /\ \A t \in missed' : entry'[t].quarantine # "active" /\ (t \in missed \/ entry[t].conn = c)
<1>1. /\ c \in K!Conns /\ ~shutdown /\ PoolTyped /\ SocketHolds(c) /\ conn[c] \in ConnState
  BY AtWork
<1>2. told \in [K!Conns -> {"none", "up", "down"}] /\ entry \in [Subs -> EntryState] /\ missed \subseteq Subs
  BY <1>1 DEF PoolTyped
<1>3. /\ missed' \subseteq Subs
      /\ \A t \in missed' : entry'[t].quarantine # "active" /\ (t \in missed \/ entry[t].conn = c)
  BY <1>2 DEF K!ReportDown, K!Held
<1>4. \A t \in Subs : entry[t].strikes \in Nat
  BY <1>1, StrikesCounted
<1>5. <<>> \in Seq(WireFrame)
  OBVIOUS
<1> DEFINE dead == [conn[c] EXCEPT !.phase = "backoff", !.venue = {}, !.wire = <<>>, !.burst = {}]
<1>6. /\ dead \in ConnState /\ dead.phase = "backoff" /\ dead.announcedDown = conn[c].announcedDown
      /\ dead.wire = <<>> /\ dead.cmds = conn[c].cmds
  BY <1>1, <1>5 DEF ConnState, Working
<1>7. K!Dead(conn[c]) = dead
  BY DEF K!Dead
<1> HIDE DEF dead
<1>8. CASE conn[c].announcedDown
  <2>1. conn' = [conn EXCEPT ![c] = dead] /\ entry' = entry /\ told' = told
    BY <1>7, <1>8 DEF K!ReportDown
  <2>2. told[c] = "down" /\ \A t \in Subs : entry[t].conn = c => ~entry[t].acked
    BY <1>1, <1>8 DEF SocketHolds, OutageHolds, AcksHold
  <2>3. TaskFails(c)
    BY <1>6, <1>8, <2>1 DEF TaskFails
  <2>4. \A t \in Subs : EntryFails(c, strike, t)
    BY <1>4, <2>1, <2>2 DEF EntryFails
  <2> QED BY <1>2, <1>3, <2>1, <2>2, <2>3, <2>4
<1>9. CASE ~conn[c].announcedDown
  <2> DEFINE k == [dead EXCEPT !.announcedDown = TRUE, !.connected = FALSE]
             e == IF strike THEN K!Struck(entry, K!Suspects(c)) ELSE entry
  <2>1. /\ conn' = [conn EXCEPT ![c] = k] /\ told' = [told EXCEPT ![c] = "down"]
        /\ entry' = K!AcksCleared(e, c)
    BY <1>7, <1>9 DEF K!ReportDown
  <2>2. k \in ConnState /\ k.phase = "backoff" /\ k.announcedDown /\ k.wire = <<>> /\ k.cmds = conn[c].cmds
    BY <1>6 DEF ConnState
  <2> HIDE DEF k
  <2>3. told' \in [K!Conns -> {"none", "up", "down"}] /\ told'[c] = "down"
        /\ \A d \in K!Conns \ {c} : told'[d] = told[d]
    BY <1>1, <1>2, <2>1
  <2>4. K!Suspects(c) \in SUBSET Subs /\ \A t \in K!Suspects(c) : entry[t].conn = c
    BY DEF K!Suspects, K!Held
  <2>5. /\ e \in [Subs -> EntryState]
        /\ \A t \in Subs : /\ e[t].conn = entry[t].conn /\ e[t].acked = entry[t].acked
                           /\ t \notin Charged(c, strike) => e[t] = entry[t]
                           /\ e[t].strikes <= entry[t].strikes + 1
                           /\ \/ e[t].quarantine = entry[t].quarantine
                              \/ QuarantineAfter <= entry[t].strikes + 1
    <3>1. CASE strike
      BY <1>1, <1>9, <2>4, <3>1, StruckIs DEF Charged
    <3>2. CASE ~strike
      BY <1>2, <1>4, <3>2
    <3> QED BY <3>1, <3>2
  <2>6. \A t \in Charged(c, strike) : entry[t].conn = c
    <3>1. K!Suspects(c) # {} => K!First(K!Suspects(c)) \in K!Suspects(c)
      BY <2>4, FirstIs, PoolAssumption
    <3> QED BY <2>4, <3>1 DEF Charged
  <2> HIDE DEF e
  <2>7. /\ entry' \in [Subs -> EntryState]
        /\ \A t \in Subs : /\ entry'[t].conn = e[t].conn /\ entry'[t].strikes = e[t].strikes
                           /\ entry'[t].quarantine = e[t].quarantine
                           /\ entry'[t].acked => e[t].acked /\ e[t].conn # c
                           /\ e[t].conn # c => entry'[t] = e[t]
    BY <2>1, <2>5, AcksClearedIs
  <2>8. \A t \in Subs : entry[t].conn # c => entry'[t] = entry[t]
    BY <2>5, <2>6, <2>7
  <2>9. TaskFails(c)
    BY <2>1, <2>2 DEF TaskFails
  <2>10. \A t \in Subs : EntryFails(c, strike, t)
    BY <2>5, <2>7, <2>8 DEF EntryFails
  <2> QED BY <1>3, <2>3, <2>7, <2>9, <2>10
<1> QED BY <1>8, <1>9

(* What is left to show of the end of a session: who it charges, it may. *)
LEMMA DownStep ==
  ASSUME PoolInv, NEW c \in K!Opened, conn[c].phase \in Working, NEW strike \in BOOLEAN, K!ReportDown(c, strike),
         shutdown' = shutdown, amended' = amended, drops' \in Nat, drops <= drops',
         \A t \in Charged(c, strike) \ Poison : entry[t].strikes + 1 <= Cause' \/ QuarantineAfter <= Cause'
  PROVE  PoolInv'
<1>1. /\ c \in K!Conns /\ ~shutdown /\ PoolTyped /\ CausesHold /\ SocketHolds(c) /\ conn[c] \in ConnState
  BY AtWork
<1>2. PICK k \in ConnState :
        /\ conn' = [conn EXCEPT ![c] = k]
        /\ k.phase = "backoff" /\ k.announcedDown /\ k.wire = <<>> /\ k.cmds = conn[c].cmds
  BY ReportDownIs DEF TaskFails
<1>3. /\ told' \in [K!Conns -> {"none", "up", "down"}] /\ told'[c] = "down"
      /\ \A d \in K!Conns \ {c} : told'[d] = told[d]
      /\ entry' \in [Subs -> EntryState] /\ \A t \in Subs : EntryFails(c, strike, t)
      /\ missed' \subseteq Subs
      /\ \A t \in missed' : entry'[t].quarantine # "active" /\ (t \in missed \/ entry[t].conn = c)
  BY ReportDownIs
<1>4. conn' \in [K!Conns -> ConnState] /\ conn'[c] = k /\ \A d \in K!Conns \ {c} : conn'[d] = conn[d]
  BY <1>1, <1>2, ConnPut
<1>5. PoolTyped'
  <2>1. amended' \in Nat /\ shutdown' \in BOOLEAN
    BY <1>1 DEF PoolTyped
  <2> QED BY <1>3, <1>4, <2>1 DEF PoolTyped
<1>6. Cause <= Cause'
  <2>1. drops \in Nat /\ amended \in Nat
    BY <1>1 DEF PoolTyped
  <2>2. Cause' = drops' + amended
    BY DEF Cause
  <2> QED BY <2>1, <2>2 DEF Cause
<1>7. Local(c)
  BY <1>3, <1>4, <1>6 DEF Local, EntryFails
<1>8. RefusedHolds'
  BY <1>3 DEF PoolInv, RefusedHolds, EntryFails
<1>9. CausesHold'
  <2> SUFFICES ASSUME NEW t \in Subs \ Poison
               PROVE  /\ entry'[t].strikes <= Cause'
                      /\ entry'[t].quarantine # "none" => QuarantineAfter <= Cause'
    BY DEF CausesHold
  <2>1. Cause \in Nat /\ Cause' \in Nat /\ QuarantineAfter \in Nat
    BY <1>1, <1>5, CauseCounted, PoolAssumption
  <2>2. entry[t].strikes \in Nat /\ entry'[t].strikes \in 0..QuarantineAfter
    <3>1. entry'[t] \in EntryState
      BY <1>3
    <3> QED BY <1>1, <3>1, StrikesCounted, EntryFields
  <2>3. entry[t].strikes <= Cause /\ (entry[t].quarantine # "none" => QuarantineAfter <= Cause)
    BY <1>1 DEF CausesHold
  <2>4. EntryFails(c, strike, t)
    BY <1>3
  <2>5. CASE t \in Charged(c, strike)
    <3>1. entry[t].strikes + 1 <= Cause' \/ QuarantineAfter <= Cause'
      BY <2>5
    <3>2. /\ entry'[t].strikes <= entry[t].strikes + 1
          /\ entry'[t].quarantine = entry[t].quarantine \/ QuarantineAfter <= entry[t].strikes + 1
      BY <2>4 DEF EntryFails
    <3> QED BY <1>6, <2>1, <2>2, <2>3, <3>1, <3>2
  <2>6. CASE t \notin Charged(c, strike)
    <3>1. entry'[t].strikes = entry[t].strikes /\ entry'[t].quarantine = entry[t].quarantine
      BY <2>4, <2>6 DEF EntryFails
    <3> QED BY <1>6, <2>1, <2>2, <2>3, <3>1
  <2> QED BY <2>5, <2>6
<1>10. SocketHolds(c)'
  <2>1. OutageHolds(c)' /\ WireHolds(c)'
    BY <1>2, <1>3, <1>4 DEF OutageHolds, WireHolds
  <2>2. CommandsHold(c)'
    <3>1. \A i \in DOMAIN conn[c].cmds : conn[c].cmds[i].sub \in Subs
      BY <1>1, QueuedTyped
    <3>2. \A t \in Subs : entry'[t].conn = entry[t].conn
      BY <1>3 DEF EntryFails
    <3> QED BY <1>1, <1>2, <1>4, <3>1, <3>2 DEF SocketHolds, CommandsHold
  <2>3. AcksHold(c)'
    BY <1>3 DEF AcksHold, EntryFails
  <2>4. ServiceHolds(c)' /\ ChargesHold(c)'
    BY <1>2, <1>4 DEF ServiceHolds, ChargesHold, K!InSession
  <2>5. GapsHold(c)'
    BY <1>2, <1>3, <1>4 DEF GapsHold
  <2> QED BY <2>1, <2>2, <2>3, <2>4, <2>5 DEF SocketHolds
<1>11. conn'[c].phase \in Working
  BY <1>2, <1>4 DEF Working
<1> QED BY <1>1, <1>5, <1>7, <1>8, <1>9, <1>10, <1>11, LocalStep

LEMMA PoolConnectFails == ASSUME PoolInv, NEW c \in K!Opened, K!ConnectFails(c) PROVE PoolInv'
<1>0. PICK strike : strike = FALSE
  OBVIOUS
<1>1. /\ conn[c].phase \in Working /\ K!ReportDown(c, strike) /\ drops' = drops + 1
      /\ UNCHANGED <<shutdown, amended>>
  BY <1>0 DEF K!ConnectFails, Working
<1>2. drops \in Nat
  BY DEF PoolInv, PoolTyped
<1>3. strike \in BOOLEAN /\ Charged(c, strike) = {}
  BY <1>0 DEF Charged
<1> QED BY <1>1, <1>2, <1>3, DownStep

LEMMA PoolDrop == ASSUME PoolInv, NEW c \in K!Opened, K!Drop(c) PROVE PoolInv'
<1>0. PICK strike : strike = ~conn[c].proved
  OBVIOUS
<1>1. /\ conn[c].phase \in Working /\ K!ReportDown(c, strike) /\ drops' = drops + 1
      /\ UNCHANGED <<shutdown, amended>>
  BY <1>0 DEF K!Drop, Working
<1>2. PoolTyped /\ CausesHold /\ drops \in Nat /\ amended \in Nat
  BY DEF PoolInv, PoolTyped
<1>3. strike \in BOOLEAN /\ Charged(c, strike) \subseteq Subs
  <2>1. K!Suspects(c) \in SUBSET Subs
    BY DEF K!Suspects, K!Held
  <2>2. K!Suspects(c) # {} => K!First(K!Suspects(c)) \in Subs
    BY <2>1, FirstIs, PoolAssumption
  <2> QED BY <1>0, <2>2 DEF Charged
<1>4. ASSUME NEW t \in Charged(c, strike) \ Poison PROVE entry[t].strikes + 1 <= Cause'
  <2>1. entry[t].strikes <= Cause /\ entry[t].strikes \in Nat
    BY <1>2, <1>3, StrikesCounted DEF CausesHold
  <2>2. Cause' = Cause + 1 /\ Cause \in Nat
    BY <1>1, <1>2, CauseTyped DEF Cause
  <2> QED BY <2>1, <2>2
<1> QED BY <1>1, <1>2, <1>3, <1>4, DownStep

LEMMA PoolServerCloses == ASSUME PoolInv, NEW c \in K!Opened, K!ServerCloses(c) PROVE PoolInv'
<1>0. PICK strike : strike = ~conn[c].proved
  OBVIOUS
<1>1. /\ conn[c].phase = "up" /\ conn[c].burst = {} /\ conn[c].wire # <<>> /\ conn[c].wire[1].kind = "close"
      /\ K!ReportDown(c, strike) /\ UNCHANGED <<shutdown, amended, drops>>
  BY <1>0 DEF K!ServerCloses, K!Reading
<1>2. /\ c \in K!Conns /\ PoolTyped /\ RefusedHolds /\ SocketHolds(c) /\ conn[c].phase \in Working
      /\ conn[c].wire \in Seq(WireFrame) /\ drops \in Nat /\ strike \in BOOLEAN
  <2>1. conn[c].phase \in Working
    BY <1>1 DEF Working
  <2> QED BY <1>0, <2>1, AtWork, ConnFields DEF PoolInv, PoolTyped
<1>3. \A t : ~AckComes(c, t)
  <2>1. 1 \in DOMAIN conn[c].wire /\ DOMAIN conn[c].wire = 1..Len(conn[c].wire)
    BY <1>1, <1>2
  <2>2. Len(conn[c].wire) = 1
    BY <1>1, <1>2, <2>1 DEF SocketHolds, WireHolds
  <2> QED BY <1>1, <2>1, <2>2 DEF AckComes
<1>4. /\ K!Suspects(c) \in SUBSET Subs
      /\ \A t \in Subs : t \in K!Suspects(c) <=>
            entry[t].conn = c /\ ~entry[t].acked /\ entry[t].quarantine # "active"
  BY DEF K!Suspects, K!Held, K!QuarantinedNow
<1>5. Cause' = Cause
  BY <1>1 DEF Cause
<1>6. ASSUME NEW t \in Charged(c, strike) \ Poison
      PROVE  entry[t].strikes + 1 <= Cause' \/ QuarantineAfter <= Cause'
  <2>1. t \in K!Suspects(c) /\ \A p \in K!Suspects(c) : t <= p
    BY <1>4, FirstIs, PoolAssumption DEF Charged
  <2>2. t \in Subs /\ t \in Nat /\ entry[t].conn = c /\ ~entry[t].acked /\ entry[t].quarantine # "active"
    BY <1>4, <2>1, PoolAssumption
  <2>3. ASSUME NEW p \in Poison \cap Subs, entry[p].conn = c, entry[p].quarantine # "active" PROVE ~(p < t)
    <3>1. p \in K!Suspects(c) /\ p \in Nat
      BY <1>2, <1>4, <2>3, PoolAssumption DEF RefusedHolds
    <3> QED BY <2>1, <2>2, <3>1
  <2>4. ~Spared(c, t)
    BY <1>1, <1>3, <2>2, <2>3 DEF Spared
  <2>5. K!InSession(c) /\ ChargesHold(c)
    BY <1>1, <1>2 DEF K!InSession, SocketHolds
  <2> QED BY <1>5, <2>2, <2>4, <2>5 DEF ChargesHold
<1> QED BY <1>1, <1>2, <1>6, DownStep

-----------------------------------------------------------------------------
LEMMA PoolStep == ASSUME PoolInv, K!Next PROVE PoolInv'
<1>1. ASSUME NEW s \in Subs, K!SubscribeTo(s) \/ K!Unsubscribe(s) \/ K!ClearQuarantine(s) \/ K!Lapse(s)
      PROVE  PoolInv'
  BY <1>1, PoolSubscribeOld, PoolSubscribeNew, PoolUnsubscribe, PoolClear, PoolLapse
<1>2. ASSUME NEW c \in K!Opened, K!Task(c) PROVE PoolInv'
  BY <1>2, PoolConnect, PoolSendBurst, PoolSubscribed, PoolBackoffEnds, PoolCommand, PoolPingTick,
     PoolHandleText, PoolServerCloses, PoolLateAck DEF K!Task
<1>3. ASSUME NEW c \in K!Opened, K!ConnectFails(c) \/ K!Drop(c) \/ K!Prove(c) PROVE PoolInv'
  BY <1>3, PoolConnectFails, PoolDrop, PoolProve
<1>4. ASSUME NEW c \in K!Opened, NEW s \in Exclusive, K!VenueSends(c, s) PROVE PoolInv'
  BY <1>4, PoolVenueSends
<1>5. ASSUME K!Shutdown PROVE PoolInv'
  BY <1>5, PoolShutdown
<1> QED BY <1>1, <1>2, <1>3, <1>4, <1>5 DEF K!Next

LEMMA PoolInit == K!Init => PoolInv
<1> SUFFICES ASSUME K!Init PROVE PoolInv
  OBVIOUS
<1> DEFINE e == K!NewEntry(K!NoConn)
           k == [K!NewConn EXCEPT !.phase = "none"]
<1>1. /\ entry = [s \in Subs |-> e] /\ conn = [c \in K!Conns |-> k]
      /\ shutdown = FALSE /\ told = [c \in K!Conns |-> "none"] /\ missed = {}
      /\ amended = 0 /\ drops = 0
  BY DEF K!Init
<1>2. e \in EntryState /\ e.conn = 0 /\ ~e.acked /\ e.strikes = 0 /\ e.quarantine = "none"
  <2>1. 0 \in 0..MaxConns /\ K!NoConn = 0
    BY PoolAssumption DEF K!NoConn
  <2> QED BY <2>1, NewEntryTyped
<1>3. k \in ConnState /\ k.phase = "none"
  BY NewConnIs DEF ConnState
<1> HIDE DEF e, k
<1>4. PoolTyped
  BY <1>1, <1>2, <1>3 DEF PoolTyped
<1>5. K!Opened = {} /\ K!Registered = {}
  BY <1>1, <1>2, <1>3 DEF K!Opened, K!Registered, K!NoConn
<1>6. SlotsHold
  <2>1. 0 \in 0..MaxConns /\ K!Opened = 1..0
    BY <1>5, PoolAssumption
  <2> QED BY <1>1, <1>5, <2>1 DEF SlotsHold
<1>7. ShutdownHolds /\ RefusedHolds
  BY <1>1, <1>2, <1>5 DEF ShutdownHolds, RefusedHolds
<1>8. CausesHold
  BY <1>1, <1>2 DEF CausesHold, Cause
<1> QED BY <1>4, <1>5, <1>6, <1>7, <1>8 DEF PoolInv

LEMMA PoolKept == PoolInv /\ UNCHANGED poolVars => PoolInv'
<1> SUFFICES ASSUME PoolInv, UNCHANGED poolVars PROVE PoolInv'
  OBVIOUS
<1>1. /\ UNCHANGED <<entry, conn, shutdown, told, missed, amended, drops>>
      /\ PoolTyped' /\ K!Opened' = K!Opened /\ K!Registered' = K!Registered /\ Cause' = Cause
  BY DEF poolVars, PoolInv, PoolTyped, K!Opened, K!Registered, Cause
<1>2. SlotsHold' /\ ShutdownHolds' /\ RefusedHolds' /\ CausesHold'
  BY <1>1 DEF PoolInv, SlotsHold, ShutdownHolds, RefusedHolds, CausesHold
<1>3. Elsewhere(0)
  BY <1>1, CauseTyped DEF PoolInv, Elsewhere
<1>4. \A c \in K!Opened : SocketHolds(c)'
  BY <1>1, <1>3, ElsewhereKept, ConnsCounted DEF PoolInv, K!Opened
<1> QED BY <1>1, <1>2, <1>4 DEF PoolInv

(* For any subscriptions, sockets and bounds: slots open in order, the last *)
(* queued command on a subscription is the registry's word on it, only a    *)
(* session beyond its burst has acks, and every strike on a subscription    *)
(* the venue accepts has its cause (subscribe_to, connection_task, session, *)
(* record_failed_session of ws.rs).                                         *)
THEOREM PoolInvariant == Spec => []PoolInv
<1>1. Init => PoolInv
  BY PoolInit DEF Init
<1>2. PoolInv /\ [Next]_<<focus, poolVars, gatewayVars, registryVars, supervisionVars>> => PoolInv'
  BY PoolStep, PoolKept DEF Next
<1> QED BY <1>1, <1>2, PTL DEF Spec

(* For any subscriptions, sockets and bounds: a feed called fresh is        *)
(* served, a settled session serves the registry and nothing else, the      *)
(* venue's refusals alone quarantine nothing it accepts, a gap is told      *)
(* before its feed is fresh again, and outages are announced and answered   *)
(* in turn (stale_feeds, session, record_failed_session, report_disconnect, *)
(* announce_down of ws.rs).                                                 *)
THEOREM PoolIsSound == Spec => []PoolSound
<1>1. PoolInv => PoolSound
  <2> SUFFICES ASSUME PoolInv PROVE K!PoolSound
    BY DEF PoolSound
  <2>1. PoolTyped /\ SlotsHold /\ ShutdownHolds /\ CausesHold /\ \A c \in K!Opened : SocketHolds(c)
    BY DEF PoolInv
  <2>2. \A s \in K!Registered : s \in Subs /\ entry[s].conn \in K!Opened /\ entry[s].conn \in K!Conns
    BY <2>1 DEF SlotsHold, K!Registered, K!Opened
  <2>3. ASSUME NEW s \in Subs, K!Fresh(s)
        PROVE  /\ entry[s].conn \in K!Opened /\ ~shutdown /\ conn[entry[s].conn].phase = "up"
               /\ entry[s].acked
    <3>1. s \in K!Registered /\ entry[s].acked /\ conn[entry[s].conn].connected
      BY <2>3 DEF K!Fresh
    <3>2. ~shutdown
      BY <2>1, <2>2, <3>1 DEF ShutdownHolds
    <3> QED BY <2>1, <2>2, <3>1, <3>2 DEF SocketHolds, AcksHold
  <2>4. K!FreshMeansServed
    <3> SUFFICES ASSUME NEW s \in Subs, K!Fresh(s), NEW c, c = entry[s].conn
                 PROVE  /\ conn[c].phase = "up"
                        /\ s \in conn[c].venue \/ K!Pending(c, s) \/ K!Closing(conn[c])
      BY DEF K!FreshMeansServed
    <3>1. c \in K!Opened /\ c \in K!Conns /\ conn[c].phase = "up" /\ entry[s].acked /\ SocketHolds(c)
      BY <2>1, <2>3 DEF K!Opened
    <3>2. CASE Settled(c, s)
      BY <3>1, <3>2 DEF SocketHolds, ServiceHolds, K!InSession
    <3>3. CASE ~Settled(c, s)
      <4>1. conn[c].cmds \in Seq(SubCommand)
        BY <2>1, <3>1, PoolFields, ConnFields
      <4>2. PICK i \in DOMAIN conn[c].cmds :
              conn[c].cmds[i].sub = s /\ \A j \in DOMAIN conn[c].cmds : j > i => conn[c].cmds[j].sub # s
        <5>1. \E i \in DOMAIN conn[c].cmds : conn[c].cmds[i].sub = s
          BY <3>3 DEF Settled
        <5> QED BY ONLY <4>1, <5>1, LastOne
      <4>3. conn[c].cmds[i].cmd = "subscribe"
        BY <3>1, <4>2 DEF SocketHolds, CommandsHold
      <4>4. conn[c].cmds[i] \in SubCommand
        BY <4>1, <4>2
      <4>5. conn[c].cmds[i] = [cmd |-> "subscribe", sub |-> s]
        BY <4>2, <4>3, <4>4 DEF SubCommand
      <4> QED BY <3>1, <4>2, <4>5 DEF K!Pending
    <3> QED BY <3>1, <3>2, <3>3
  <2>5. K!SettledServesRegistry
    <3> SUFFICES ASSUME NEW c \in K!Opened, K!Reading(c), conn[c].cmds = <<>>, ~K!Closing(conn[c])
                 PROVE  /\ conn[c].venue \subseteq K!Held(c)
                        /\ {s \in K!Held(c) : entry[s].quarantine = "none"} \subseteq conn[c].venue
      BY DEF K!SettledServesRegistry
    <3>1. conn[c] \in ConnState /\ ServiceHolds(c)
      BY <2>1, PoolFields DEF SocketHolds, K!Opened
    <3>2. conn[c].venue \subseteq Subs
      BY <3>1, ConnFields
    <3>3. /\ conn[c].burst = {} /\ K!InSession(c) /\ \A s : Settled(c, s)
      BY DEF K!Reading, K!InSession, Settled
    <3> QED BY <3>1, <3>2, <3>3 DEF ServiceHolds, K!Held
  <2>6. K!StrikesHaveCause
    <3>1. Cause \in Nat /\ QuarantineAfter \in Nat
      BY <2>1, CauseTyped, PoolAssumption
    <3> QED BY <2>1, <3>1 DEF CausesHold, K!StrikesHaveCause, Cause
  <2>7. K!FreshAfterGapTold
    <3> SUFFICES ASSUME NEW s \in missed, K!Fresh(s) PROVE FALSE
      BY DEF K!FreshAfterGapTold
    <3>1. s \in Subs
      BY <2>1 DEF PoolTyped
    <3> QED BY <2>1, <2>3, <3>1 DEF SocketHolds, GapsHold, OutageHolds
  <2>8. K!OutagesAnswered
    BY <2>1 DEF K!OutagesAnswered, SocketHolds, OutageHolds
  <2> QED BY <2>4, <2>5, <2>6, <2>7, <2>8 DEF K!PoolSound
<1> QED BY <1>1, PoolInvariant, PTL

====
