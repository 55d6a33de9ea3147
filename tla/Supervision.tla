----------------------------- MODULE Supervision -----------------------------
(***************************************************************************)
(* The desktop's supervision of one agent: the cancellation sweeps of      *)
(* server.rs and tools.rs, the operator's HALT (operator_halt.rs), reviewed *)
(* release (operator_release.rs) and activation (operator_activation.rs),  *)
(* and the runtime that owns and drains them (mcp_runtime.rs).             *)
(*                                                                         *)
(* The engine is what PolicyEngine makes of it, for the one agent: an      *)
(* effective and a durable kill, an acknowledged policy, and the stop      *)
(* generation, which is only ever compared with one recorded earlier:      *)
(* `current` holds the records it still equals.  The venue's book holds    *)
(* the agent's orders.  Texts, timestamps, displayed phases, the receipt   *)
(* kept of a superseded HALT and the approval queue (Approvals) are left   *)
(* out; a task is the steps between two awaits.                            *)
(***************************************************************************)
EXTENDS Integers, Sequences, FiniteSets

CONSTANTS
    Orders,      \* the agent's orders; one that ended may be placed again
    MaxRequests, \* bound on HALTs, reviews and sweeps the interval starts, together
    MaxFaults,   \* bound on failed reads, writes, workers and tasks
    MaxEvents    \* bound on both

VARIABLES
    engine,      \* the guardrail engine and its journal
    order,       \* each order at the venue
    queue,       \* who holds the account's execution queue
    sup,         \* the supervisor and its sweep
    halt,        \* HaltControl: admission, status and the chain of its workers
    release,     \* ReleaseControl
    activation,  \* ActivationControl
    runtime,     \* the owner's shutdown
    committed,   \* release operations in the ledger
    requests,
    faults,
    lifted       \* history: a release committed since the last HALT

vars == <<engine, order, queue, sup, halt, release, activation, runtime, committed, requests, faults, lifted>>

None == 0

Init ==
    /\ engine = [kill |-> FALSE, durable |-> FALSE, acked |-> TRUE, current |-> {}]
    /\ order = [o \in Orders |-> "none"]
    /\ queue = "free"
    /\ sup = [alive |-> TRUE, started |-> 0, completed |-> 0, error |-> FALSE, wake |-> FALSE,
              step |-> "idle", targets |-> {}]
    /\ halt = [closed |-> FALSE, requested |-> FALSE, baseline |-> -1, phase |-> "idle",
               cancellation |-> "not_requested", released |-> FALSE, chain |-> <<>>]
    /\ release = [closed |-> FALSE, task |-> "none", review |-> None, op |-> None,
                  recovery |-> FALSE, unresolved |-> None, terminal |-> {}, absent |-> {}, reviews |-> 0]
    /\ activation = [closed |-> FALSE, task |-> "none", review |-> FALSE, uncertain |-> FALSE]
    /\ runtime = [stop |-> FALSE, phase |-> "listening", failed |-> FALSE]
    /\ committed = {} /\ requests = 0 /\ faults = 0 /\ lifted = FALSE

Within == requests + faults < MaxEvents
Fault == Within /\ faults < MaxFaults /\ faults' = faults + 1
Request == Within /\ requests < MaxRequests /\ requests' = requests + 1

-----------------------------------------------------------------------------
(* The engine, and the orders it lets out.                                  *)

CancellationNeeded == engine.kill \/ ~engine.acked

\* EngineState::inhibit: the next stop generation, nothing acknowledged.
Inhibited == [engine EXCEPT !.acked = FALSE, !.current = {}]

\* Any other process or breaker that makes the policy unusable.
Inhibit ==
    /\ engine.acked /\ Fault
    /\ engine' = Inhibited
    /\ UNCHANGED <<order, queue, sup, halt, release, activation, runtime, committed, requests, lifted>>

\* place: reserved, evaluated, signed and handed over under the queue.
Post(o) ==
    /\ queue = "free" /\ ~CancellationNeeded /\ sup.alive
    /\ order[o] = "none"
    /\ order' = [order EXCEPT ![o] = "posting"]
    /\ queue' = "order"
    /\ UNCHANGED <<engine, sup, halt, release, activation, runtime, committed, requests, faults, lifted>>

\* The answer: resting, ended, or nothing before the client's timeout, in
\* which case the order may still arrive.
Answer(o) ==
    /\ order[o] = "posting"
    /\ \/ order' = [order EXCEPT ![o] = "resting"] /\ UNCHANGED faults
       \/ order' = [order EXCEPT ![o] = "none"] /\ UNCHANGED faults
       \/ order' = [order EXCEPT ![o] = "lost"] /\ Fault
    /\ queue' = "free"
    /\ UNCHANGED <<engine, sup, halt, release, activation, runtime, committed, requests, lifted>>

Arrive(o) ==
    /\ order[o] = "lost"
    /\ order' = [order EXCEPT ![o] = "late"]
    /\ UNCHANGED <<engine, queue, sup, halt, release, activation, runtime, committed, requests, faults, lifted>>

Fill(o) ==
    /\ order[o] \in {"resting", "late"}
    /\ order' = [order EXCEPT ![o] = "none"]
    /\ UNCHANGED <<engine, queue, sup, halt, release, activation, runtime, committed, requests, faults, lifted>>

-----------------------------------------------------------------------------
(* The sweep.                                                               *)

Sweeping(step) == sup.alive /\ sup.step = step

\* next_supervision: the interval, or a wake stored by notify_one.
SweepStart ==
    /\ Sweeping("idle")
    /\ IF sup.wake THEN UNCHANGED requests ELSE Request
    /\ sup' = [sup EXCEPT !.started = @ + 1, !.wake = FALSE, !.step = "refresh"]
    /\ UNCHANGED <<engine, order, queue, halt, release, activation, runtime, committed, faults, lifted>>

Completes(error) == [sup EXCEPT !.completed = sup.started, !.error = error, !.step = "idle", !.targets = {}]
Swept(incomplete) == [sup EXCEPT !.step = IF incomplete THEN "incomplete" ELSE "swept", !.targets = {}]

Releases == IF sup.step \in {"held", "cleared"} THEN "free" ELSE queue

\* finish_supervision after an error: the pairings unreadable, a busy or slow
\* worker, a refused route, an order left uncancelled, ten seconds gone.
SweepFails ==
    /\ sup.alive /\ sup.step # "idle" /\ Fault
    /\ sup' = Completes(TRUE) /\ queue' = Releases
    /\ UNCHANGED <<engine, order, halt, release, activation, runtime, committed, requests, lifted>>

\* enforce_pauses: the policy is observed first; a replay failure inhibits
\* the engine and the cleanup goes on.
Refreshed ==
    /\ Sweeping("refresh")
    /\ \/ UNCHANGED <<engine, faults>>
       \/ Fault /\ engine' = Inhibited
    /\ sup' = [sup EXCEPT !.step = "check"]
    /\ UNCHANGED <<order, queue, halt, release, activation, runtime, committed, requests, lifted>>

\* runtime_cancellation_needed; the pilot may ask for it as well.
Check ==
    /\ Sweeping("check")
    /\ \/ CancellationNeeded /\ sup' = [sup EXCEPT !.step = "queued"]
       \/ ~CancellationNeeded /\ sup' = Swept(FALSE)
    /\ UNCHANGED <<engine, order, queue, halt, release, activation, runtime, committed, requests, faults, lifted>>

LockQueue_NoWait == Sweeping("queued")
LockQueue == Sweeping("queued") /\ queue = "free"

Acquire ==
    /\ LockQueue
    /\ queue' = "sweep" /\ sup' = [sup EXCEPT !.step = "held"]
    /\ UNCHANGED <<engine, order, halt, release, activation, runtime, committed, requests, faults, lifted>>

\* cancel_all_with: needed still, then the open orders as the venue lists them.
ReadOrders ==
    /\ Sweeping("held")
    /\ LET open == {o \in Orders : order[o] \in {"resting", "late"}}
       IN IF ~CancellationNeeded \/ open = {}
          THEN sup' = Swept(FALSE) /\ queue' = "free"
          ELSE sup' = [sup EXCEPT !.step = "cleared", !.targets = open] /\ UNCHANGED queue
    /\ UNCHANGED <<engine, order, halt, release, activation, runtime, committed, requests, faults, lifted>>

\* The cancel is sent if it is needed still; the venue takes every target, or
\* one of them is gone and the sweep is incomplete.
CancelOrders ==
    /\ Sweeping("cleared")
    /\ \/ ~CancellationNeeded /\ sup' = Swept(FALSE) /\ UNCHANGED order
       \/ /\ CancellationNeeded
          /\ sup' = Swept(\E o \in sup.targets : order[o] = "none")
          /\ order' = [o \in Orders |-> IF o \in sup.targets THEN "none" ELSE order[o]]
    /\ queue' = "free"
    /\ UNCHANGED <<engine, halt, release, activation, runtime, committed, requests, faults, lifted>>

\* finish_supervision after the last binding.
SweepEnds ==
    /\ sup.alive /\ sup.step \in {"swept", "incomplete"}
    /\ sup' = Completes(sup.step = "incomplete")
    /\ UNCHANGED <<engine, order, queue, halt, release, activation, runtime, committed, requests, faults, lifted>>

\* The server task ends: with its runtime, or unexpectedly.  A sweep is
\* dropped where it is, and the watch channel closes.
ServerEnds ==
    /\ sup.alive
    /\ \/ runtime.phase = "server" /\ UNCHANGED faults
       \/ Fault
    /\ sup' = [sup EXCEPT !.alive = FALSE, !.step = "idle", !.targets = {}]
    /\ queue' = Releases
    /\ UNCHANGED <<engine, order, halt, release, activation, runtime, committed, requests, lifted>>

-----------------------------------------------------------------------------
(* HALT.                                                                    *)

\* request: the stop is engaged before it returns, and the new worker waits
\* for the ones before it.
RequestHalt ==
    /\ ~halt.closed /\ Request
    /\ engine' = [Inhibited EXCEPT !.kill = TRUE]
    /\ halt' = [halt EXCEPT !.requested = TRUE, !.baseline = -1, !.phase = "persisting",
                            !.cancellation = "not_requested", !.released = FALSE,
                            !.chain = Append(@, "persist")]
    /\ lifted' = FALSE
    /\ UNCHANGED <<order, queue, sup, release, activation, runtime, committed, faults>>

\* The engine's mutation lock, held by a release between its commit and its end.
MutationFree == release.task # "settle"

\* The first worker of the chain runs; the last one is the newest HALT's.
Worker(step) == halt.chain # <<>> /\ Head(halt.chain) = step
Current == Len(halt.chain) = 1

\* execute: the kill is made durable, or may have been; a superseded worker
\* has nothing more to do.
HaltPersist ==
    /\ Worker("persist") /\ MutationFree
    /\ \E ok \in BOOLEAN :
          /\ IF ok THEN UNCHANGED faults ELSE Fault
          /\ engine' \in {[engine EXCEPT !.durable = TRUE]} \cup IF ok THEN {} ELSE {engine}
          /\ halt' = IF Current
                     THEN [halt EXCEPT !.phase = IF ok THEN "persisted" ELSE "uncertain",
                                       !.cancellation = "pending", !.chain = <<"sweep">>]
                     ELSE [halt EXCEPT !.chain = Tail(@)]
    /\ UNCHANGED <<order, queue, sup, release, activation, runtime, committed, requests, lifted>>

\* request_sweep: only a sweep that starts from here on can answer.
Baseline_Completed == sup.completed
Baseline == sup.started

HaltRequestSweep ==
    /\ Worker("sweep")
    /\ sup' = [sup EXCEPT !.wake = TRUE]
    /\ halt' = IF Current THEN [halt EXCEPT !.baseline = Baseline, !.chain = <<"wait">>]
               ELSE [halt EXCEPT !.chain = Tail(@)]
    /\ UNCHANGED <<engine, order, queue, release, activation, runtime, committed, requests, faults, lifted>>

Qualifies == halt.baseline >= 0 /\ sup.completed > halt.baseline

\* observe_generation: the first answer acknowledged stays.  The pairings may
\* be unreadable at this moment.
Observed(covered) ==
    IF halt.cancellation = "acknowledged" THEN "acknowledged"
    ELSE IF sup.error THEN "retrying"
    ELSE IF covered THEN "acknowledged" ELSE "unavailable"

Observe(chain) ==
    /\ Qualifies
    /\ \/ UNCHANGED faults /\ halt' = [halt EXCEPT !.cancellation = Observed(CancellationNeeded), !.chain = chain]
       \/ Fault /\ halt' = [halt EXCEPT !.cancellation = Observed(FALSE), !.chain = chain]
    /\ UNCHANGED <<engine, order, queue, sup, release, activation, runtime, committed, requests, lifted>>

Unavailable(h) == IF h.cancellation = "acknowledged" THEN h ELSE [h EXCEPT !.cancellation = "unavailable"]

\* The worker's loop over the watch channel: a superseded one ends at an update,
\* and any one at the end of the sender.
HaltObserve == Worker("wait") /\ Current /\ Observe(Tail(halt.chain))

HaltSuperseded ==
    /\ Worker("wait") /\ ~Current
    /\ halt' = [halt EXCEPT !.chain = Tail(@)]
    /\ UNCHANGED <<engine, order, queue, sup, release, activation, runtime, committed, requests, faults, lifted>>

\* The watch channel is closed.
SenderGone_Ignored == FALSE
SenderGone == ~sup.alive

HaltUnanswered ==
    /\ Worker("wait") /\ Current /\ ~Qualifies /\ SenderGone
    /\ halt' = [Unavailable(halt) EXCEPT !.chain = Tail(@)]
    /\ UNCHANGED <<engine, order, queue, sup, release, activation, runtime, committed, requests, faults, lifted>>

\* The runtime's monitor observes every 250 ms, so a retry is answered later.
MonitorObserve == runtime.phase = "listening" /\ Observe(halt.chain) /\ halt' # halt

WorkTerminal_Settled == halt.chain = <<>> /\ halt.cancellation \in {"not_requested", "acknowledged"}
WorkTerminal == halt.chain = <<>>

-----------------------------------------------------------------------------
(* The reviewed release.                                                    *)

ReleaseLive == ~release.closed /\ ~runtime.stop

\* start: one worker, one retained review, and after an unresolved outcome
\* nothing but the reconciliation of that operation.
ReleaseIdle == ReleaseLive /\ release.task = "none" /\ ~release.recovery

ReleaseReview ==
    /\ ReleaseIdle /\ WorkTerminal /\ release.review = None /\ Request
    /\ release' = [release EXCEPT !.task = "review", !.reviews = @ + 1]
    /\ UNCHANGED <<engine, order, queue, sup, halt, activation, runtime, committed, faults, lifted>>

Finished == [release EXCEPT !.task = "none", !.op = None]
Unresolved(op) == [Finished EXCEPT !.recovery = TRUE, !.unresolved = op]

\* review_kill_release inhibits first and needs an engaged scope.  A worker
\* that dies leaves no operation to reconcile.
ReleaseReviewed ==
    /\ release.task = "review"
    /\ engine' = [Inhibited EXCEPT !.current = {"release"}]
    /\ \/ /\ release' = IF (engine.kill \/ engine.durable) /\ ReleaseLive
                        THEN [Finished EXCEPT !.review = release.reviews]
                        ELSE Finished
          /\ UNCHANGED faults
       \/ Fault /\ release' = Unresolved(None)
    /\ UNCHANGED <<order, queue, sup, halt, activation, runtime, committed, requests, lifted>>

ReleaseDiscard ==
    /\ ReleaseLive /\ release.review # None
    /\ release' = [release EXCEPT !.review = None]
    /\ UNCHANGED <<engine, order, queue, sup, halt, activation, runtime, committed, requests, faults, lifted>>

ReleaseConfirm ==
    /\ ReleaseIdle /\ release.review # None
    /\ release' = [release EXCEPT !.task = "confirm", !.op = release.review, !.review = None]
    /\ UNCHANGED <<engine, order, queue, sup, halt, activation, runtime, committed, requests, faults, lifted>>

Terminal(r) == [r EXCEPT !.terminal = @ \cup {release.op}]
StopUnchanged == "release" \in engine.current

\* confirm_kill_release up to the write: refused before it; written, written
\* with an unknown outcome, or not written with an unknown outcome.
ReleaseCommit ==
    /\ release.task = "confirm"
    /\ \/ /\ ~StopUnchanged \/ ~ReleaseLive
          /\ release' = Terminal(Finished)
          /\ UNCHANGED <<engine, committed, requests, faults, lifted>>
       \/ /\ StopUnchanged /\ ReleaseLive
          /\ committed' = committed \cup {release.op} /\ lifted' = TRUE
          /\ engine' = [engine EXCEPT !.durable = FALSE, !.acked = FALSE]
          /\ \/ release' = [release EXCEPT !.task = "settle"] /\ UNCHANGED faults
             \/ release' = Terminal(Unresolved(release.op)) /\ Fault
       \/ /\ StopUnchanged /\ ReleaseLive /\ Fault
          /\ engine' = [engine EXCEPT !.acked = FALSE]
          /\ release' = Terminal(Unresolved(release.op))
          /\ UNCHANGED <<committed, requests, lifted>>
    /\ UNCHANGED <<order, queue, sup, halt, activation, runtime, requests>>

\* A HALT during the publication wins: its overlay survives.
SettleHolds_Always == TRUE
SettleHolds == StopUnchanged /\ ReleaseLive

ReleaseSettle ==
    /\ release.task = "settle"
    /\ IF SettleHolds
       THEN /\ engine' = [Inhibited EXCEPT !.kill = FALSE, !.current = {"rearm"}]
            /\ release' = [release EXCEPT !.task = "released"]
       ELSE release' = Terminal(Unresolved(release.op)) /\ UNCHANGED engine
    /\ UNCHANGED <<order, queue, sup, halt, activation, runtime, committed, requests, faults, lifted>>

\* release_confirmed marks the HALT it covers, unless anything stopped since.
Rearms_Always == ReleaseLive
Rearms == /\ ReleaseLive /\ ~halt.closed /\ halt.requested
          /\ WorkTerminal /\ "rearm" \in engine.current /\ ~engine.kill

ReleaseFinish ==
    /\ release.task = "released"
    /\ halt' = IF Rearms THEN [halt EXCEPT !.released = TRUE] ELSE halt
    /\ release' = Terminal(Finished)
    /\ UNCHANGED <<engine, order, queue, sup, activation, runtime, committed, requests, faults, lifted>>

\* A release operation of another owner of the ledger, for another scope.
Foreign == MaxRequests + 1

Reconcile(op) ==
    /\ ReleaseLive /\ release.task = "none" /\ release.review = None
    /\ release.recovery => op = release.unresolved
    /\ release' = [release EXCEPT !.task = "reconcile", !.op = op]
    /\ UNCHANGED <<engine, order, queue, sup, halt, activation, runtime, committed, requests, faults, lifted>>

\* Absence settles an operation only when its own worker is known to be done.
AbsenceProven_Always(op) == TRUE
AbsenceProven(op) == op \in release.terminal

Reconciled ==
    /\ release.task = "reconcile"
    /\ \/ /\ release' = IF release.op \in committed
                        THEN [Finished EXCEPT !.recovery = FALSE, !.unresolved = None]
                        ELSE IF AbsenceProven(release.op)
                        THEN [Finished EXCEPT !.recovery = FALSE, !.unresolved = None,
                                                      !.absent = @ \cup {release.op}]
                        ELSE Unresolved(release.op)
          /\ UNCHANGED faults
       \/ Fault /\ release' \in {Unresolved(release.op), Unresolved(None)}
    /\ UNCHANGED <<engine, order, queue, sup, halt, activation, runtime, committed, requests, lifted>>

\* Another owner of the ledger finishes its own release, after it was asked for.
ForeignCommit ==
    /\ Foreign \notin committed /\ Foreign \in {release.unresolved} \cup release.absent
    /\ committed' = committed \cup {Foreign}
    /\ UNCHANGED <<engine, order, queue, sup, halt, release, activation, runtime, requests, faults, lifted>>

-----------------------------------------------------------------------------
(* Activation.                                                              *)

ActivationLive == ~activation.closed /\ ~runtime.stop
ActivationIdle == ActivationLive /\ activation.task = "none" /\ ~activation.uncertain

ActivationReview ==
    /\ ActivationIdle /\ ~activation.review /\ Request
    /\ activation' = [activation EXCEPT !.task = "begin"]
    /\ UNCHANGED <<engine, order, queue, sup, halt, release, runtime, committed, faults, lifted>>

ActivationEnds == [activation EXCEPT !.task = "none", !.review = FALSE]

\* begin_activation_review, then the account reads.
ActivationBegin ==
    /\ activation.task = "begin" /\ MutationFree
    /\ IF ~ActivationLive THEN activation' = ActivationEnds /\ UNCHANGED engine
       ELSE /\ engine' = [Inhibited EXCEPT !.current = {"activation"}]
            /\ activation' = IF engine.kill \/ engine.durable THEN ActivationEnds
                             ELSE [activation EXCEPT !.task = "gather"]
    /\ UNCHANGED <<order, queue, sup, halt, release, runtime, committed, requests, faults, lifted>>

\* check_local of activation.rs.
ReviewStands == /\ ActivationLive /\ "activation" \in engine.current
                /\ ~engine.acked /\ ~engine.kill

ActivationReviewed ==
    /\ activation.task = "gather"
    /\ \/ /\ ReviewStands
          /\ activation' = [activation EXCEPT !.task = "none", !.review = TRUE]
          /\ UNCHANGED <<engine, faults>>
       \/ ~ReviewStands /\ activation' = ActivationEnds /\ engine' = Inhibited /\ UNCHANGED faults
       \/ Fault /\ activation' = ActivationEnds /\ engine' = Inhibited
    /\ UNCHANGED <<order, queue, sup, halt, release, runtime, committed, requests, lifted>>

ActivationDiscard ==
    /\ ActivationIdle /\ activation.review
    /\ activation' = [activation EXCEPT !.review = FALSE]
    /\ UNCHANGED <<engine, order, queue, sup, halt, release, runtime, committed, requests, faults, lifted>>

ActivationConfirm ==
    /\ ActivationIdle /\ activation.review
    /\ activation' = [activation EXCEPT !.task = "confirm", !.review = FALSE]
    /\ UNCHANGED <<engine, order, queue, sup, halt, release, runtime, committed, requests, faults, lifted>>

\* confirm_activation; an audit row that may be missing closes the owner.
ActivationConfirmed ==
    /\ activation.task = "confirm" /\ MutationFree
    /\ \/ /\ ReviewStands
          /\ activation' = ActivationEnds
          /\ engine' = [engine EXCEPT !.acked = TRUE, !.current = {}]
          /\ UNCHANGED faults
       \/ ~ReviewStands /\ activation' = ActivationEnds /\ engine' = Inhibited /\ UNCHANGED faults
       \/ Fault /\ activation' = [ActivationEnds EXCEPT !.closed = TRUE, !.uncertain = TRUE] /\ engine' = Inhibited
    /\ UNCHANGED <<order, queue, sup, halt, release, runtime, committed, requests, lifted>>

-----------------------------------------------------------------------------
(* The runtime's end.                                                       *)

ClosedRelease == [release EXCEPT !.closed = TRUE, !.review = None]
ClosedActivation == [activation EXCEPT !.closed = TRUE, !.review = FALSE]

\* shutdown_and_drain: the token and the owners are closed before any wait.
RequestStop ==
    /\ ~runtime.stop /\ runtime.phase \in {"listening", "release", "activation"}
    /\ runtime' = [runtime EXCEPT !.stop = TRUE]
    /\ release' = ClosedRelease /\ activation' = ClosedActivation
    /\ UNCHANGED <<engine, order, queue, sup, halt, committed, requests, faults, lifted>>

\* The monitor ends at the token, or on a feed, pump or server that ended.
BeginDrain ==
    /\ runtime.phase = "listening"
    /\ \/ (runtime.stop \/ ~sup.alive) /\ UNCHANGED faults
       \/ Fault
    /\ runtime' = [runtime EXCEPT !.phase = "release", !.failed = ~runtime.stop]
    /\ release' = ClosedRelease
    /\ UNCHANGED <<engine, order, queue, sup, halt, activation, committed, requests, lifted>>

Fails(bad) == runtime.failed \/ bad

DrainRelease ==
    /\ runtime.phase = "release" /\ release.task = "none"
    /\ runtime' = [runtime EXCEPT !.phase = "activation", !.failed = Fails(release.recovery)]
    /\ activation' = ClosedActivation
    /\ UNCHANGED <<engine, order, queue, sup, halt, release, committed, requests, faults, lifted>>

DrainActivation ==
    /\ runtime.phase = "activation" /\ activation.task = "none"
    /\ runtime' = [runtime EXCEPT !.phase = "halt", !.failed = Fails(activation.uncertain)]
    /\ halt' = [halt EXCEPT !.closed = TRUE]
    /\ UNCHANGED <<engine, order, queue, sup, release, activation, committed, requests, faults, lifted>>

\* The supervisor is still sweeping while the last HALT drains.
HaltSettled_Durable == halt.phase \in {"idle", "persisted"}
HaltSettled == halt.phase = "idle" \/ (halt.phase = "persisted" /\ halt.cancellation = "acknowledged")

DrainHalt ==
    /\ runtime.phase = "halt" /\ WorkTerminal
    /\ runtime' = [runtime EXCEPT !.phase = "server", !.failed = Fails(~HaltSettled)]
    /\ UNCHANGED <<engine, order, queue, sup, halt, release, activation, committed, requests, faults, lifted>>

\* server_stop, its join, and supervision_ended.
DrainServer ==
    /\ runtime.phase = "server" /\ ~sup.alive
    /\ runtime' = [runtime EXCEPT !.phase = "pump"]
    /\ halt' = IF halt.requested THEN Unavailable(halt) ELSE halt
    /\ UNCHANGED <<engine, order, queue, sup, release, activation, committed, requests, faults, lifted>>

\* The pump quiesces, the pool drains, the pump consumes what is left.
DrainPump ==
    /\ runtime.phase = "pump"
    /\ \E bad \in BOOLEAN : /\ IF bad THEN Fault ELSE UNCHANGED faults
                            /\ runtime' = [runtime EXCEPT !.phase = IF Fails(bad) THEN "failed" ELSE "stopped"]
    /\ UNCHANGED <<engine, order, queue, sup, halt, release, activation, committed, requests, lifted>>

-----------------------------------------------------------------------------

VenueStep == \E o \in Orders : Post(o) \/ Answer(o) \/ Arrive(o) \/ Fill(o)
SweepStep == Refreshed \/ Check \/ Acquire \/ ReadOrders \/ CancelOrders \/ SweepEnds
HaltStep == HaltPersist \/ HaltRequestSweep \/ HaltObserve \/ HaltSuperseded \/ HaltUnanswered
ReleaseStep == ReleaseReviewed \/ ReleaseCommit \/ ReleaseSettle \/ ReleaseFinish \/ Reconciled
ActivationStep == ActivationBegin \/ ActivationReviewed \/ ActivationConfirmed
DrainStep == BeginDrain \/ DrainRelease \/ DrainActivation \/ DrainHalt \/ DrainServer \/ DrainPump

OperatorStep ==
    \/ RequestHalt \/ RequestStop
    \/ ReleaseReview \/ ReleaseConfirm \/ ReleaseDiscard
    \/ \E op \in 1..Foreign : Reconcile(op)
    \/ ActivationReview \/ ActivationConfirm \/ ActivationDiscard

Next ==
    \/ VenueStep \/ Inhibit \/ ForeignCommit
    \/ SweepStart \/ SweepFails \/ SweepStep \/ ServerEnds
    \/ OperatorStep \/ HaltStep \/ MonitorObserve \/ ReleaseStep \/ ActivationStep \/ DrainStep

Spec == Init /\ [][Next]_vars

-----------------------------------------------------------------------------
(* Properties.                                                              *)

Working == {o \in Orders : order[o] \in {"posting", "resting"}}

(* An acknowledged HALT that no release has lifted means that no order of   *)
(* the agent is on its way or resting, whatever sweep was running when it   *)
(* was requested.  Only a request that got no answer at all may surface     *)
(* later (a late order), and the next sweep takes it.                       *)
AckMeansCancelled == halt.cancellation = "acknowledged" /\ ~lifted => Working = {}

(* A runtime that reports a clean stop has made its last HALT durable and   *)
(* cancelled its orders, also for a HALT accepted while the other owners    *)
(* were draining, and leaves no release or activation of unknown outcome.   *)
CleanStopIsSettled ==
    runtime.phase = "stopped" =>
        /\ halt.requested /\ ~lifted => engine.durable /\ Working = {}
        /\ ~release.recovery /\ ~activation.uncertain

(* What the operator is told was not released is never released: absence is *)
(* reported only of an operation whose worker can no longer write.          *)
AbsentIsFinal == release.absent \cap committed = {}

(* A HALT is marked released only by a release committed after it.          *)
MarkedMeansLifted == halt.released => lifted

(* A HALT no later release committed for is in force in the engine, also    *)
(* while its durable worker waits and a release it overtook settles.        *)
UnliftedHaltBlocks == halt.requested /\ ~lifted => engine.kill

\* The worker of a sweep, of a HALT, of a release and of an activation moves
\* on by its own timeouts; the supervisor takes a stored wake.
Fairness ==
    /\ WF_vars(SweepStart /\ sup.wake) /\ WF_vars(SweepStep) /\ WF_vars(ServerEnds /\ runtime.phase = "server")
    /\ WF_vars(HaltStep) /\ WF_vars(ReleaseStep) /\ WF_vars(ActivationStep)
    /\ WF_vars(DrainStep /\ (runtime.stop \/ runtime.phase # "listening"))
    /\ \A o \in Orders : WF_vars(Answer(o))

FairSpec == Spec /\ Fairness

(* Every HALT gets an answer about its cancellation.                        *)
HaltAnswered == halt.requested ~> halt.cancellation \in {"retrying", "acknowledged", "unavailable"}

(* A runtime told to stop ends: no owner it drains waits on something the   *)
(* drain has already closed.                                                *)
StopEnds == runtime.stop ~> runtime.phase \in {"stopped", "failed"}

(* What the operator is told of a release agrees with what is in force. *)
ReleasesAreTrue == AbsentIsFinal /\ MarkedMeansLifted /\ UnliftedHaltBlocks

(* A HALT is answered, and a runtime told to stop ends. *)
OperatorIsAnswered == HaltAnswered /\ StopEnds
=============================================================================
