------------------------------- MODULE Desktop ------------------------------
(* The desktop's runtime (runtime.rs): the one feed a selection owns and    *)
(* the worker that replaces it, local and remote reads, the MCP owner, the  *)
(* policy setup and the pilot consent that exclude each other, and the one  *)
(* drain that exit, update and failure share.  The feed, the MCP owner, the *)
(* consent and the setup's ledger work are only started, ended or failed    *)
(* here; Feed, Supervision, Pilot and PolicyEngine are about their inside.  *)
EXTENDS Naturals, FiniteSets

CONSTANTS
    Contexts,       \* a network and an account
    Testnet,        \* the contexts of the testnet; each other one is a network of its own
    MaxMoves,       \* operator commands
    MaxFaults       \* failures of a task, a store or a feed

VARIABLES
    ctl,        \* Control: what its mutex guards
    worker,     \* run_watches
    feed,       \* the feed slot, and the holder of its lock
    reads,      \* the context a read was admitted for, by kind
    captured,   \* the feed failure a status poll has read and not yet applied
    program,    \* the updater's and the exit's task
    reopened,   \* history: admission opened with a newer watch pending
    moves, faults

vars == <<ctl, worker, feed, reads, captured, program, reopened, moves, faults>>

None == "none"
Network(c) == IF c \in Testnet THEN "testnet" ELSE c
NoWatch == [serial |-> 0, context |-> None, coin |-> 0]
NoFeed == [context |-> None, generation |-> 0, failed |-> FALSE]

Init ==
    /\ ctl = [phase |-> "running", terminal |-> FALSE, detail |-> FALSE, network |-> None,
              generation |-> 0, serial |-> 0, binding |-> 0, chart |-> 0, account |-> 0,
              selection |-> NoWatch, desired |-> NoWatch, reading |-> TRUE, mode |-> None,
              mcp |-> [context |-> None, phase |-> "idle", worker |-> FALSE, owned |-> FALSE],
              setup |-> [phase |-> "idle", job |-> None, review |-> FALSE, retry |-> FALSE, committed |-> FALSE],
              consent |-> None, closing |-> FALSE, drain |-> None]
    /\ worker = [at |-> "idle", watch |-> NoWatch, stops |-> FALSE, failed |-> FALSE, result |-> None]
    /\ feed = NoFeed
    /\ reads = [local |-> None, lease |-> None]
    /\ captured = 0 /\ program = [update |-> None, exit |-> None] /\ reopened = FALSE
    /\ moves = 0 /\ faults = 0

Move == moves < MaxMoves /\ moves' = moves + 1
Fault == faults < MaxFaults /\ faults' = faults + 1

-----------------------------------------------------------------------------
(* What a stop and a failure do to the control record.                      *)

Ended(c) == c.phase \in {"stopped", "stopped_with_error"}

\* begin_stop, in one hold of the control: admission closes, and the first
\* caller starts the drain.
BeginStop(c) ==
    LET closed == [c EXCEPT !.terminal = TRUE, !.chart = 0, !.reading = FALSE,
                            !.mcp.phase = IF @ \in {"starting", "listening"} THEN "stopping" ELSE @]
    IN  IF Ended(c) \/ c.drain # None THEN closed
        ELSE [closed EXCEPT !.phase = "stopping", !.binding = 0, !.desired = NoWatch,
                            !.setup.phase = IF @ \in {"reviewing", "persisting"} THEN @ ELSE "stopped",
                            !.setup.review = FALSE, !.closing = TRUE, !.drain = "consent"]

\* fail_bound without a binding: a completed drain is not undone.
Failed(c) ==
    BeginStop([c EXCEPT !.terminal = TRUE, !.detail = TRUE, !.reading = FALSE, !.desired = NoWatch,
                        !.phase = IF Ended(c) THEN "stopped_with_error" ELSE "stopping"])

\* fail_bound with one: the failure of a feed that was replaced stops nothing.
FailedFeed_Any(c, generation) == Failed(c)
FailedFeed(c, generation) ==
    IF c.account = generation THEN Failed(c) ELSE c

\* Control::setup_busy: a review, a write or a consent that is not settled.
ConsentOwned(c) == c.consent \in {"waiting", "live"} \/ (c.consent = "uncertain" /\ ~c.closing)
SetupBusy(c) ==
    ConsentOwned(c) \/ c.setup.phase \in {"reviewing", "ready", "persisting", "uncertain", "recovery"}

\* admit: the network of the first admitted command is the runtime's.
Admits(c, context) ==
    ~c.terminal /\ c.phase = "running" /\ c.network \in {None, Network(context)}

SelectionAgrees(c, context) == c.selection = NoWatch \/ c.selection.context = context

\* setup_admit.
SetupAdmits(c) ==
    /\ ~c.terminal /\ c.phase = "running" /\ c.network = "testnet"
    /\ c.mcp.context = None /\ worker.at = "idle" /\ c.desired = NoWatch

Control(c) == ctl' = c /\ UNCHANGED <<worker, feed, reads, captured, program, reopened>>
Quiet == UNCHANGED <<moves, faults>>

-----------------------------------------------------------------------------
(* Selecting a market: submit_watch, and the worker's replacement.          *)

SubmitWatch(context, coin) ==
    LET watch == [serial |-> ctl.serial + 1, context |-> context, coin |-> coin]
    IN  /\ Move /\ UNCHANGED faults
        /\ ~ctl.terminal /\ ~SetupBusy(ctl)
        /\ ctl.mcp.context \in {None, context}
        /\ ~(worker.at = "idle" /\ ctl.selection.context = context /\ ctl.selection.coin = coin
             /\ ctl.binding # 0 /\ ctl.chart # 0)
        /\ ctl' = [ctl EXCEPT !.serial = @ + 1, !.chart = 0, !.desired = watch, !.phase = "replacing"]
        /\ worker' = IF worker.at = "idle" THEN [worker EXCEPT !.at = "loop"] ELSE worker
        /\ UNCHANGED <<feed, reads, captured, program, reopened>>

TakeWatch ==
    /\ worker.at = "loop" /\ Quiet
    /\ IF ctl.terminal \/ ctl.desired = NoWatch
       THEN worker' = [worker EXCEPT !.at = "idle"] /\ UNCHANGED ctl
       ELSE worker' = [worker EXCEPT !.at = "begin", !.watch = ctl.desired, !.failed = FALSE, !.result = None]
            /\ ctl' = [ctl EXCEPT !.desired = NoWatch]
    /\ UNCHANGED <<feed, reads, captured, program, reopened>>

Superseded == ctl.terminal \/ ctl.serial # worker.watch.serial
Worker(w) == worker' = w /\ UNCHANGED <<captured, program, reopened>>
Returned(result) == [worker EXCEPT !.at = "finish", !.result = result]

\* replace_feed, up to its first await: the same context keeps its feed, a
\* first feed keeps the reads of its network, any other closes them.
BeginReplace ==
    /\ worker.at = "begin" /\ Quiet /\ UNCHANGED <<feed, reads>>
    /\ IF Superseded THEN Worker(Returned("superseded")) /\ UNCHANGED ctl
       ELSE IF ctl.selection.context = worker.watch.context /\ ctl.binding # 0 /\ feed # NoFeed
       THEN Worker([worker EXCEPT !.at = "retire"]) /\ UNCHANGED ctl
       ELSE LET first == feed = NoFeed /\ ctl.selection = NoWatch
                         /\ ctl.network \in {None, Network(worker.watch.context)}
            IN  /\ Worker([worker EXCEPT !.at = "drain", !.stops = ~first])
                /\ ctl' = [ctl EXCEPT !.reading = @ /\ first]

\* The previous feed is joined; its failure is reported after the reads are.
DrainFeed ==
    /\ worker.at = "drain" /\ feed' = NoFeed /\ UNCHANGED <<ctl, reads, moves>>
    /\ \E failed \in BOOLEAN :
          /\ failed => feed # NoFeed /\ Fault
          /\ ~failed => UNCHANGED faults
          /\ IF worker.stops THEN Worker([worker EXCEPT !.at = "local", !.failed = failed])
             ELSE Worker([worker EXCEPT !.at = "bind", !.failed = failed])

DrainLocal ==
    /\ worker.at = "local" /\ reads.local = None /\ Quiet
    /\ Worker([worker EXCEPT !.at = "lease"]) /\ UNCHANGED <<ctl, feed, reads>>

DrainLeases_Skipped ==
    /\ worker.at = "lease" /\ Quiet
    /\ ctl' = [ctl EXCEPT !.reading = ~ctl.terminal]
    /\ Worker([worker EXCEPT !.at = "bind"]) /\ UNCHANGED <<feed, reads>>
DrainLeases ==
    /\ worker.at = "lease" /\ reads.lease = None /\ Quiet
    /\ ctl' = [ctl EXCEPT !.reading = ~ctl.terminal]
    /\ Worker([worker EXCEPT !.at = "bind"]) /\ UNCHANGED <<feed, reads>>

Bind ==
    /\ worker.at = "bind" /\ Quiet /\ UNCHANGED <<feed, reads>>
    /\ IF worker.failed THEN Worker(Returned("failed")) /\ UNCHANGED ctl
       ELSE IF Superseded THEN Worker(Returned("superseded")) /\ UNCHANGED ctl
       ELSE /\ Worker([worker EXCEPT !.at = "start"])
            /\ ctl' = [ctl EXCEPT !.generation = @ + 1, !.network = Network(worker.watch.context), !.binding = 0]

\* The feed is installed even if a newer watch arrived while it started.
StartFeed ==
    /\ worker.at = "start" /\ UNCHANGED <<reads, moves>>
    /\ \/ /\ feed' = [context |-> worker.watch.context, generation |-> ctl.generation, failed |-> FALSE]
          /\ ctl' = [ctl EXCEPT !.account = ctl.generation, !.selection = worker.watch, !.binding = ctl.generation]
          /\ Worker(IF Superseded THEN Returned("superseded") ELSE [worker EXCEPT !.at = "retire"])
          /\ UNCHANGED faults
       \/ Fault /\ Worker(Returned("failed")) /\ UNCHANGED <<ctl, feed>>

\* replace_chart: the old chart is joined before the newer watch is looked for.
ReplaceChart ==
    /\ worker.at = "retire" /\ UNCHANGED <<ctl, feed, reads, moves>>
    /\ \/ Worker(Returned(IF Superseded THEN "superseded" ELSE "installed")) /\ UNCHANGED faults
       \/ Fault /\ Worker(Returned("no_chart"))

\* run_watches, after replace_feed.
FinishWatch ==
    LET w == worker.watch
        installed == [ctl EXCEPT !.selection = w, !.binding = feed.generation, !.chart = w.serial,
                                 !.phase = "running"]
    IN  /\ worker.at = "finish" /\ Quiet
        /\ ctl' = CASE worker.result = "installed" /\ ~Superseded -> installed
                    [] worker.result = "no_chart" /\ ~ctl.terminal -> [ctl EXCEPT !.phase = "running"]
                    [] worker.result = "failed" -> Failed(ctl)
                    [] OTHER -> IF ctl.terminal THEN BeginStop(ctl) ELSE ctl
        /\ reopened' = (reopened \/ (worker.result = "no_chart" /\ ~ctl.terminal /\ ctl.desired # NoWatch))
        /\ worker' = [worker EXCEPT !.at = "loop", !.watch = NoWatch, !.result = None]
        /\ UNCHANGED <<feed, reads, captured, program>>

-----------------------------------------------------------------------------
(* Reads, and what a status poll finds.                                     *)

\* local_read and read_lease.
Read(kind, context) ==
    /\ Move /\ Admits(ctl, context) /\ reads[kind] = None
    /\ kind = "local" => ctl.reading
    /\ ctl' = [ctl EXCEPT !.network = Network(context)]
    /\ reads' = [reads EXCEPT ![kind] = context]
    /\ UNCHANGED <<worker, feed, captured, program, reopened, faults>>

ReadEnds(kind) ==
    /\ reads[kind] # None /\ reads' = [reads EXCEPT ![kind] = None]
    /\ UNCHANGED <<ctl, worker, feed, captured, program, reopened>> /\ Quiet

FeedFails ==
    /\ feed # NoFeed /\ ~feed.failed /\ Fault
    /\ feed' = [feed EXCEPT !.failed = TRUE]
    /\ UNCHANGED <<ctl, worker, reads, captured, program, reopened, moves>>

\* The feed's lock is released between the reading of a failure and its effect.
CaptureFailure ==
    /\ feed.failed /\ captured = 0 /\ worker.at \in {"idle", "loop", "begin"} /\ Quiet
    /\ captured' = feed.generation
    /\ UNCHANGED <<ctl, worker, feed, reads, program, reopened>>

ApplyFailure ==
    /\ captured # 0 /\ captured' = 0 /\ Quiet
    /\ ctl' = FailedFeed(ctl, captured)
    /\ UNCHANGED <<worker, feed, reads, program, reopened>>

PollMcp == ctl.mcp.phase = "failed" /\ ~ctl.detail /\ Control(Failed(ctl)) /\ Quiet

-----------------------------------------------------------------------------
(* The MCP owner.                                                           *)

LaunchMcp(context) ==
    /\ Move /\ UNCHANGED faults
    /\ context \in Testnet /\ Admits(ctl, context)
    /\ ctl.mcp.context = None /\ ~SetupBusy(ctl) /\ SelectionAgrees(ctl, context)
    /\ Control([ctl EXCEPT !.network = "testnet",
                           !.mcp = [context |-> context, phase |-> "starting", worker |-> TRUE, owned |-> FALSE]])

McpStarted ==
    /\ ctl.mcp.worker /\ UNCHANGED moves
    /\ \/ UNCHANGED faults
          /\ Control([ctl EXCEPT !.mcp.worker = FALSE, !.mcp.owned = TRUE,
                                 !.mcp.phase = IF ctl.terminal THEN "stopping" ELSE "listening"])
       \/ Fault /\ Control([Failed(ctl) EXCEPT !.mcp.worker = FALSE, !.mcp.phase = "failed"])

McpFails ==
    /\ ctl.mcp.owned /\ ctl.mcp.phase = "listening" /\ Fault /\ UNCHANGED moves
    /\ Control([ctl EXCEPT !.mcp.phase = "failed"])

\* halt_mcp, with_release, with_activation, with_approval_queue.
CommandReaches(context) ==
    Admits(ctl, context) /\ ctl.mcp.context = context /\ ctl.mcp.phase = "listening" /\ ctl.mcp.owned

-----------------------------------------------------------------------------
(* The policy setup and the pilot consent.                                  *)

ReviewPolicy(context) ==
    /\ Move /\ UNCHANGED faults
    /\ SetupAdmits(ctl) /\ ~SetupBusy(ctl) /\ ctl.setup.job = None
    /\ context \in Testnet /\ SelectionAgrees(ctl, context)
    /\ Control([ctl EXCEPT !.setup = [phase |-> "reviewing", job |-> "review", review |-> FALSE,
                                      retry |-> FALSE, committed |-> FALSE]])

Reviewed ==
    /\ ctl.setup.job = "review" /\ Quiet
    /\ \E ok \in BOOLEAN :
          Control([ctl EXCEPT !.setup.job = None, !.setup.review = ok /\ ~ctl.terminal,
                              !.setup.phase = IF ctl.terminal THEN "stopped" ELSE IF ok THEN "ready" ELSE "failed"])

PersistPolicy ==
    /\ Move /\ UNCHANGED faults
    /\ SetupAdmits(ctl) /\ ctl.setup.phase \in {"ready", "uncertain"} /\ ctl.setup.review
    /\ Control([ctl EXCEPT !.setup.phase = "persisting", !.setup.job = "persist", !.setup.review = FALSE,
                           !.setup.retry = ctl.setup.phase = "uncertain"])

\* A refused retry does not settle what the first attempt left open.
RefusedPhase_Forgets(s) == "failed"
RefusedPhase(s) == IF s.retry THEN "uncertain" ELSE "failed"

\* PreparedReview::persist: a new row or the exact retry of one; a refusal,
\* which another writer's row causes even after our own; an I/O error that
\* hides whether the row was committed; a panic.
Persisted ==
    LET ends(phase) ==
            [phase |-> IF ctl.terminal THEN "stopped" ELSE phase, job |-> None, retry |-> FALSE,
             review |-> ~ctl.terminal /\ phase \in {"uncertain", "recovery"}, committed |-> ctl.setup.committed]
        settles(s) == Control([ctl EXCEPT !.setup = s])
    IN  /\ ctl.setup.job = "persist" /\ UNCHANGED moves
        /\ \/ UNCHANGED faults /\ settles([ends("saved") EXCEPT !.committed = TRUE])
           \/ UNCHANGED faults /\ settles(ends(RefusedPhase(ctl.setup)))
           \/ Fault /\ \E phase \in {"uncertain", "recovery"}, written \in BOOLEAN :
                  settles([ends(phase) EXCEPT !.committed = @ \/ written])

DiscardPolicy ==
    /\ Move /\ UNCHANGED faults
    /\ SetupAdmits(ctl) /\ ctl.setup.phase \in {"ready", "failed", "saved"}
    /\ Control([ctl EXCEPT !.setup = [phase |-> "idle", job |-> None, review |-> FALSE, retry |-> FALSE,
                                      committed |-> FALSE]])

\* launch_pilot_consent: the feed gives way to the consent's own.
LaunchConsent(context) ==
    /\ Move /\ UNCHANGED faults
    /\ SetupAdmits(ctl) /\ ~SetupBusy(ctl) /\ context \in Testnet /\ SelectionAgrees(ctl, context)
    /\ Control([ctl EXCEPT !.consent = "waiting", !.binding = 0, !.chart = 0])

ConsentTakesOver ==
    /\ ctl.consent = "waiting" /\ ctl.setup.job = None /\ UNCHANGED moves
    /\ feed' = NoFeed
    /\ \/ ctl' = [ctl EXCEPT !.consent = "live"] /\ UNCHANGED faults
       \/ feed # NoFeed /\ Fault /\ ctl' = [Failed(ctl) EXCEPT !.consent = "closed"]
    /\ UNCHANGED <<worker, reads, captured, program, reopened>>

ConsentEnds ==
    /\ ctl.consent = "live" /\ UNCHANGED moves
    /\ \/ Control([ctl EXCEPT !.consent = "closed"]) /\ UNCHANGED faults
       \/ Fault /\ Control([ctl EXCEPT !.consent = "uncertain"])

-----------------------------------------------------------------------------
(* Stopping: the drain joins every owner in turn, and lets go of it.        *)

ConsentDrained ==
    /\ ctl.drain = "consent" /\ ctl.consent \in {None, "closed", "uncertain"} /\ Quiet
    /\ Control([(IF ctl.consent = "uncertain" THEN Failed(ctl) ELSE ctl) EXCEPT !.drain = "setup"])

SetupDrained == ctl.drain = "setup" /\ ctl.setup.job = None /\ Control([ctl EXCEPT !.drain = "mcp"]) /\ Quiet

McpDrained ==
    /\ ctl.drain = "mcp" /\ ~ctl.mcp.worker /\ UNCHANGED moves
    /\ \E failed \in BOOLEAN :
          /\ failed => ctl.mcp.owned /\ Fault
          /\ ~failed => UNCHANGED faults
          /\ Control([(IF failed THEN Failed(ctl) ELSE ctl) EXCEPT !.drain = "worker", !.mcp.owned = FALSE,
                         !.mcp.phase = IF ctl.mcp.owned THEN "stopped" ELSE @])

WorkerDrained_Detached == ctl.drain = "worker" /\ Control([ctl EXCEPT !.drain = "feed"]) /\ Quiet
WorkerDrained == ctl.drain = "worker" /\ worker.at = "idle" /\ Control([ctl EXCEPT !.drain = "feed"]) /\ Quiet

FeedDrained ==
    /\ ctl.drain = "feed" /\ UNCHANGED moves /\ feed' = NoFeed
    /\ \E failed \in BOOLEAN :
          /\ failed => feed # NoFeed /\ Fault
          /\ ~failed => UNCHANGED faults
          /\ ctl' = [(IF failed THEN Failed(ctl) ELSE ctl) EXCEPT !.drain = "reads"]
    /\ UNCHANGED <<worker, reads, captured, program, reopened>>

ReadsDrained ==
    /\ ctl.drain = "reads" /\ reads.local = None /\ reads.lease = None /\ Quiet
    /\ Control([ctl EXCEPT !.drain = "done", !.phase = IF ctl.detail THEN "stopped_with_error" ELSE "stopped"])

Program(p, c) == program' = p /\ ctl' = c /\ UNCHANGED <<worker, feed, reads, captured, reopened, faults>>

\* begin_update: the claim excludes an exit until it is dropped.
BeginUpdate ==
    /\ Move /\ program.update = None /\ ctl.mode = None /\ ~ctl.terminal
    /\ Program([program EXCEPT !.update = "waiting"], BeginStop([ctl EXCEPT !.mode = "update"]))

\* install_after_shutdown: installed after a clean stop only; the claim is dropped.
InstallUpdate ==
    /\ program.update = "waiting" /\ Ended(ctl) /\ UNCHANGED moves
    /\ \E installed \in BOOLEAN :
          /\ installed => ctl.phase = "stopped"
          /\ Program([program EXCEPT !.update = IF installed THEN "installed" ELSE "dropped"],
                     [ctl EXCEPT !.mode = IF @ = "update" THEN None ELSE @])

\* request_exit: claim_exit, then the exit's own task.
RequestExit ==
    /\ Move /\ ctl.mode # "update" /\ program.exit = None
    /\ Program([program EXCEPT !.exit = "waiting"], BeginStop([ctl EXCEPT !.mode = "exit"]))

ExitAllowed == ctl.mode = "exit" /\ Ended(ctl)
Exit == program.exit = "waiting" /\ ExitAllowed /\ Program([program EXCEPT !.exit = "exited"], ctl)
        /\ UNCHANGED moves

-----------------------------------------------------------------------------
Next ==
    \/ \E context \in Contexts :
          \/ \E coin \in {1, 2} : SubmitWatch(context, coin)
          \/ \E kind \in {"local", "lease"} : Read(kind, context)
          \/ LaunchMcp(context) \/ ReviewPolicy(context) \/ LaunchConsent(context)
    \/ TakeWatch \/ BeginReplace \/ DrainFeed \/ DrainLocal \/ DrainLeases \/ Bind \/ StartFeed
    \/ ReplaceChart \/ FinishWatch
    \/ \E kind \in {"local", "lease"} : ReadEnds(kind)
    \/ FeedFails \/ CaptureFailure \/ ApplyFailure \/ PollMcp
    \/ McpStarted \/ McpFails
    \/ Reviewed \/ PersistPolicy \/ Persisted \/ DiscardPolicy \/ ConsentTakesOver \/ ConsentEnds
    \/ ConsentDrained \/ SetupDrained \/ McpDrained \/ WorkerDrained \/ FeedDrained \/ ReadsDrained
    \/ BeginUpdate \/ InstallUpdate \/ RequestExit \/ Exit

Spec == Init /\ [][Next]_vars

-----------------------------------------------------------------------------
(* Properties.                                                              *)

(* A stop is complete: when it is reported, and so before an update is      *)
(* installed or the program exits, no feed, owner, task or read is left,    *)
(* and none comes back.                                                     *)
StoppedIsDrained ==
    Ended(ctl) \/ program.update = "installed" \/ program.exit = "exited" =>
        /\ ctl.terminal /\ feed = NoFeed /\ worker.at = "idle" /\ reads = [local |-> None, lease |-> None]
        /\ ~ctl.mcp.owned /\ ~ctl.mcp.worker /\ ctl.setup.job = None /\ ctl.consent \notin {"waiting", "live"}

(* No read outlives its network: none is running for another network than   *)
(* the installed feed's.                                                    *)
ReadsBelongToTheFeed ==
    feed # NoFeed => \A kind \in DOMAIN reads : reads[kind] # None => Network(reads[kind]) = Network(feed.context)

(* The operator's commands go to the agent of the account on display.       *)
McpKeepsItsContext ==
    \A context \in Contexts : CommandReaches(context) => feed.context \in {None, context}

(* What is published as the current feed is the feed that runs.             *)
BindingIsInstalled ==
    ctl.phase = "running" /\ ctl.binding # 0 /\ worker.at \in {"idle", "loop"} => feed.generation = ctl.binding

(* A policy write whose outcome is open is not forgotten before it settles. *)
SetupOutcomeKept ==
    ctl.setup.committed => ctl.setup.phase \in {"persisting", "uncertain", "recovery", "saved", "stopped"}

(* The failure of a feed that was replaced does not stop the new one.       *)
ReplacedFeedStopsNothing ==
    ctl'.terminal /\ ~ctl.terminal /\ captured' # captured => feed.generation \in {0, captured}

DesktopSound ==
    /\ StoppedIsDrained /\ SetupOutcomeKept
    /\ ~reopened => ReadsBelongToTheFeed /\ McpKeepsItsContext /\ BindingIsInstalled
DesktopHolds == []DesktopSound /\ [][ReplacedFeedStopsNothing]_vars
=============================================================================
