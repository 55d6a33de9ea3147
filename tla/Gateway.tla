------------------------------ MODULE Gateway -------------------------------
(***************************************************************************)
(* Pairing authority and the listener's lifetime: auth.rs, server.rs and   *)
(* server/operator.rs over the journal of ledger/pairing.rs.               *)
(*                                                                         *)
(* A runtime k opens a token store over the durable pairings, under the    *)
(* journal's owner lease, binds a listener and serves it until shutdown.   *)
(* A task is either a method call an agent's session makes or native work  *)
(* the operator admits; rmcp runs methods apart from their requests, so a  *)
(* task may enter long after its request was authenticated, and its        *)
(* blocking worker may outlive the method.  The store's read-write lock    *)
(* is the writer slot `mutation` and the readers that are signing or       *)
(* posting.  Token secrets, HTTP parsing and the tools are left out.       *)
(***************************************************************************)
EXTENDS Integers, Sequences, FiniteSets

CONSTANTS
    Bindings,      \* the agent-and-account pairs a token may speak for
    Runtimes,      \* successive or concurrent desktop processes
    Tasks,         \* method calls and native works in flight
    MaxPairings,   \* bound on the pairings ever issued
    MaxFaults      \* bound on failed or unwound mutations and crashes

VARIABLES
    pairings,      \* durable rows: binding and whether revoked
    store,         \* each runtime's token store
    server,        \* each runtime's listener lifecycle
    task,          \* the tasks
    review,        \* each runtime's retained operator review
    signed,        \* what was ever signed: pairing, binding, the pairing reviewed
    faults

vars == <<pairings, store, server, task, review, signed, faults>>

Ids == 1..Len(pairings)

\* A token store: its cached revocation flags, its writer, whether it closed.
NoMutation == [op |-> "none", of |-> 0, committed |-> FALSE]
NoStore == [open |-> FALSE, closed |-> FALSE, flags |-> <<>>, mutation |-> NoMutation]

\* The listener: started and native admission, the shutdown token, the
\* supervisor task, the sessions, and whether serve returned.
NoServer == [up |-> FALSE, started |-> FALSE, native |-> FALSE, shutdown |-> FALSE,
             supervisor |-> FALSE, accepting |-> FALSE]

\* A task: its runtime, its authority (pairing and binding), how far it is,
\* and whether its method future and its blocking worker are alive.
NoTask == [phase |-> "none", of |-> 0, id |-> 0, native |-> FALSE, pinned |-> 0,
           method |-> FALSE, worker |-> FALSE, cancelled |-> FALSE]

Init == /\ pairings = <<>>
        /\ store = [k \in Runtimes |-> NoStore]
        /\ server = [k \in Runtimes |-> NoServer]
        /\ task = [t \in Tasks |-> NoTask]
        /\ review = [k \in Runtimes |-> 0]
        /\ signed = {}
        /\ faults = 0

-----------------------------------------------------------------------------
(* The owner lease and the store's lock.                                    *)

TasksOf(k) == {t \in Tasks : task[t].phase # "none" /\ task[t].of = k}

\* The journal is shared by the store and every authority taken from it, so
\* the lease file stays locked until the last of them is dropped.
HoldsLease_StoreOnly(k) == store[k].open
HoldsLease(k) == store[k].open \/ TasksOf(k) # {} \/ review[k] # 0

Reading(k) == \E t \in TasksOf(k) : task[t].phase \in {"signing", "posting"}
Writing(k) == store[k].mutation.op # "none"

\* try_read on a store that is open, and not closed by a failed mutation.
Readable(k) == store[k].open /\ ~Writing(k)

\* TokenStore::check_authority and the revocation watch of an authority.
Unrevoked(k, id) == id \in DOMAIN store[k].flags /\ ~store[k].flags[id]
CheckAuthority_Cached(k, id) == Readable(k) /\ id \in DOMAIN store[k].flags
CheckAuthority(k, id) == Readable(k) /\ ~store[k].closed /\ Unrevoked(k, id)

-----------------------------------------------------------------------------
(* Opening, issuing, revoking.                                              *)

\* PairingJournal::open takes the lease or fails; TokenStore::open caches the
\* verified rows.
Open(k) ==
    /\ ~HoldsLease(k)
    /\ \A j \in Runtimes : ~HoldsLease(j)
    /\ store' = [store EXCEPT ![k] = [open |-> TRUE, closed |-> FALSE, mutation |-> NoMutation,
                                      flags |-> [i \in Ids |-> pairings[i].revoked]]]
    /\ UNCHANGED <<pairings, server, task, review, signed, faults>>

\* Mutation::begin: the write lock, on a store no mutation has closed.
Begin(k, op, of) ==
    /\ store[k].open /\ ~store[k].closed
    /\ ~Writing(k) /\ ~Reading(k)
    /\ store' = [store EXCEPT ![k].mutation = [op |-> op, of |-> of, committed |-> FALSE]]
    /\ UNCHANGED <<pairings, server, task, review, signed, faults>>

Issue(k, b) == Len(pairings) < MaxPairings /\ Begin(k, "issue", b)
Revoke(k, id) == Begin(k, "revoke", id)

\* PairingJournal::issue and revoke, up to the commit.
Commit(k) ==
    LET m == store[k].mutation
    IN /\ Writing(k) /\ ~m.committed
       /\ pairings' = IF m.op = "issue"
                      THEN Append(pairings, [binding |-> m.of, revoked |-> FALSE])
                      ELSE [pairings EXCEPT ![m.of].revoked = TRUE]
       /\ store' = [store EXCEPT ![k].mutation.committed = TRUE]
       /\ UNCHANGED <<server, task, review, signed, faults>>

\* The head was noted: publish to the cache and to every watching session.
Publish(k) ==
    LET m == store[k].mutation
        id == IF m.op = "issue" THEN Len(pairings) ELSE m.of
    IN /\ Writing(k) /\ m.committed
       /\ store' = [store EXCEPT ![k].mutation = NoMutation,
                       ![k].flags = [i \in DOMAIN @ \cup {id} |->
                                       IF i = id THEN m.op = "revoke" ELSE @[i]]]
       /\ UNCHANGED <<pairings, server, task, review, signed, faults>>

\* Mutation's drop: an error or an unwind, before or after the commit, closes
\* the store and revokes everything in memory.
Abandoned_Kept(s) == [s EXCEPT !.mutation = NoMutation]
Abandoned(s) == [s EXCEPT !.mutation = NoMutation, !.closed = TRUE, !.flags = [i \in DOMAIN @ |-> TRUE]]

Abandon(k) ==
    /\ Writing(k) /\ faults < MaxFaults
    /\ store' = [store EXCEPT ![k] = Abandoned(@)]
    /\ faults' = faults + 1
    /\ UNCHANGED <<pairings, server, task, review, signed>>

-----------------------------------------------------------------------------
(* The listener.                                                            *)

\* BoundServer::bind and serve, which starts native admission, the supervisor
\* and the accept loop.
Serve(k) ==
    /\ Readable(k) /\ ~server[k].started
    /\ server' = [server EXCEPT ![k] = [up |-> TRUE, started |-> TRUE, native |-> TRUE, shutdown |-> FALSE,
                                        supervisor |-> TRUE, accepting |-> TRUE]]
    /\ UNCHANGED <<pairings, store, task, review, signed, faults>>

\* OperatorControl::close ends native admission ahead of the listener.
CloseNative(k) ==
    /\ server[k].native
    /\ server' = [server EXCEPT ![k].native = FALSE]
    /\ UNCHANGED <<pairings, store, task, review, signed, faults>>

\* The shutdown token, cancelled by the owner or by a supervisor that died.
Stop(k) ==
    /\ server[k].up /\ ~server[k].shutdown
    /\ server' = [server EXCEPT ![k].native = FALSE, ![k].shutdown = TRUE]
    /\ UNCHANGED <<pairings, store, task, review, signed, faults>>

SupervisorEnds(k) ==
    /\ server[k].supervisor
    /\ server[k].shutdown \/ faults < MaxFaults
    /\ server' = [server EXCEPT ![k].supervisor = FALSE, ![k].native = FALSE, ![k].shutdown = TRUE]
    /\ faults' = IF server[k].shutdown THEN faults ELSE faults + 1
    /\ UNCHANGED <<pairings, store, task, review, signed>>

\* Connections end at shutdown, and only then are the sessions closed.
CloseConnections(k) ==
    /\ server[k].shutdown /\ server[k].accepting
    /\ server' = [server EXCEPT ![k].accepting = FALSE]
    /\ UNCHANGED <<pairings, store, task, review, signed, faults>>

\* execution.closed(): no receiver is left, in a method, a worker or a native
\* work.  A method registers its receiver before it looks at shutdown.
Registered(t) == task[t].phase \notin {"none", "asked"}
Drained(k) == \A t \in TasksOf(k) : ~Registered(t)

\* supervise_and_drain returns.
Returned(k) ==
    /\ server[k].shutdown /\ ~server[k].supervisor /\ ~server[k].accepting
    /\ Drained(k)
    /\ server' = [server EXCEPT ![k].up = FALSE]
    /\ UNCHANGED <<pairings, store, task, review, signed, faults>>

\* The runtime drops its store once serve has returned, or dies with all its
\* tasks: the kernel then frees the lease.
DropStore(k) ==
    /\ store[k].open /\ ~server[k].up /\ ~Writing(k) /\ review[k] = 0
    /\ store' = [store EXCEPT ![k] = NoStore]
    /\ server' = [server EXCEPT ![k] = NoServer]
    /\ UNCHANGED <<pairings, task, review, signed, faults>>

Crash(k) ==
    /\ store[k].open /\ faults < MaxFaults
    /\ store' = [store EXCEPT ![k] = NoStore]
    /\ server' = [server EXCEPT ![k] = NoServer]
    /\ review' = [review EXCEPT ![k] = 0]
    /\ task' = [t \in Tasks |-> IF t \in TasksOf(k) THEN NoTask ELSE task[t]]
    /\ faults' = faults + 1
    /\ UNCHANGED <<pairings, signed>>

-----------------------------------------------------------------------------
(* Sessions: guard_middleware, then rmcp's method task.                     *)

Authenticate(t, k, id) ==
    /\ task[t].phase = "none"
    /\ server[k].accepting /\ ~server[k].shutdown
    /\ CheckAuthority(k, id)
    /\ task' = [task EXCEPT ![t] = [NoTask EXCEPT !.phase = "asked", !.of = k, !.id = id]]
    /\ UNCHANGED <<pairings, store, server, review, signed, faults>>

\* call_tool registers its execution receiver; without a live store, or once
\* its session is gone, the task returns.
Enter(t) ==
    /\ task[t].phase = "asked"
    /\ task' = [task EXCEPT ![t] = IF store[@.of].open
                                   THEN [@ EXCEPT !.phase = "entering", !.method = TRUE]
                                   ELSE NoTask]
    /\ UNCHANGED <<pairings, store, server, review, signed, faults>>

\* The biased select: a revoked authority, shutdown or a cancelled call wins
\* over the tool; its exit cancels the worker's admission.
Interrupted_RevokedOnly(t) ==
    \/ store[task[t].of].open => ~Unrevoked(task[t].of, task[t].id)
    \/ task[t].cancelled
Interrupted(t) ==
    \/ store[task[t].of].open => ~Unrevoked(task[t].of, task[t].id)
    \/ server[task[t].of].shutdown \/ ~server[task[t].of].up
    \/ task[t].cancelled
Proceed_Unchecked(t) == TRUE
Proceed(t) == ~Interrupted(t)

Run(t) ==
    /\ task[t].phase = "entering" /\ Proceed(t)
    /\ task' = [task EXCEPT ![t].phase = "running"]
    /\ UNCHANGED <<pairings, store, server, review, signed, faults>>

\* The client cancels or disconnects.
CancelCall(t) ==
    /\ task[t].method /\ ~task[t].cancelled
    /\ task' = [task EXCEPT ![t].cancelled = TRUE]
    /\ UNCHANGED <<pairings, store, server, review, signed, faults>>

\* The select exits: the method ends at once when no worker holds the task,
\* and otherwise leaves the worker with a cancelled call.
Exit(t) ==
    /\ task[t].method /\ Interrupted(t)
    /\ task' = [task EXCEPT ![t] = IF @.worker THEN [@ EXCEPT !.method = FALSE, !.cancelled = TRUE]
                                   ELSE NoTask]
    /\ UNCHANGED <<pairings, store, server, review, signed, faults>>

-----------------------------------------------------------------------------
(* Native work: OperatorControl.                                            *)

\* operator_authority: the earliest live pairing of the binding.
OperatorAuthority(k, b) ==
    {i \in DOMAIN store[k].flags :
        /\ pairings[i].binding = b /\ ~store[k].flags[i]
        /\ \A j \in DOMAIN store[k].flags :
              pairings[j].binding = b /\ ~store[k].flags[j] => i <= j}

Accepting(k) == server[k].started /\ server[k].native /\ ~server[k].shutdown

\* admit registers before it looks at closure; a review keeps what it chose.
Prepare(t, k, b) ==
    /\ task[t].phase = "none" /\ review[k] = 0
    /\ server[k].up /\ Accepting(k) /\ Readable(k) /\ ~store[k].closed
    /\ \E id \in OperatorAuthority(k, b) :
          task' = [task EXCEPT ![t] = [NoTask EXCEPT !.phase = "preparing", !.of = k, !.id = id, !.native = TRUE]]
    /\ UNCHANGED <<pairings, store, server, review, signed, faults>>

\* prepare ends with check_live and hands the review to its caller.
Reviewed(t) ==
    LET k == task[t].of
    IN /\ task[t].phase = "preparing"
       /\ review' = [review EXCEPT ![k] = IF CheckAuthority(k, task[t].id) /\ Accepting(k) /\ @ = 0
                                          THEN task[t].id ELSE @]
       /\ task' = [task EXCEPT ![t] = NoTask]
       /\ UNCHANGED <<pairings, store, server, signed, faults>>

\* confirm admits the pinned pairing, never another one of the binding.
Pinned_Reselected(k, id) == OperatorAuthority(k, pairings[id].binding)
Pinned(k, id) == IF CheckAuthority(k, id) THEN {id} ELSE {}

Confirm(t, k) ==
    /\ task[t].phase = "none" /\ review[k] # 0
    /\ server[k].up /\ Accepting(k) /\ Readable(k)
    /\ \E id \in Pinned(k, review[k]) :
          task' = [task EXCEPT ![t] = [NoTask EXCEPT !.phase = "running", !.of = k, !.id = id,
                                       !.native = TRUE, !.pinned = review[k]]]
    /\ review' = [review EXCEPT ![k] = 0]
    /\ UNCHANGED <<pairings, store, server, signed, faults>>

\* The retained review is discarded by its owner.
DiscardReview(k) ==
    /\ review[k] # 0
    /\ review' = [review EXCEPT ![k] = 0]
    /\ UNCHANGED <<pairings, store, server, task, signed, faults>>

-----------------------------------------------------------------------------
(* Signing, in the blocking submission worker.                              *)

Decide(t) ==
    /\ task[t].phase = "running"
    /\ task[t].native \/ ~Interrupted(t)
    /\ task' = [task EXCEPT ![t].phase = "decided", ![t].worker = TRUE]
    /\ UNCHANGED <<pairings, store, server, review, signed, faults>>

\* signing_admission: a read guard, the exact pairing, nothing stopped.
Admitted(t) ==
    LET k == task[t].of
    IN /\ CheckAuthority(k, task[t].id)
       /\ ~server[k].shutdown
       /\ IF task[t].native THEN server[k].native ELSE ~task[t].cancelled

AdmitSign(t) ==
    /\ task[t].phase = "decided" /\ Admitted(t)
    /\ task' = [task EXCEPT ![t].phase = "signing"]
    /\ UNCHANGED <<pairings, store, server, review, signed, faults>>

SignDone(t) ==
    /\ task[t].phase = "signing"
    /\ task' = [task EXCEPT ![t].phase = "signed"]
    /\ signed' = signed \cup {[id |-> task[t].id, pinned |-> task[t].pinned]}
    /\ UNCHANGED <<pairings, store, server, review, faults>>

\* The post is admitted again, and its guard is held until it is handed over.
AdmitPost(t) ==
    /\ task[t].phase = "signed" /\ Admitted(t)
    /\ task' = [task EXCEPT ![t].phase = "posting"]
    /\ UNCHANGED <<pairings, store, server, review, signed, faults>>

\* The worker ends: posted, refused at an admission, or failed on the way.
WorkerEnds(t) ==
    /\ \/ task[t].phase \in {"posting", "running"}
       \/ task[t].phase \in {"decided", "signed"} /\ ~Admitted(t)
    /\ task' = [task EXCEPT ![t] = NoTask]
    /\ UNCHANGED <<pairings, store, server, review, signed, faults>>

-----------------------------------------------------------------------------

Runtime(k) ==
    \/ Open(k) \/ Commit(k) \/ Publish(k) \/ Abandon(k)
    \/ \E b \in Bindings : Issue(k, b)
    \/ \E id \in Ids : Revoke(k, id)
    \/ Serve(k) \/ CloseNative(k) \/ Stop(k) \/ SupervisorEnds(k)
    \/ CloseConnections(k) \/ Returned(k) \/ DropStore(k) \/ Crash(k) \/ DiscardReview(k)

TaskStep(t) ==
    \/ Enter(t) \/ Run(t) \/ CancelCall(t) \/ Exit(t) \/ Reviewed(t)
    \/ Decide(t) \/ AdmitSign(t) \/ SignDone(t) \/ AdmitPost(t) \/ WorkerEnds(t)
    \/ \E k \in Runtimes, id \in Ids : Authenticate(t, k, id)
    \/ \E k \in Runtimes, b \in Bindings : Prepare(t, k, b)
    \/ \E k \in Runtimes : Confirm(t, k)

Next == (\E k \in Runtimes : Runtime(k)) \/ (\E t \in Tasks : TaskStep(t))

Spec == Init /\ [][Next]_vars

-----------------------------------------------------------------------------
(* Properties.                                                              *)

(* Nothing is signed or handed to the venue under a pairing whose           *)
(* revocation is committed, also when the mutation failed after its commit, *)
(* the process died there, or a later runtime made the revocation.          *)
RevokedNeverSigns ==
    \A t \in Tasks : task[t].phase \in {"signing", "posting"} => ~pairings[task[t].id].revoked

(* While any task of a runtime is alive, however long after its request or  *)
(* its method, no other runtime owns the pairings: the lease outlives       *)
(* disconnects, cancellation and the listener itself.                       *)
OwnerOutlivesTasks ==
    \A k \in Runtimes : TasksOf(k) # {} => \A j \in Runtimes \ {k} : ~store[j].open

(* Once serve has returned, no tool or native work runs in that runtime,    *)
(* and none starts, whatever method task rmcp still schedules.              *)
NothingRunsAfterReturn ==
    \A k \in Runtimes : server[k].started /\ ~server[k].up =>
        \A t \in TasksOf(k) : task[t].phase \in {"asked", "entering"}

(* What the operator confirms is signed under the pairing selected for the  *)
(* review, never under another pairing of its binding.                      *)
ReviewKeepsPairing == \A x \in signed : x.pinned # 0 => x.id = x.pinned

\* TokenStore::bindings, what the pause sweep is run for.
SweptBindings_Live(k) == {pairings[i].binding : i \in {j \in DOMAIN store[k].flags : ~store[k].flags[j]}}
SweptBindings(k) == {pairings[i].binding : i \in DOMAIN store[k].flags}

(* A sweep that can read the store covers every binding anything was ever   *)
(* signed for, revoked pairings and earlier runtimes included.              *)
SweepReachesSigned ==
    \A k \in Runtimes : Readable(k) => \A x \in signed : pairings[x.id].binding \in SweptBindings(k)

\* The scheduler runs every task and every teardown step that stays enabled,
\* and the blocking work of a mutation ends.  A method in its tool may wait on
\* the venue for ever; native work is bounded by its own timeouts.
TaskMoves(t) == \/ Enter(t) \/ Exit(t) \/ Run(t) \/ Reviewed(t)
                \/ AdmitSign(t) \/ SignDone(t) \/ AdmitPost(t)

Fairness ==
    /\ \A k \in Runtimes : /\ WF_vars(SupervisorEnds(k) /\ server[k].shutdown)
                           /\ WF_vars(CloseConnections(k) \/ Returned(k))
                           /\ WF_vars(Commit(k) \/ Publish(k))
    /\ \A t \in Tasks : /\ WF_vars(TaskMoves(t))
                        /\ WF_vars(WorkerEnds(t) /\ (task[t].phase # "running" \/ task[t].native))

FairSpec == Spec /\ Fairness

(* A listener told to stop, or whose supervisor died, returns: no task it   *)
(* waits for waits on something the shutdown withholds.                     *)
StopReturns == \A k \in Runtimes : server[k].shutdown ~> ~server[k].up

(* What a pairing's authority covers, and for how long. *)
AuthorityHolds ==
    RevokedNeverSigns /\ OwnerOutlivesTasks /\ NothingRunsAfterReturn /\ ReviewKeepsPairing /\ SweepReachesSigned
=============================================================================
