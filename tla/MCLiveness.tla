----------------------------- MODULE MCLiveness -----------------------------
(* What must eventually happen, of the parts that share no state: `focus`  *)
(* names the part a behavior is about, and the other parts keep their      *)
(* initial state.  Each part has the fairness its own FairSpec states.     *)
EXTENDS Naturals, FiniteSets

CONSTANTS
    MaxFills, MaxGaps, ParseFailures, MaxHistory, StoreFaults, Restarts,
    Subs, Exclusive, Poison, MaxConns, MaxPerConn, QuarantineAfter, MaxCalls, MaxDrops, MaxFrames,
    Bindings, Runtimes, Tasks, MaxPairings,
    Orders, MaxRequests, MaxFaults, MaxEvents,
    Gateways, Cloids, NoCloid

VARIABLES
    focus,
    fills, link, announced, base, wire, frameQueue, recorded, gaps, reconciled, failure, pump, intent,
    noticed, received,
    entry, conn, shutdown, told, missed, credited, amended, calls, drops, frames,
    pairings, store, server, task, review, signed, gatewayFaults,
    engine, order, queue, sup, halt, release, activation, runtime, committed, requests, faults, lifted,
    started, resolved, outcome, revision, evidenced, accepted, worker, venue, sends

F == INSTANCE Feed WITH queue <- frameQueue, order <- intent
K == INSTANCE Sockets
G == INSTANCE Gateway WITH faults <- gatewayFaults
S == INSTANCE Supervision
J == INSTANCE Submissions WITH signed <- evidenced, gateway <- worker

feedVars == <<fills, link, announced, base, wire, frameQueue, recorded, gaps, reconciled, failure, pump,
              intent, noticed, received>>
poolVars == <<entry, conn, shutdown, told, missed, credited, amended, calls, drops, frames>>
gatewayVars == <<pairings, store, server, task, review, signed, gatewayFaults>>
supervisionVars == <<engine, order, queue, sup, halt, release, activation, runtime, committed, requests,
                     faults, lifted>>
submissionVars == <<started, resolved, outcome, revision, evidenced, accepted, worker, venue, sends>>

Init ==
    /\ focus \in {"feed", "pool", "gateway", "supervision", "submissions"}
    /\ F!Init /\ K!Init /\ G!Init /\ S!Init /\ J!Init

Next ==
    \/ focus = "feed" /\ F!Next /\ UNCHANGED <<focus, poolVars, gatewayVars, supervisionVars, submissionVars>>
    \/ focus = "pool" /\ K!TimedNext /\ UNCHANGED <<focus, feedVars, gatewayVars, supervisionVars, submissionVars>>
    \/ focus = "gateway" /\ G!Next /\ UNCHANGED <<focus, feedVars, poolVars, supervisionVars, submissionVars>>
    \/ focus = "supervision" /\ S!Next /\ UNCHANGED <<focus, feedVars, poolVars, gatewayVars, submissionVars>>
    \/ focus = "submissions" /\ J!Next
       /\ UNCHANGED <<focus, feedVars, poolVars, gatewayVars, supervisionVars>>

vars == <<focus, feedVars, poolVars, gatewayVars, supervisionVars, submissionVars>>

FeedFairness ==
    /\ WF_feedVars(focus = "feed" /\ (F!CatchUp \/ F!Reconcile))
    /\ SF_feedVars(focus = "feed" /\ F!Handle)
    /\ WF_feedVars(focus = "feed" /\ F!Retry)
    /\ WF_feedVars(focus = "feed" /\ F!Receive)
    /\ SF_feedVars(focus = "feed" /\ F!Fetch)

PoolFairness ==
    /\ \A c \in K!Conns : /\ WF_poolVars(focus = "pool" /\ c \in K!Opened /\ K!Task(c))
                          /\ WF_poolVars(focus = "pool" /\ c \in K!Opened /\ K!Prove(c))
    /\ \A s \in Subs : SF_poolVars(focus = "pool" /\ K!Lapse(s) /\ K!OutlastsBurst(s))

GatewayFairness ==
    /\ \A k \in Runtimes :
          /\ WF_gatewayVars(focus = "gateway" /\ G!SupervisorEnds(k) /\ server[k].shutdown)
          /\ WF_gatewayVars(focus = "gateway" /\ (G!CloseConnections(k) \/ G!Returned(k)))
          /\ WF_gatewayVars(focus = "gateway" /\ (G!Commit(k) \/ G!Publish(k)))
    /\ \A t \in Tasks :
          /\ WF_gatewayVars(focus = "gateway" /\ G!TaskMoves(t))
          /\ WF_gatewayVars(focus = "gateway" /\ G!WorkerEnds(t)
                            /\ (task[t].phase # "running" \/ task[t].native))

SupervisionFairness ==
    /\ WF_supervisionVars(focus = "supervision" /\ S!SweepStart /\ sup.wake)
    /\ WF_supervisionVars(focus = "supervision" /\ S!SweepStep)
    /\ WF_supervisionVars(focus = "supervision" /\ S!ServerEnds /\ runtime.phase = "server")
    /\ WF_supervisionVars(focus = "supervision" /\ S!HaltStep)
    /\ WF_supervisionVars(focus = "supervision" /\ S!ReleaseStep)
    /\ WF_supervisionVars(focus = "supervision" /\ S!ActivationStep)
    /\ WF_supervisionVars(focus = "supervision" /\ S!DrainStep
                          /\ (runtime.stop \/ runtime.phase # "listening"))
    /\ \A o \in Orders : WF_supervisionVars(focus = "supervision" /\ S!Answer(o))

SubmissionFairness ==
    \A g \in Gateways :
        /\ WF_submissionVars(focus = "submissions" /\ J!GatewayStep(g))
        /\ SF_submissionVars(focus = "submissions" /\ J!Lookup(g))
        /\ SF_submissionVars(focus = "submissions" /\ J!ResolveObserved(g))

Spec ==
    /\ Init /\ [][Next]_vars
    /\ FeedFairness /\ PoolFairness /\ GatewayFairness /\ SupervisionFairness /\ SubmissionFairness

(* With the connection up for good, orders can be admitted again.          *)
AccountRecovers == focus = "feed" => F!AccountRecovers

(* Every accepted subscription is served again and again, whatever shares  *)
(* its socket.                                                             *)
PoolConverges == focus = "pool" => K!PoolConverges

(* A listener told to stop returns.                                        *)
StopReturns == focus = "gateway" => G!StopReturns

(* A HALT is answered, and a runtime told to stop ends.                    *)
OperatorIsAnswered == focus = "supervision" => S!OperatorIsAnswered

(* An order the venue shows does not block its account for ever.           *)
VisibleOrdersAreReleased == focus = "submissions" => J!VisibleOrdersAreReleased
=============================================================================
