---------------------------- MODULE MCSubmissions ----------------------------
(* Two gateways and two client order ids on one account, an order in doubt *)
(* and the order that waits for it; beside them the pilot's budget, which  *)
(* is an account of the rows the gateways leave, and the operator's        *)
(* approval queue, each with its own abstraction of an order.  `focus`     *)
(* names the part a behavior is about, and the others keep their initial   *)
(* state.                                                                  *)
EXTENDS Submissions, Integers

CONSTANTS
    g1, g2, c1, c2,
    Orders, Size, Value, Nets, OrderLimit, ExecutedLimit, LossLimit, Prices, Required,
    MaxRows, MaxFaults, MaxLaunches, MaxMoves,
    Requests, Quotes, TTL, MaxAge, MaxNow, MaxProposals, MaxWork, MaxDisturbances

VARIABLES
    focus,
    log, lag, route, pilotSigned, traded, dead, legacy, desk, faults,
    proposals, now, quote, moves, admission, work, approved, shown, rejected

pilotVars == <<log, lag, route, pilotSigned, traded, dead, legacy, desk, faults>>
approvalVars == <<proposals, now, quote, moves, admission, work, approved, shown, rejected>>

(* Amounts are numbers, and an order is not the foreign one. *)
ASSUME PilotAssumption ==
    /\ 0 \notin Orders
    /\ Size \in [Orders -> Nat] /\ Value \in [Orders -> Nat]
    /\ Prices \subseteq Nat /\ Nets \subseteq Int
    /\ ExecutedLimit \in Nat /\ LossLimit \in Nat

P == INSTANCE Pilot WITH signed <- pilotSigned

A == INSTANCE Approvals WITH
         journal <- proposals, signed <- approved, told <- rejected, venue <- quote, desk <- admission,
         Prices <- Quotes, MaxMoves <- MaxDisturbances

\* Two units at one, and one unit at two: each order fits, both together do not.
MCSize == <<2, 1>>
MCValue == <<1, 2>>
MCNets == {-1, 1}

\* A market order, whose price moves under its review, and a cancellation.
MCRequests == {[kind |-> "market", id |-> 1, px |-> 1],
               [kind |-> "cancel", id |-> 2, px |-> 2]}

OrdersInit == focus \in {"submissions", "pilot", "approvals"} /\ Init /\ P!Init /\ A!Init

OrdersNext ==
    \/ focus = "submissions" /\ Next /\ UNCHANGED <<focus, pilotVars, approvalVars>>
    \/ focus = "pilot" /\ P!Next
       /\ UNCHANGED <<focus, started, resolved, outcome, revision, signed, accepted, gateway, venue, sends,
                      approvalVars>>
    \/ focus = "approvals" /\ A!Next
       /\ UNCHANGED <<focus, started, resolved, outcome, revision, signed, accepted, gateway, venue, sends,
                      pilotVars>>

OrdersSpec == OrdersInit /\ [][OrdersNext]_<<focus, vars, pilotVars, approvalVars>>

(* The budget holds at the venue, whatever fills are late, repeated or     *)
(* incomplete; a crossed limit stays crossed; under a durable stop nothing *)
(* is signed, activated or released.                                       *)
PilotSound ==
    /\ [](focus = "pilot" => P!WithinBudget /\ P!CrossingIsLatched /\ P!HistoryReplays)
    /\ [][focus = "pilot" => P!StopHolds]_pilotVars

(* What the operator is told of the pilot's consent is so.                 *)
ConsentIsTold == focus = "pilot" => P!ConsentIsTold

(* Only what the operator approved is signed, once and as it was shown.    *)
OnlyWhatWasApproved == focus = "approvals" => A!OnlyWhatWasApproved

(* The approval journal can be opened again; a closed queue is empty.      *)
QueueSound == focus = "approvals" => A!QueueSound
=============================================================================
