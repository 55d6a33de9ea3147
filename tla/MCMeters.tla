------------------------------ MODULE MCMeters ------------------------------
(* What an order is judged by, on instances small enough to enumerate: the *)
(* order-rate buckets, the walk that reads the venue's fills page by page, *)
(* and the session that decides whether the ledger has caught up.  They    *)
(* share no state: `focus` names the one a behavior is about, and the      *)
(* others keep an initial state.                                           *)
EXTENDS RateBudget, Backfill

CONSTANTS MaxFills, MaxGaps, ParseFailures, MaxHistory, StoreFaults, Restarts

ASSUME FillsAreCounted == MaxFills \in Nat

VARIABLES
    focus,
    fills, link, announced, base, wire, queue, recorded, gaps, reconciled, failure, pump, order, noticed,
    received

feedVars == <<fills, link, announced, base, wire, queue, recorded, gaps, reconciled, failure, pump, order,
              noticed, received>>

F == INSTANCE Feed

Rate(c, p) == [count |-> c, perMs |-> p]

\* Two per three milliseconds, whose refills leave remainders, and one per
\* three, so slow that a millisecond gains nothing.
MCRates == {Rate(2, 3), Rate(1, 3)}

RateIdle ==
    /\ Init /\ now = 0
    /\ \A a \in Agents : rate[a] = Rate(1, 3)
    /\ budget = [rate |-> Rate(1, 3), reserve |-> 0]

WalkIdle == WalkInit /\ clock = 0 /\ made = {}

MetersInit ==
    /\ \/ focus = "rates" /\ Init /\ WalkIdle
       \/ focus = "walk" /\ RateIdle /\ WalkInit
       \/ focus = "feed" /\ RateIdle /\ WalkIdle
    /\ F!Init

MetersNext ==
    \/ focus = "rates" /\ Next /\ UNCHANGED <<focus, walkVars, feedVars>>
    \/ focus = "walk" /\ WalkNext /\ UNCHANGED <<focus, vars, feedVars>>
    \/ focus = "feed" /\ F!Next /\ UNCHANGED <<focus, vars, walkVars>>

Meters == MetersInit /\ [][MetersNext]_<<focus, vars, walkVars, feedVars>>

(* While an order would be admitted, the ledger holds every fill this      *)
(* program could know of.                                                  *)
CaughtUp == focus = "feed" => F!TypeOK /\ F!CaughtUp

(* An order stamped while caught up is admitted only with a state as new   *)
(* as the ledger.                                                          *)
AdmittedStateCoversLedger == [][focus = "feed" => F!AdmissionCoversLedger]_order
=============================================================================
