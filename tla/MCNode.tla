------------------------------- MODULE MCNode -------------------------------
(* The services around the agents' tools and the operator's controls over  *)
(* them: the connection pool to the venue, the listener with its pairings, *)
(* the registry of accounts and the supervision of one agent.  They share  *)
(* no state and are checked side by side: `focus` names the part a         *)
(* behavior is about, and the others keep their initial state.             *)
EXTENDS Naturals, Sequences, FiniteSets

CONSTANTS
    Subs, Exclusive, Poison, MaxConns, MaxPerConn, QuarantineAfter, MaxCalls, MaxDrops, MaxFrames,
    Bindings, Runtimes, Tasks, MaxPairings, MaxFaults,
    Agents, Containers, Signers, Clearances, MaxLog,
    Orders, MaxRequests, MaxFailures, MaxEvents

ASSUME RequestsAreCounted == MaxRequests \in Nat

(* Subscriptions are numbered in key order. *)
ASSUME PoolAssumption == Subs \subseteq Nat /\ MaxConns \in Nat /\ QuarantineAfter \in Nat

VARIABLES
    focus,
    entry, conn, shutdown, told, missed, credited, amended, calls, drops, frames,
    pairings, store, server, task, review, signed, faults,
    log, accounts, clearance, routed,
    engine, order, queue, sup, halt, release, activation, runtime, committed, requests, failures, lifted

poolVars == <<entry, conn, shutdown, told, missed, credited, amended, calls, drops, frames>>
gatewayVars == <<pairings, store, server, task, review, signed, faults>>
registryVars == <<log, accounts, clearance, routed>>
supervisionVars == <<engine, order, queue, sup, halt, release, activation, runtime, committed, requests,
                     failures, lifted>>

K == INSTANCE Sockets
G == INSTANCE Gateway
R == INSTANCE Registry WITH Requests <- Clearances, signed <- routed
S == INSTANCE Supervision WITH MaxFaults <- MaxFailures, faults <- failures

Init ==
    /\ focus \in {"pool", "gateway", "registry", "supervision"}
    /\ K!Init /\ G!Init /\ R!Init /\ S!Init

Next ==
    \/ focus = "pool" /\ K!Next
       /\ UNCHANGED <<focus, gatewayVars, registryVars, supervisionVars>>
    \/ focus = "gateway" /\ G!Next
       /\ UNCHANGED <<focus, poolVars, registryVars, supervisionVars>>
    \/ focus = "registry" /\ R!Next
       /\ UNCHANGED <<focus, poolVars, gatewayVars, supervisionVars>>
    \/ focus = "supervision" /\ S!Next
       /\ UNCHANGED <<focus, poolVars, gatewayVars, registryVars>>

Spec == Init /\ [][Next]_<<focus, poolVars, gatewayVars, registryVars, supervisionVars>>

(* What the consumers of the socket pool rely on: a feed called fresh is   *)
(* served, and its gap was told.                                           *)
PoolSound == focus = "pool" => K!PoolSound

(* A pairing's authority ends with its revocation, and its lease with its  *)
(* last task.                                                              *)
AuthorityHolds == focus = "gateway" => G!AuthorityHolds

(* The registry's history replays, nothing is signed under a retired       *)
(* route, and roster rows only age.                                        *)
RegistrySound ==
    /\ [](focus = "registry" => R!NeverLockedOut /\ R!RetiredNeverSigns)
    /\ [][focus = "registry" => R!RowsAge]_accounts

(* A HALT reported as done has cancelled what the agent had working.       *)
AckMeansCancelled == focus = "supervision" => S!AckMeansCancelled

(* A runtime that stopped cleanly left no HALT unsettled.                  *)
CleanStopIsSettled == focus = "supervision" => S!CleanStopIsSettled

(* What the operator is told of a release is so.                           *)
ReleasesAreTrue == focus = "supervision" => S!ReleasesAreTrue
=============================================================================
