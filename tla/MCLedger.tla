------------------------------ MODULE MCLedger ------------------------------
(* Two processes on one ledger file, and the desktop runtime, which opens  *)
(* and closes such a file's owners.  They share no state: `focus` names    *)
(* the part a behavior is about, and the other keeps its initial state.    *)
EXTENDS LedgerChain, TLC

CONSTANTS Contexts, Testnet, MaxMoves, MaxFailures

VARIABLES focus, ctl, worker, feed, reads, captured, program, reopened, moves, failures

desktopVars == <<ctl, worker, feed, reads, captured, program, reopened, moves, failures>>

D == INSTANCE Desktop WITH MaxFaults <- MaxFailures, faults <- failures

(* A context has a name, and the absence of one has none. *)
ASSUME ContextsAreNamed == D!None \notin Contexts

NodeInit == focus \in {"ledger", "desktop"} /\ Init /\ D!Init

NodeNext ==
    \/ focus = "ledger" /\ Next /\ UNCHANGED <<focus, desktopVars>>
    \/ focus = "desktop" /\ D!Next
       /\ UNCHANGED <<focus, db, anchor, open, guard, reader, receipts, acked, lost, failed, faults, restores>>

NodeSpec == NodeInit /\ [][NodeNext]_<<focus, vars, desktopVars>>

(* The processes run the same code: any two may be exchanged. *)
ProcSymmetry == Permutations(Procs)

(* A stop is complete before the program goes, no read and no agent        *)
(* belongs to another account than the feed, the outcome of a policy write *)
(* is kept until it settles, and a replaced feed's failure stops nothing.  *)
DesktopHolds ==
    /\ [](focus = "desktop" => D!DesktopSound)
    /\ [][focus = "desktop" => D!ReplacedFeedStopsNothing]_desktopVars
=============================================================================
