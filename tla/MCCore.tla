------------------------------- MODULE MCCore -------------------------------
(* The policy engine of one process, and the size rules an order passes    *)
(* under a policy that does not change meanwhile.  They share no state:    *)
(* `focus` names the part a behavior is about, and the other keeps its     *)
(* initial state.                                                          *)
EXTENDS PolicyEngine, Exposure, TLC

CONSTANTS a1, o1, btc, eth

VARIABLE focus

OneAgentOf == o1 :> a1

(* One symbol long or short with working sells and reductions, one long.   *)
SmallAccounts ==
    [position : {btc :> p @@ eth :> 1 : p \in {-1, 2}},
     book : {btc :> b @@ eth :> EmptyBook : b \in {c \in [Sides -> {0, 1}] : c["buys"] = 0}}]

CoreInit ==
    /\ focus \in {"policy", "exposure"}
    /\ Init
    /\ BookInit
    /\ focus = "policy" => ~winding /\ position[btc] = 2 /\ book[btc] = EmptyBook

(* The bound on calls is reached. *)
CallsDone == call = Idle /\ calls = MaxCalls

CoreNext ==
    \/ focus = "policy" /\ Next /\ UNCHANGED <<focus, bookVars>>
    \/ focus = "exposure" /\ BookNext /\ UNCHANGED <<focus, vars>>
    \/ focus = "exposure" /\ CallsDone /\ UNCHANGED <<focus, vars, bookVars>>

CoreSpec == CoreInit /\ [][CoreNext]_<<focus, vars, bookVars>>
=============================================================================
