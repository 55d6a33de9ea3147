----------------------------- MODULE MCExposure -----------------------------
(* The exposure reads of one account when a fill may reach the feed late.  *)
EXTENDS Exposure, TLC

CONSTANTS btc, eth

(* One symbol with any position and any small book, one with a position.   *)
SmallAccounts ==
    [position : {btc :> p @@ eth :> q : p \in {-1, 0, 2}, q \in {0, 1}},
     book : {btc :> b @@ eth :> EmptyBook : b \in [Sides -> {0, 1}]}]

=============================================================================
