---------------------------- MODULE MCRateBudget ----------------------------
(* One shared rate, whose refills the reserve holds back.                  *)
EXTENDS RateBudget

SharedRates == {[count |-> 3, perMs |-> 4]}
=============================================================================
