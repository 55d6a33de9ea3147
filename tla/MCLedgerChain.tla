---- MODULE MCLedgerChain ----
(* Instances of the event ledger for TLC. *)
EXTENDS LedgerChain, TLC

(* The processes run the same code: any two may be exchanged. *)
ProcSymmetry == Permutations(Procs)
====
