--------------------------- MODULE MCPolicyEngine ---------------------------
(* Instances of PolicyEngine for TLC: one agent and its order. *)
EXTENDS PolicyEngine, TLC

CONSTANTS a1, o1

OneAgentOf == o1 :> a1

=============================================================================
