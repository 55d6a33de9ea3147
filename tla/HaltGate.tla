------------------------------ MODULE HaltGate ------------------------------
(***************************************************************************)
(* What the guardrail engine promises about a HALT, without the machinery: *)
(* from the moment a scope is stopped, no order of an agent it covers is   *)
(* signed or sent until that stop is released; a stop whose durable        *)
(* engagement was confirmed keeps that promise across a crash.             *)
(***************************************************************************)

CONSTANTS
  Agents, Global,   \* a scope is one agent or Global
  Orders, AgentOf   \* order pipelines and the agent each serves

VARIABLES
  halted,    \* scopes stopped in this process and not released since
  durable,   \* scopes durably engaged and not released since
  admitted   \* per order: "no", "signed" or "sent"

vars == <<halted, durable, admitted>>

Scopes == Agents \cup {Global}

Admissions == {"no", "signed", "sent"}

Open(agent) == \A scope \in halted \cup durable : scope # Global /\ scope # agent

Init ==
  /\ halted = {}
  /\ durable = {Global}
  /\ admitted = [o \in Orders |-> "no"]

(* begin_operator_kill or a tripped breaker; the tripping order ends *)
Stop(scope) ==
  /\ halted' = halted \cup {scope}
  /\ UNCHANGED <<durable, admitted>>

(* The engagement is confirmed in the policy journal. *)
Persist(scope) ==
  /\ durable' = durable \cup {scope}
  /\ UNCHANGED <<halted, admitted>>

(* An operator released the scope, durably or locally. *)
ReleaseDurable(scope) ==
  /\ durable' = durable \ {scope}
  /\ UNCHANGED <<halted, admitted>>

ReleaseLocal(scope) ==
  /\ halted' = halted \ {scope}
  /\ UNCHANGED <<durable, admitted>>

Sign(o) ==
  /\ admitted[o] = "no"
  /\ Open(AgentOf[o])
  /\ admitted' = [admitted EXCEPT ![o] = "signed"]
  /\ UNCHANGED <<halted, durable>>

Send(o) ==
  /\ admitted[o] = "signed"
  /\ Open(AgentOf[o])
  /\ admitted' = [admitted EXCEPT ![o] = "sent"]
  /\ UNCHANGED <<halted, durable>>

(* Dropped before it was sent, or answered after *)
End(o) ==
  /\ admitted[o] # "no"
  /\ admitted' = [admitted EXCEPT ![o] = "no"]
  /\ UNCHANGED <<halted, durable>>

(* Local stops and signed requests are lost; durable stops are not. *)
Crash ==
  /\ halted' = {}
  /\ admitted' = [o \in Orders |-> "no"]
  /\ UNCHANGED durable

Next ==
  \/ \E scope \in Scopes : Stop(scope) \/ Persist(scope)
                            \/ ReleaseDurable(scope) \/ ReleaseLocal(scope)
  \/ \E o \in Orders : Sign(o) \/ Send(o) \/ End(o)
  \/ Crash

Spec == Init /\ [][Next]_vars

=============================================================================
