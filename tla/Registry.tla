------------------------------ MODULE Registry ------------------------------
(***************************************************************************)
(* Who may sign for which container: the authenticated grants of           *)
(* ledger/registry.rs beside the account metadata of accounts.rs.          *)
(*                                                                         *)
(* `log` holds the registry rows of the ledger in order, so the position   *)
(* of a grant is its binding_seq.  `accounts` is the sub_accounts table,   *)
(* which grants and retirements project into in the transaction of their   *)
(* row and which the roster operations of accounts.rs also write.  Every   *)
(* operation is one immediate transaction under the ledger's lock and so   *)
(* one action.  A clearance keeps the route it was decided on; the route   *)
(* is verified again in the lock hold that signs.  The MAC, the hash chain *)
(* and the head noted after each commit belong to module LedgerChain;      *)
(* names, wallet dates and the wire route of a container are left out.     *)
(***************************************************************************)
EXTENDS Integers, Sequences, FiniteSets

CONSTANTS
    Agents,       \* agent identifiers
    Containers,   \* account addresses
    Signers,      \* API wallet addresses
    Requests,     \* orders cleared and not yet signed
    MaxLog        \* bound on the registry rows

VARIABLES
    log,          \* the registry rows of the ledger
    accounts,     \* the sub_accounts table
    clearance,    \* the route each request was cleared on, 0 for none
    signed        \* the routes signatures were made under

vars == <<log, accounts, clearance, signed>>

-----------------------------------------------------------------------------
(* Rows and owners.                                                        *)

NoRow == [owner |-> <<>>, recorded |-> FALSE, provisioned |-> FALSE,
          active |-> FALSE, present |-> FALSE]

\* registry_owner: an owner is a type and an identifier.
AgentOwner(a) == <<"agent", a>>
WorkflowOwner(a) == <<"workflow", a>>
Owners == {AgentOwner(a) : a \in Agents} \cup {WorkflowOwner(a) : a \in Agents}

Granted == {i \in 1..Len(log) : log[i].kind = "granted"}
Retired(i) == \E j \in 1..Len(log) : log[j].kind = "retired" /\ log[j].of = i
Live == {i \in Granted : ~Retired(i)}

\* managed_on: an address with an authenticated grant, live or retired.
Managed(c) == \E i \in Granted : log[i].container = c

\* bound_to: the live rows of an owner.
BoundTo(owner) ==
    {c \in Containers : accounts[c].present /\ accounts[c].active /\ accounts[c].owner = owner}

\* upsert_sub_account_on refuses to change what an authenticated grant fixed.
MayUpsert(c, row) ==
    Managed(c) => /\ accounts[c].owner = row.owner
                  /\ accounts[c].active = row.active
                  /\ row.recorded

Init == /\ log = <<>>
        /\ accounts = [c \in Containers |-> NoRow]
        /\ clearance = [r \in Requests |-> 0]
        /\ signed = {}

-----------------------------------------------------------------------------
(* Authenticated history: RegistryJournal.                                 *)

\* What validate_projection demands of the metadata of one grant.
Projected(i) ==
    LET c == log[i].container
        owner == AgentOwner(log[i].agent)
    IN /\ accounts[c].present
       /\ accounts[c].owner = owner
       /\ accounts[c].active = ~Retired(i)
       /\ accounts[c].recorded
       /\ ~Retired(i) => BoundTo(owner) \subseteq {c}

\* replay: containers and signers granted once, one live grant per agent, a
\* retirement names an earlier live grant, and the projection agrees.
Replays ==
    /\ \A i, j \in Granted : i # j =>
           /\ log[i].container # log[j].container
           /\ log[i].signer # log[j].signer
           /\ (i \in Live /\ j \in Live => log[i].agent # log[j].agent)
    /\ \A j \in 1..Len(log) : log[j].kind = "retired" =>
           /\ log[j].of \in Granted /\ log[j].of < j
           /\ \A k \in 1..(j - 1) : ~(log[k].kind = "retired" /\ log[k].of = log[j].of)
    /\ \A i \in Granted : Projected(i)

\* A grant conflicts with any grant of its container or signer, retired ones
\* too, and with a live grant of its agent.
Conflicts_LiveOnly(a, c, s) ==
    \E i \in Live : log[i].container = c \/ log[i].signer = s \/ log[i].agent = a
Conflicts(a, c, s) ==
    \E i \in Granted : \/ log[i].container = c
                       \/ log[i].signer = s
                       \/ i \in Live /\ log[i].agent = a

\* The metadata a grant may adopt: nothing live of its agent elsewhere, and a
\* row at the container only when live and unowned or already the agent's.
Adoptable(a, c) ==
    /\ BoundTo(AgentOwner(a)) \subseteq {c}
    /\ accounts[c].present => /\ accounts[c].active
                              /\ accounts[c].owner \in {<<>>, AgentOwner(a)}

Grant(a, c, s) ==
    /\ Len(log) < MaxLog
    /\ Replays
    /\ ~Conflicts(a, c, s)
    /\ Adoptable(a, c)
    /\ log' = Append(log, [kind |-> "granted", agent |-> a, container |-> c, signer |-> s, of |-> 0])
    /\ accounts' = [accounts EXCEPT ![c] =
                      [owner |-> AgentOwner(a), recorded |-> TRUE,
                       provisioned |-> @.provisioned, active |-> TRUE, present |-> TRUE]]
    /\ UNCHANGED <<clearance, signed>>

\* The projection a retirement leaves: inactive, still owned and recorded.
RetiredRow_Forgotten(row) == [row EXCEPT !.active = FALSE, !.recorded = FALSE]
RetiredRow(row) == [row EXCEPT !.active = FALSE]

Retire(i) ==
    /\ Len(log) < MaxLog
    /\ Replays
    /\ i \in Live
    /\ log' = Append(log, [kind |-> "retired", agent |-> log[i].agent,
                           container |-> log[i].container, signer |-> log[i].signer, of |-> i])
    /\ accounts' = [accounts EXCEPT ![log[i].container] = RetiredRow(@)]
    /\ UNCHANGED <<clearance, signed>>

-----------------------------------------------------------------------------
(* The roster: accounts.rs.                                                *)

\* provision: never a retired row, another owner's row, or a second live row.
MayProvision(c, owner) ==
    /\ accounts[c].present => accounts[c].active /\ accounts[c].owner \in {<<>>, owner}
    /\ BoundTo(owner) \subseteq {c}

Provision(c, owner) ==
    LET row == [owner |-> owner, recorded |-> TRUE, provisioned |-> TRUE,
                active |-> TRUE, present |-> TRUE]
    IN /\ MayProvision(c, owner)
       /\ MayUpsert(c, row)
       /\ accounts' = [accounts EXCEPT ![c] = row]
       /\ UNCHANGED <<log, clearance, signed>>

\* observe: a sweep adds the rows it has not seen and touches no other flag.
Observe_Resets(seen) ==
    /\ accounts' = [c \in Containers |->
                      IF c \in seen
                      THEN [NoRow EXCEPT !.present = TRUE, !.active = TRUE] ELSE accounts[c]]
    /\ UNCHANGED <<log, clearance, signed>>
Observe(seen) ==
    /\ accounts' = [c \in Containers |->
                      IF c \in seen /\ ~accounts[c].present
                      THEN [NoRow EXCEPT !.present = TRUE, !.active = TRUE]
                      ELSE accounts[c]]
    /\ UNCHANGED <<log, clearance, signed>>

\* opt_in and opt_out.
MayOptOut_Unprovisioned(c) == ~accounts[c].provisioned
MayOptOut(c) == ~Managed(c) /\ ~accounts[c].provisioned

SetRecorded(c, recorded) ==
    /\ accounts[c].present /\ accounts[c].active
    /\ ~recorded => MayOptOut(c)
    /\ accounts' = [accounts EXCEPT ![c].recorded = recorded]
    /\ UNCHANGED <<log, clearance, signed>>

\* retire on the roster: metadata only, refused for any granted address.
RetireMetadata(c) ==
    /\ accounts[c].present /\ ~Managed(c)
    /\ accounts' = [accounts EXCEPT ![c].active = FALSE]
    /\ UNCHANGED <<log, clearance, signed>>

-----------------------------------------------------------------------------
(* Clearing and signing.                                                   *)

\* route_for_agent: an agent's one live grant.
RouteOf(a) == {i \in Live : log[i].agent = a}

Clear(r, a) ==
    /\ clearance[r] = 0
    /\ Replays
    /\ RouteOf(a) # {}
    /\ clearance' = [clearance EXCEPT ![r] = CHOOSE i \in RouteOf(a) : TRUE]
    /\ UNCHANGED <<log, accounts, signed>>

\* verify_route_in, in the lock hold of the signature.
VerifyRoute_Granted(i) == i \in Granted
VerifyRoute(i) == RouteOf(log[i].agent) = {i}

Sign(r) ==
    /\ clearance[r] # 0
    /\ Replays
    /\ VerifyRoute(clearance[r])
    /\ signed' = signed \cup {[route |-> clearance[r], row |-> Len(log)]}
    /\ clearance' = [clearance EXCEPT ![r] = 0]
    /\ UNCHANGED <<log, accounts>>

\* A clearance that fails verification, or is dropped, signs nothing.
Discard(r) ==
    /\ clearance[r] # 0
    /\ clearance' = [clearance EXCEPT ![r] = 0]
    /\ UNCHANGED <<log, accounts, signed>>

Next ==
    \/ \E a \in Agents, c \in Containers, s \in Signers : Grant(a, c, s)
    \/ \E i \in 1..MaxLog : i <= Len(log) /\ Retire(i)
    \/ \E c \in Containers, owner \in Owners : Provision(c, owner)
    \/ \E seen \in SUBSET Containers \ {{}} : Observe(seen)
    \/ \E c \in Containers, recorded \in BOOLEAN : SetRecorded(c, recorded)
    \/ \E c \in Containers : RetireMetadata(c)
    \/ \E r \in Requests, a \in Agents : Clear(r, a)
    \/ \E r \in Requests : Sign(r)
    \/ \E r \in Requests : Discard(r)

Spec == Init /\ [][Next]_vars

-----------------------------------------------------------------------------
(* Properties.                                                             *)

(* No sequence of grants, retirements and roster edits leaves a history     *)
(* that replay refuses: a refused replay would stop every signature and     *)
(* every later grant or retirement for good.  Its parts: a wallet and a     *)
(* container are granted once ever, and the roster names exactly the live   *)
(* container of every granted agent.                                        *)
NeverLockedOut == Replays

(* A signature is made only under a route live in the history it was        *)
(* verified against, whatever was retired or granted after the clearance:   *)
(* verify_route_in runs in the lock hold that signs.                        *)
RetiredNeverSigns ==
    \A x \in signed : ~\E j \in 1..x.row : log[j].kind = "retired" /\ log[j].of = x.route

RowsAge ==
    \A c \in Containers : accounts[c].present =>
       /\ accounts'[c].present
       /\ accounts[c].owner # <<>> => accounts'[c].owner = accounts[c].owner
       /\ ~accounts[c].active => ~accounts'[c].active
       /\ (accounts[c].provisioned \/ Managed(c)) => (accounts[c].recorded => accounts'[c].recorded)

(* Rows only age: an owner once recorded is never replaced, a retired row   *)
(* is never revived, and recording never stops for an account oppen made    *)
(* or granted, so its late fills are still polled.                          *)
RowsOnlyAge == [][RowsAge]_vars
=============================================================================
