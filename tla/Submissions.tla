----------------------------- MODULE Submissions -----------------------------
(***************************************************************************)
(* The durable reservation of one trading account                          *)
(* (crates/oppen-core/src/ledger/submission.rs, submission_evidence.rs)    *)
(* and the gateways that place orders under it                             *)
(* (crates/oppen-mcp/src/tools.rs: place, reserve_account_held,            *)
(* submit_inline, track_submission).                                       *)
(*                                                                         *)
(* A gateway serves one order of the account at a time: its execution      *)
(* queue is held from reservation to answer.  Two gateways (two processes, *)
(* or an old and a new one) share only the ledger and the venue.  Every    *)
(* ledger transaction is one action; every await lies between two actions. *)
(*                                                                         *)
(* The journal's rows are kept as what replay makes of them: the position  *)
(* of each cloid's start and resolution among the account's lifecycle rows *)
(* (start and resolution keys are unique, so there is at most one each).   *)
(*                                                                         *)
(* sends and the field seen are history: no guard reads them.              *)
(***************************************************************************)
EXTENDS Naturals

CONSTANTS
  Gateways,     \* execution queues that share the account
  Cloids,       \* client order ids; an agent may supply one again
  NoCloid,      \* no order yet
  StoreFaults   \* a ledger transaction may fail, before or after its commit

ASSUME SubmissionsAssumption ==
  /\ NoCloid \notin Cloids
  /\ StoreFaults \in BOOLEAN

VARIABLES
  started,    \* per cloid: lifecycle position of its submission_started row
  resolved,   \* per cloid: lifecycle position of its submission_resolved row
  outcome,    \* per cloid: the resolution that row records
  revision,   \* SubmissionState.revision: the last lifecycle position
  signed,     \* cloids with a submission_signed row
  accepted,   \* cloids with a submission_accepted row
  gateway,    \* the order each gateway works on
  venue,      \* what became of each order outside this program
  sends       \* per cloid: how often a request was dispatched

journal == <<started, resolved, outcome, revision>>
evidence == <<signed, accepted>>
world == <<venue, sends>>
vars == <<started, resolved, outcome, revision, signed, accepted, gateway, venue, sends>>

-----------------------------------------------------------------------------
(* Types *)

Outcomes == {"none", "not_sent", "rejected", "observed"}

Fates == {"unsent", "inflight", "resting", "filled", "cancelled", "rejected"}

(* An order the venue took: order_status answers with it from then on. *)
Taken == {"resting", "filled", "cancelled"}

GatewaySteps == {"idle", "lookup", "observed", "restate", "permit", "ready", "begun",
                 "signed", "notsent", "sent", "refused"}

Gateway == [step : GatewaySteps, cloid : Cloids \cup {NoCloid}, rev : Nat, seen : SUBSET Cloids]

Idle == [step |-> "idle", cloid |-> NoCloid, rev |-> 0, seen |-> {}]

(* Every variable has its type. *)
TypeOK ==
  /\ started \in [Cloids -> Nat]
  /\ resolved \in [Cloids -> Nat]
  /\ outcome \in [Cloids -> Outcomes]
  /\ revision \in Nat
  /\ signed \in SUBSET Cloids
  /\ accepted \in SUBSET Cloids
  /\ gateway \in [Gateways -> Gateway]
  /\ venue \in [Cloids -> Fates]
  /\ sends \in [Cloids -> Nat]

-----------------------------------------------------------------------------
(* The journal *)

Pending == {c \in Cloids : started[c] # 0 /\ resolved[c] = 0}

CanBegin_AnyRevision(rev, c) == Pending = {} /\ started[c] = 0

(* begin: no pending submission, the permit's revision, a fresh cloid *)
CanBegin(rev, c) == Pending = {} /\ revision = rev /\ started[c] = 0

AppendStart(c) ==
  /\ started' = [started EXCEPT ![c] = revision + 1]
  /\ revision' = revision + 1
  /\ UNCHANGED <<resolved, outcome>>

Resolve_Again(c, result) ==
  /\ resolved' = [resolved EXCEPT ![c] = revision + 1]
  /\ outcome' = [outcome EXCEPT ![c] = result]
  /\ revision' = revision + 1
  /\ UNCHANGED started

(* resolve: a second resolution of the same start is a no-op *)
Resolve(c, result) ==
  IF resolved[c] # 0 THEN UNCHANGED journal
  ELSE /\ resolved' = [resolved EXCEPT ![c] = revision + 1]
       /\ outcome' = [outcome EXCEPT ![c] = result]
       /\ revision' = revision + 1
       /\ UNCHANGED started

(* verify_reserved_in: this start is the account's pending one *)
Reserved(c) == c \in Pending

(* verify_signed_in *)
SignedReservation(c) == Reserved(c) /\ c \in signed /\ c \notin accepted

-----------------------------------------------------------------------------
(* A gateway *)

At(g, step) == gateway[g].step = step

Own(g) == gateway[g].cloid

Becomes(g, state) == gateway' = [gateway EXCEPT ![g] = state]

Moves(g, step) == Becomes(g, [gateway[g] EXCEPT !.step = step])

(* Any await, refusal or fault may end a request that has no reservation;  *)
(* a crash ends any.  The execution queue is released.                     *)
GiveUp(g) ==
  /\ ~At(g, "idle")
  /\ Becomes(g, Idle)
  /\ UNCHANGED <<journal, evidence, world>>

(* reserve_account_held: the account's state *)
ReserveState(g) ==
  /\ At(g, "idle")
  /\ \/ /\ Pending = {}
        /\ Becomes(g, [Idle EXCEPT !.step = "permit", !.rev = revision])
     \/ \E c \in Pending : Becomes(g, [Idle EXCEPT !.step = "lookup", !.cloid = c])
  /\ UNCHANGED <<journal, evidence, world>>

LookupAnswers_RestingOnly(c) == venue[c] = "resting"

(* order_status: the venue knows an order it took, and may know one it     *)
(* rejected; UnknownOid otherwise, and then the reservation is retained.   *)
LookupAnswers(c) == venue[c] \in Taken \cup {"rejected"}

Lookup(g) ==
  /\ At(g, "lookup")
  /\ LookupAnswers(Own(g))
  /\ Moves(g, "observed")
  /\ UNCHANGED <<journal, evidence, world>>

(* resolve(Observed) *)
ResolveObserved(g) ==
  /\ At(g, "observed")
  /\ Resolve(Own(g), "observed")
  /\ \/ Becomes(g, [Idle EXCEPT !.step = "restate"])
     \/ StoreFaults /\ Becomes(g, Idle)
  /\ UNCHANGED <<evidence, world>>

(* The second read of the state: another gateway may have reserved it *)
Restate(g) ==
  /\ At(g, "restate")
  /\ Becomes(g, IF Pending = {} THEN [Idle EXCEPT !.step = "permit", !.rev = revision]
                ELSE Idle)
  /\ UNCHANGED <<journal, evidence, world>>

(* read_state: the account as the venue shows it from here on; later reads *)
(* of the same context only show more                                      *)
ReadState(g) ==
  /\ At(g, "permit")
  /\ Becomes(g, [gateway[g] EXCEPT !.step = "ready",
                   !.seen = {c \in Cloids : venue[c] \in Taken}])
  /\ UNCHANGED <<journal, evidence, world>>

(* evaluate clears the order (PolicyEngine), submit_inline begins it.  An  *)
(* error after the commit loses the receipt, not the reservation.          *)
Begin(g, c) ==
  /\ At(g, "ready")
  /\ CanBegin(gateway[g].rev, c)
  /\ AppendStart(c)
  /\ \/ Becomes(g, [gateway[g] EXCEPT !.step = "begun", !.cloid = c])
     \/ StoreFaults /\ Becomes(g, Idle)
  /\ UNCHANGED <<evidence, world>>

(* sign_submission_authorized: the evidence row commits under the signing  *)
(* permit; the gate may refuse before it and after it.                     *)
Sign(g) ==
  /\ At(g, "begun")
  /\ \/ /\ Reserved(Own(g)) /\ Own(g) \notin signed
        /\ signed' = signed \cup {Own(g)}
        /\ Moves(g, "signed") \/ Moves(g, "notsent")
     \/ /\ Moves(g, "notsent")
        /\ UNCHANGED signed
  /\ UNCHANGED <<journal, accepted, world>>

(* post_submission_authorized: one poll under the signing permit, or none *)
Post(g) ==
  /\ At(g, "signed")
  /\ \/ /\ SignedReservation(Own(g))
        /\ venue' = [venue EXCEPT ![Own(g)] = "inflight"]
        /\ sends' = [sends EXCEPT ![Own(g)] = @ + 1]
        /\ Becomes(g, [Idle EXCEPT !.step = "sent", !.cloid = Own(g)])
     \/ /\ Moves(g, "notsent")
        /\ UNCHANGED world
  /\ UNCHANGED <<journal, evidence>>

(* signing_submission_error *)
ResolveNotSent(g) ==
  /\ At(g, "notsent")
  /\ Resolve(Own(g), "not_sent")
  /\ Becomes(g, Idle)
  /\ UNCHANGED <<evidence, world>>

(* record_post_result: the venue's acceptance becomes evidence, unless     *)
(* another gateway observed and released the reservation first.            *)
AnswerAccepted(g) ==
  /\ At(g, "sent")
  /\ venue[Own(g)] \in Taken
  /\ \/ SignedReservation(Own(g)) /\ accepted' = accepted \cup {Own(g)}
     \/ /\ StoreFaults \/ ~SignedReservation(Own(g))
        /\ UNCHANGED accepted
  /\ Becomes(g, Idle)
  /\ UNCHANGED <<journal, signed, world>>

TrackUnknown_Resolves(g) ==
  /\ At(g, "sent")
  /\ Moves(g, "notsent")
  /\ UNCHANGED <<journal, evidence, world>>

TrackUnknown_Retries(g) ==
  /\ At(g, "sent")
  /\ Moves(g, "signed")
  /\ UNCHANGED <<journal, evidence, world>>

(* track_submission: a transport error decides nothing *)
TrackUnknown(g) ==
  /\ At(g, "sent")
  /\ Becomes(g, Idle)
  /\ UNCHANGED <<journal, evidence, world>>

(* track_submission: a structured rejection *)
AnswerRejected(g) ==
  /\ At(g, "sent")
  /\ venue[Own(g)] = "rejected"
  /\ Moves(g, "refused")
  /\ UNCHANGED <<journal, evidence, world>>

ResolveRejected(g) ==
  /\ At(g, "refused")
  /\ Resolve(Own(g), "rejected")
  /\ Becomes(g, Idle)
  /\ UNCHANGED <<evidence, world>>

-----------------------------------------------------------------------------
(* The venue (external).  A dispatched request may stay in flight forever. *)

VenueStep(c, from, to) ==
  /\ venue[c] \in from
  /\ venue' = [venue EXCEPT ![c] = to]
  /\ UNCHANGED <<journal, evidence, gateway, sends>>

Arrive(c) == \E fate \in {"resting", "filled", "rejected"} : VenueStep(c, {"inflight"}, fate)

Fill(c) == VenueStep(c, {"resting"}, "filled")

Cancel(c) == VenueStep(c, {"resting"}, "cancelled")

-----------------------------------------------------------------------------

Init ==
  /\ started = [c \in Cloids |-> 0]
  /\ resolved = [c \in Cloids |-> 0]
  /\ outcome = [c \in Cloids |-> "none"]
  /\ revision = 0
  /\ signed = {}
  /\ accepted = {}
  /\ gateway = [g \in Gateways |-> Idle]
  /\ venue = [c \in Cloids |-> "unsent"]
  /\ sends = [c \in Cloids |-> 0]

GatewayStep(g) ==
  \/ GiveUp(g)
  \/ ReserveState(g) \/ Lookup(g) \/ ResolveObserved(g) \/ Restate(g)
  \/ ReadState(g) \/ (\E c \in Cloids : Begin(g, c))
  \/ Sign(g) \/ Post(g) \/ ResolveNotSent(g)
  \/ AnswerAccepted(g) \/ TrackUnknown(g) \/ AnswerRejected(g) \/ ResolveRejected(g)

Next ==
  \/ \E g \in Gateways : GatewayStep(g)
  \/ \E c \in Cloids : Arrive(c) \/ Fill(c) \/ Cancel(c)

Spec == Init /\ [][Next]_vars

(* Every await of a worker is bounded in time and agents keep placing      *)
(* orders, so a gateway always moves on; the venue answers a status query  *)
(* if it is asked often enough, and the ledger takes the resolution.       *)
Fairness ==
  \A g \in Gateways :
    /\ WF_vars(GatewayStep(g))
    /\ SF_vars(Lookup(g))
    /\ SF_vars(ResolveObserved(g))

FairSpec == Spec /\ Fairness

-----------------------------------------------------------------------------
(* Properties *)

(* Whatever is retried, answered late or lost in a crash, one cloid is     *)
(* dispatched at most once ("the only safe move after                      *)
(* timeout_unknown_outcome is query-by-cloid, never blind retry").         *)
DispatchedOnce == \A c \in Cloids : sends[c] <= 1

(* What replay demands of the rows begin and resolve write, so that no     *)
(* interleaving of gateways bricks the account: a start comes only after   *)
(* every earlier start was resolved, a resolution only after its start.    *)
ReplayAccepts ==
  /\ \A c \in Cloids : resolved[c] # 0 => started[c] # 0 /\ started[c] < resolved[c]
  /\ \A c, d \in Cloids :
       c # d /\ started[c] # 0 /\ started[d] # 0 =>
         \/ resolved[c] # 0 /\ resolved[c] < started[d]
         \/ resolved[d] # 0 /\ resolved[d] < started[c]

(* "Only definite submission evidence does [release a reservation]; an     *)
(* unknown transport outcome must remain pending": what a resolution says  *)
(* of the order is true, and no gateway can still make it false.           *)
ResolutionsAreDefinite ==
  \A c \in Cloids :
    /\ outcome[c] = "not_sent" =>
         sends[c] = 0 /\ \A g \in Gateways : Own(g) = c => gateway[g].step # "signed"
    /\ outcome[c] = "rejected" => venue[c] = "rejected"
    /\ outcome[c] = "observed" => venue[c] \in Taken \cup {"rejected"}

(* An order is evaluated, signed and sent only while every other order of  *)
(* the account that could still execute was at the venue before its        *)
(* exposure was read ("Return the account lock only after the previous     *)
(* submission is visible at the venue").                                   *)
Committed(c) == sends[c] > 0 /\ venue[c] # "rejected"

NoOrderEscapesReservation ==
  \A g \in Gateways : gateway[g].step \in {"begun", "signed"} =>
    \A c \in Cloids \ {Own(g)} : Committed(c) => c \in gateway[g].seen

(* An order that the venue shows does not hold the account forever. *)
VisibleOrdersAreReleased ==
  \A c \in Cloids : c \in Pending /\ venue[c] \in Taken ~> c \notin Pending

=============================================================================
