-------------------------------- MODULE Feed --------------------------------
(***************************************************************************)
(* One account's feed: a socket connection (crates/oppen-hl/src/ws.rs),    *)
(* the ingress monitor between socket and consumer (ws/ingress.rs), the    *)
(* session and its pump (crates/oppen-core/src/feed.rs, feed/pump.rs), the *)
(* gap rows and the walk that closes them (reconcile.rs, ledger/mod.rs),   *)
(* and the admission of an order whose account state was read meanwhile    *)
(* (crates/oppen-mcp/src/tools.rs, evaluation_context_tracked).            *)
(*                                                                         *)
(* Fills are numbered in the order the venue makes them.  A stamp is only  *)
(* ever compared with the current one, so whoever holds a stamp keeps one  *)
(* bit: whether it is still current.  The userFills scope is modelled.     *)
(*                                                                         *)
(* noticed, received and the field calm are history: no guard reads them.  *)
(***************************************************************************)
EXTENDS Naturals, Sequences, FiniteSetsExt

CONSTANTS
  MaxFills,       \* bound: fills the venue makes
  MaxGaps,        \* bound: gap rows, so outages and restarts together
  ParseFailures,  \* a frame may be unreadable
  MaxHistory,     \* bound: fills and gap rows together
  StoreFaults,    \* a ledger write may fail
  Restarts        \* the values of failure at which the process may crash and start again

VARIABLES
  fills,       \* how many fills the venue has made
  link,        \* the connection as the venue sees it
  announced,   \* ConnState.announced_down
  base,        \* the fills made when the subscribe frames were sent
  wire,        \* frames sent, not yet received
  queue,       \* events registered at the ingress, not yet taken
  recorded,    \* fills with a ledger row
  gaps,        \* feed_gaps, oldest first
  reconciled,  \* Inner.reconciled
  failure,     \* Inner.failure is set
  pump,        \* what the pump is doing
  order,       \* one order on its way to admission
  noticed,     \* fills made before the last outage this program knows of
  received     \* fills in frames that reached the parser

socket == <<link, announced, base, wire>>
session == <<reconciled, failure>>
history == <<noticed, received>>
vars == <<fills, link, announced, base, wire, queue, recorded, gaps, reconciled, failure,
          pump, order, noticed, received>>

-----------------------------------------------------------------------------
(* Types *)

Fill == 1..MaxFills

Event == [kind : {"fills", "dropped", "disconnected", "reconnected"}, fills : SUBSET Fill]

Gap == [anchor : 0..MaxFills, closed : BOOLEAN, done : BOOLEAN]

Pump == [step : {"startup", "idle", "walk", "record"}, hand : BOOLEAN, todo : SUBSET Nat,
         found : SUBSET Fill, outstanding : BOOLEAN, current : BOOLEAN]

Order == [step : {"idle", "stamped", "read", "ready", "admitted"}, current : BOOLEAN,
          calm : BOOLEAN, snapshot : 0..MaxFills]

PumpIdle == [step |-> "idle", hand |-> FALSE, todo |-> {}, found |-> {},
             outstanding |-> FALSE, current |-> FALSE]

OrderIdle == [step |-> "idle", current |-> FALSE, calm |-> FALSE, snapshot |-> 0]

(* Every variable has its type. *)
TypeOK ==
  /\ fills \in 0..MaxFills /\ base \in 0..fills
  /\ link \in {"down", "subscribing", "up", "dead"}
  /\ wire \in Seq(SUBSET Fill) /\ queue \in Seq(Event) /\ gaps \in Seq(Gap)
  /\ {announced, reconciled, failure} \subseteq BOOLEAN
  /\ recorded \subseteq 1..fills /\ received \subseteq 1..fills
  /\ noticed \in 0..fills
  /\ pump \in Pump /\ pump.todo \subseteq DOMAIN gaps
  /\ order \in Order

-----------------------------------------------------------------------------
(* Ingress and session *)

(* EventSender::send registers at once: the event is pending and every     *)
(* stamp taken before it is out of date.                                   *)
Send(event) ==
  /\ queue' = Append(queue, event)
  /\ pump' = [pump EXCEPT !.current = FALSE]
  /\ order' = [order EXCEPT !.current = FALSE]

Signal(kind) == [kind |-> kind, fills |-> {}]

(* FeedSession::state().reconciled, and what admit asks of a current stamp. *)
(* An unacknowledged event fails the ingress, but only after failure is set. *)
Admits == reconciled /\ ~failure /\ queue = <<>> /\ ~pump.hand

-----------------------------------------------------------------------------
(* The venue (external) and the connection *)

(* bound: a row for every outage announced and for the start-up gap *)
GapRows ==
  Len(gaps) + Len(SelectSeq(queue, LAMBDA e : e.kind = "disconnected"))
    + (IF pump.step = "startup" THEN 1 ELSE 0)

RoomForGap == GapRows < MaxGaps /\ fills + GapRows < MaxHistory

VenueFill ==
  /\ fills < MaxFills /\ fills + GapRows < MaxHistory
  /\ fills' = fills + 1
  /\ wire' = IF link = "up" THEN Append(wire, {fills + 1}) ELSE wire
  /\ UNCHANGED <<link, announced, base, queue, recorded, gaps, session, pump, order, history>>

(* The path breaks; nobody knows yet. *)
Break ==
  /\ link \in {"subscribing", "up"} /\ RoomForGap
  /\ link' = "dead"
  /\ UNCHANGED <<fills, announced, base, wire, queue, recorded, gaps, session, pump, order,
                 history>>

(* announce_down: once per outage.  The session dropped, or the first      *)
(* connect or subscribe failed.                                            *)
AnnounceDown ==
  /\ ~announced /\ RoomForGap
  /\ link' = "down" /\ announced' = TRUE /\ wire' = <<>>
  /\ Send(Signal("disconnected"))
  /\ noticed' = fills
  /\ UNCHANGED <<fills, base, recorded, gaps, session, received>>

(* Subscribed: subscribe frames are sent; an announced outage is answered. *)
Subscribed ==
  /\ link = "down"
  /\ link' = "subscribing" /\ announced' = FALSE
  /\ IF announced
     THEN Send(Signal("reconnected")) /\ base' = fills
     ELSE UNCHANGED <<queue, pump, order, base>>
  /\ UNCHANGED <<fills, wire, recorded, gaps, session, history>>

(* The venue starts to stream, with a snapshot of the recent backlog: what *)
(* came since the subscribe at least, how much more is its choice.         *)
Activate ==
  /\ link = "subscribing"
  /\ link' = "up"
  /\ \E reach \in 0..base : wire' = <<(reach + 1)..fills>>
  /\ UNCHANGED <<fills, announced, base, queue, recorded, gaps, session, pump, order, history>>

(* handle_text *)
Receive ==
  /\ wire # <<>>
  /\ wire' = Tail(wire)
  /\ received' = received \cup Head(wire)
  /\ \/ Send([kind |-> "fills", fills |-> Head(wire)])
     \/ ParseFailures /\ Send(Signal("dropped"))
  /\ UNCHANGED <<fills, link, announced, base, recorded, gaps, session, noticed>>

-----------------------------------------------------------------------------
(* Gap rows *)

Newest_Next == IF recorded = {} THEN 0 ELSE Max(recorded) + 1

(* newest_fill_ts_ms *)
Newest == IF recorded = {} THEN 0 ELSE Max(recorded)

NewGap == [anchor |-> Newest, closed |-> FALSE, done |-> FALSE]

(* open_gap: a scope with an open gap gets that gap back. *)
OpenGap == IF \E i \in DOMAIN gaps : ~gaps[i].closed THEN gaps ELSE Append(gaps, NewGap)

CloseGaps(g) == [i \in DOMAIN g |-> [g[i] EXCEPT !.closed = TRUE]]

(* record_fill: a row is keyed by the venue's tid *)
RecordFill(new) == recorded' = recorded \cup new

(* unreconciled_gaps *)
WorkList(g) == {i \in DOMAIN g : ~g[i].done}

-----------------------------------------------------------------------------
(* The pump *)

(* reconcile: unreconciled() takes a fresh stamp, then the work list *)
BeginReconcile(g, hand) ==
  /\ gaps' = g
  /\ reconciled' = FALSE
  /\ pump' = [PumpIdle EXCEPT !.step = "walk", !.hand = hand, !.todo = WorkList(g),
                              !.current = TRUE]
  /\ order' = [order EXCEPT !.current = FALSE]

(* catch_up: a gap for everything before now *)
CatchUp ==
  /\ pump.step = "startup"
  /\ \/ BeginReconcile(CloseGaps(OpenGap), FALSE) /\ UNCHANGED failure
     \/ /\ StoreFaults /\ failure' = TRUE
        /\ \E g \in {gaps, OpenGap} : BeginReconcile(g, FALSE)
  /\ UNCHANGED <<fills, socket, queue, recorded, history>>

Takes(kind) ==
  /\ pump.step = "idle" /\ queue # <<>>
  /\ Head(queue).kind = kind
  /\ queue' = Tail(queue)

HandleDisconnected ==
  /\ Takes("disconnected")
  /\ reconciled' = FALSE
  /\ order' = [order EXCEPT !.current = FALSE]
  /\ \/ gaps' = OpenGap /\ UNCHANGED failure
     \/ StoreFaults /\ failure' = TRUE /\ UNCHANGED gaps
  /\ UNCHANGED <<fills, socket, recorded, pump, history>>

HandleReconnected ==
  /\ Takes("reconnected")
  /\ \/ BeginReconcile(CloseGaps(gaps), TRUE) /\ UNCHANGED failure
     \/ /\ StoreFaults /\ failure' = TRUE /\ reconciled' = FALSE
        /\ order' = [order EXCEPT !.current = FALSE]
        /\ UNCHANGED <<gaps, pump>>
  /\ UNCHANGED <<fills, socket, recorded, history>>

(* A fault ends the frame and latches the failure; the pump goes on.       *)
HandleFills ==
  /\ Takes("fills")
  /\ \/ RecordFill(Head(queue).fills) /\ UNCHANGED <<session, order>>
     \/ /\ StoreFaults /\ failure' = TRUE /\ reconciled' = FALSE
        /\ order' = [order EXCEPT !.current = FALSE]
        /\ \E last \in 0..fills : RecordFill(Head(queue).fills \cap 1..last)
  /\ UNCHANGED <<fills, socket, gaps, pump, history>>

(* MessageDropped is acknowledged and nothing more. *)
HandleDropped ==
  /\ Takes("dropped")
  /\ UNCHANGED <<fills, socket, recorded, gaps, session, pump, order, history>>

Retry_OnEvents ==
  /\ pump.step = "idle" /\ ~Admits /\ queue # <<>>
  /\ BeginReconcile(gaps, FALSE)
  /\ UNCHANGED <<fills, socket, queue, recorded, failure, history>>

(* run_inner: the timer, while the account is not caught up *)
Retry ==
  /\ pump.step = "idle" /\ ~Admits
  /\ BeginReconcile(gaps, FALSE)
  /\ UNCHANGED <<fills, socket, queue, recorded, failure, history>>

(* oldest first *)
Current == Min(pump.todo)

Working == gaps[Current]

(* outage_window, backfill_fills: after the anchor, with no end bound *)
Window(gap) == (gap.anchor + 1)..fills

(* reconcile_gap *)
Fetch ==
  /\ pump.step = "walk" /\ pump.todo # {}
  /\ Working.closed
  /\ pump' = [pump EXCEPT !.step = "record", !.found = Window(Working)]
  /\ UNCHANGED <<fills, socket, queue, recorded, gaps, session, order, history>>

LeaveGap_StillOpenDone ==
  /\ pump.step = "walk" /\ pump.todo # {}
  /\ pump' = [pump EXCEPT !.todo = @ \ {Current}, !.outstanding = @ \/ Working.closed]
  /\ UNCHANGED <<fills, socket, queue, recorded, gaps, session, order, history>>

(* reconcile_gap: the venue fails, or the gap's socket is still down *)
LeaveGap ==
  /\ pump.step = "walk" /\ pump.todo # {}
  /\ pump' = [pump EXCEPT !.todo = @ \ {Current}, !.outstanding = TRUE]
  /\ UNCHANGED <<fills, socket, queue, recorded, gaps, session, order, history>>

(* apply_fills: oldest first *)
RecordFound ==
  /\ pump.step = "record" /\ pump.found # {}
  /\ RecordFill({Min(pump.found)})
  /\ pump' = [pump EXCEPT !.found = @ \ {Min(@)}]
  /\ UNCHANGED <<fills, socket, queue, gaps, session, order, history>>

(* mark_gap_reconciled *)
MarkGap ==
  /\ pump.step = "record" /\ pump.found = {}
  /\ gaps' = [gaps EXCEPT ![Current].done = TRUE]
  /\ pump' = [pump EXCEPT !.step = "walk", !.todo = @ \ {Current}]
  /\ UNCHANGED <<fills, socket, queue, recorded, session, order, history>>

(* record_reconcile_failure: a ledger fault anywhere in the work on a gap *)
WalkFault ==
  /\ StoreFaults /\ pump.todo # {}
  /\ failure' = TRUE /\ reconciled' = FALSE
  /\ pump' = [pump EXCEPT !.step = "walk", !.todo = @ \ {Current}, !.found = {},
                          !.outstanding = TRUE, !.current = FALSE]
  /\ order' = [order EXCEPT !.current = FALSE]
  /\ UNCHANGED <<fills, socket, queue, recorded, gaps, history>>

(* FeedSession::reconciled, if nothing is outstanding and nothing happened *)
FinishReconcile ==
  /\ pump.step = "walk" /\ pump.todo = {}
  /\ reconciled' = (~pump.outstanding /\ pump.current /\ ~failure)
  /\ pump' = PumpIdle
  /\ UNCHANGED <<fills, socket, queue, recorded, gaps, failure, order, history>>

(* A crash, or a stop; the ledger stays. *)
Restart ==
  /\ failure \in Restarts /\ Len(gaps) < MaxGaps
  /\ link' = "down" /\ announced' = FALSE /\ base' = fills /\ wire' = <<>>
  /\ queue' = <<>>
  /\ reconciled' = FALSE /\ failure' = FALSE
  /\ pump' = [PumpIdle EXCEPT !.step = "startup"]
  /\ order' = OrderIdle
  /\ noticed' = fills
  /\ UNCHANGED <<fills, recorded, gaps, received>>

-----------------------------------------------------------------------------
(* An order *)

Asks(state) ==
  /\ order' = state
  /\ UNCHANGED <<fills, socket, queue, recorded, gaps, session, pump, history>>

(* evaluation_context_tracked: the stamp before the reads *)
Stamp ==
  /\ order.step = "idle"
  /\ Asks([order EXCEPT !.step = "stamped", !.current = TRUE, !.calm = Admits])

(* read_state: positions as of now *)
ReadState ==
  /\ order.step = "stamped"
  /\ Asks([order EXCEPT !.step = "read", !.snapshot = fills])

ReadFlag_LateStamp ==
  /\ order.step = "read"
  /\ Asks(IF Admits THEN [order EXCEPT !.step = "ready", !.current = TRUE, !.calm = TRUE]
          ELSE OrderIdle)

(* ... the reconciled flag after them; evaluate refuses if it is false *)
ReadFlag ==
  /\ order.step = "read"
  /\ Asks(IF Admits THEN [order EXCEPT !.step = "ready"] ELSE OrderIdle)

(* FeedSession::admit, around the signature and around the first poll of   *)
(* the dispatch; registration of events waits for it.                      *)
Admit ==
  /\ order.step = "ready"
  /\ Asks(IF order.current /\ Admits THEN [order EXCEPT !.step = "admitted"] ELSE OrderIdle)

Finish ==
  /\ order.step = "admitted"
  /\ Asks(OrderIdle)

-----------------------------------------------------------------------------

Init ==
  /\ fills = 0 /\ base = 0 /\ noticed = 0
  /\ link = "down" /\ announced = FALSE
  /\ wire = <<>> /\ queue = <<>> /\ gaps = <<>>
  /\ recorded = {} /\ received = {}
  /\ reconciled = FALSE /\ failure = FALSE
  /\ pump = [PumpIdle EXCEPT !.step = "startup"]
  /\ order = OrderIdle

Handle == HandleDisconnected \/ HandleReconnected \/ HandleFills \/ HandleDropped

Reconcile == Fetch \/ LeaveGap \/ RecordFound \/ MarkGap \/ WalkFault \/ FinishReconcile

Connection == Break \/ AnnounceDown \/ Subscribed \/ Activate \/ Receive

Place == Stamp \/ ReadState \/ ReadFlag \/ Admit \/ Finish

Next == VenueFill \/ Connection \/ CatchUp \/ Handle \/ Retry \/ Reconcile \/ Restart \/ Place

Spec == Init /\ [][Next]_vars

(* The pump's select is fair between its timer and its events, and work it *)
(* began it finishes; the connection's task runs; the venue answers a walk *)
(* that is tried often enough.                                             *)
Fairness ==
  /\ WF_vars(CatchUp \/ Reconcile)
  /\ SF_vars(Handle)
  /\ WF_vars(Retry)
  /\ WF_vars(Receive)
  /\ SF_vars(Fetch)

FairSpec == Spec /\ Fairness

-----------------------------------------------------------------------------
(* Properties *)

(* While the session would admit an order, the ledger holds every fill     *)
(* made before the last outage or start this program knows of and every    *)
(* fill that reached it: "trading against [a chain short of a row] would   *)
(* be trading against a position oppen has mis-stated" (feed.rs,           *)
(* unreconciled).                                                          *)
CaughtUp == Admits => (1..noticed) \cup received \subseteq recorded

AdmissionCoversLedger ==
  order.step # "admitted" /\ order'.step = "admitted" /\ order.calm =>
    recorded \subseteq 1..order.snapshot

(* An order whose stamp was taken while the account was caught up is       *)
(* admitted only with an account state at least as new as every fill in    *)
(* the ledger: whatever arrives or is re-walked between the stamp and the  *)
(* signature outdates it (stamp, "Capture before gathering the account     *)
(* snapshot, never after its reads").                                      *)
AdmittedStateCoversLedger == [][AdmissionCoversLedger]_vars

(* With the connection up for good and nothing failed, orders can be       *)
(* admitted again: neither an event during a walk nor a failed walk leaves *)
(* the account refused forever.                                            *)
AccountRecovers == <>[](link = "up" /\ ~failure) => <>[]Admits

=============================================================================
