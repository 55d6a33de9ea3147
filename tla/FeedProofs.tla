----------------------------- MODULE FeedProofs -----------------------------
(***************************************************************************)
(* The session admits an order only over a ledger that has caught up, for  *)
(* any number of fills, outages, walks and restarts.  A fill is on its way *)
(* to the ledger along one of three paths: the frames of the connection,   *)
(* the walk that is recording, or a gap that is not reconciled yet.  What  *)
(* that walk itself promises, module Backfill, is proved at the end.       *)
(***************************************************************************)
EXTENDS MCMeters, FiniteSetTheorems, WellFoundedInduction, TLAPS

-----------------------------------------------------------------------------
(* What the feed keeps true *)

Undone == F!WorkList(gaps)

Opened == {i \in DOMAIN gaps : ~gaps[i].closed}

Queued(q, n) == UNION {q[k].fills : k \in 1..n}

Wired(w, n) == UNION {w[k] : k \in 1..n}

IsSignal(event) == event.kind \in {"disconnected", "reconnected"}

(* No outage is told of among the first n events. *)
Quiet(q, n) == \A k \in 1..n : ~IsSignal(q[k])

(* Types.  Numbers are of fills that were made. *)
CountsTyped ==
  /\ fills \in 0..MaxFills /\ base \in 0..fills /\ noticed \in 0..fills
  /\ recorded \subseteq 1..fills /\ received \subseteq 1..fills

FlagsTyped ==
  /\ link \in {"down", "subscribing", "up", "dead"}
  /\ announced \in BOOLEAN /\ reconciled \in BOOLEAN /\ failure \in BOOLEAN

WireTyped == wire \in Seq(SUBSET (1..fills))

EventOf(n) == [kind : {"fills", "dropped", "disconnected", "reconnected"}, fills : SUBSET (1..n)]

(* Only frames carry fills. *)
QueueTyped ==
  /\ queue \in Seq(EventOf(fills))
  /\ \A k \in 1..Len(queue) : queue[k].kind # "fills" => queue[k].fills = {}

GapOf(n) == [anchor : 0..n, closed : BOOLEAN, done : BOOLEAN]

GapsTyped == gaps \in Seq(GapOf(fills))

PumpTyped ==
  /\ pump \in F!Pump
  /\ pump.todo \subseteq DOMAIN gaps
  /\ pump.found \subseteq 1..fills
  /\ pump.step = "record" => pump.todo # {}
  /\ reconciled => pump.step = "idle"

OrderTyped == order \in F!Order

FeedTyped == CountsTyped /\ FlagsTyped /\ WireTyped /\ QueueTyped /\ GapsTyped /\ PumpTyped /\ OrderTyped

(* A stamp that was taken over a calm session and is still current: the    *)
(* session is calm still, and the account state is as new as the ledger.   *)
StampHolds ==
  order.current /\ order.calm =>
    /\ order.step \in {"stamped", "read", "ready"} => F!Admits /\ pump.step = "idle"
    /\ order.step \in {"read", "ready"} => recorded \subseteq 1..order.snapshot

(* What is in the ledger or will be without any further frame *)
Settled ==
  IF pump.step = "record" THEN recorded \cup pump.found \cup 1..F!Working.anchor
  ELSE IF pump.step = "startup" \/ Undone # {} THEN 1..fills
  ELSE recorded

DownwardClosed(S) == \A m \in S : 1..m \subseteq S

(* Gap rows.  Some gap that is not done reaches back to where the ledger   *)
(* is complete; without one the whole ledger is complete.                  *)
RowsHold(g) ==
  /\ \A i \in DOMAIN g : g[i].done => g[i].closed
  /\ \A i \in DOMAIN g : g[i].anchor = 0 \/ g[i].anchor \in recorded
  /\ IF F!WorkList(g) # {} THEN \E i \in F!WorkList(g) : 1..g[i].anchor \subseteq recorded
     ELSE DownwardClosed(recorded)

GapsHold == RowsHold(gaps)

(* The walk knows of every gap it has not left. *)
WalkHolds ==
  /\ reconciled => Undone = {}
  /\ pump.step \in {"walk", "record"} =>
       /\ pump.todo \subseteq Undone
       /\ ~pump.outstanding => Undone \subseteq pump.todo
  /\ pump.step = "record" =>
       /\ F!Working.closed
       /\ DownwardClosed(Settled)

(* Among the first n events an outage is told of and not yet answered, or  *)
(* an earlier one has its gap.                                             *)
Answerable(n) ==
  \/ \E j \in 1..n : /\ queue[j].kind = "disconnected"
                     /\ \A k \in 1..n : queue[k].kind = "reconnected" => k < j
  \/ /\ \A k \in 1..n : queue[k].kind # "reconnected"
     /\ Opened # {} /\ pump.step # "startup"

(* A reconnect is told of only after its outage. *)
AnswersHold ==
  /\ \A i \in 1..Len(queue) : queue[i].kind = "reconnected" => Answerable(i - 1)
  /\ announced => Answerable(Len(queue))

(* Until the next outage is told of, frames leave no hole. *)
StreamHolds ==
  /\ \A i \in 1..Len(queue) :
       Quiet(queue, i - 1) => \A m \in queue[i].fills : 1..m \subseteq Settled \cup Queued(queue, i)
  /\ Quiet(queue, Len(queue)) =>
       /\ \A p \in 1..Len(wire) : \A m \in wire[p] :
            1..m \subseteq Settled \cup Queued(queue, Len(queue)) \cup Wired(wire, p)
       /\ link = "up" => 1..fills \subseteq Settled \cup Queued(queue, Len(queue)) \cup Wired(wire, Len(wire))
       /\ 1..base \subseteq Settled \cup Queued(queue, Len(queue)) \cup Wired(wire, Len(wire))

(* What this program knows of is settled, or is on its way. *)
KnownHolds ==
  /\ (\A k \in 1..Len(queue) : queue[k].kind # "disconnected") => 1..noticed \subseteq Settled
  /\ received \subseteq 1..noticed \cup recorded \cup Queued(queue, Len(queue))

LinkHolds == link \in {"down", "subscribing"} => wire = <<>>

FeedSound ==
  ~failure => GapsHold /\ WalkHolds /\ AnswersHold /\ StreamHolds /\ KnownHolds /\ LinkHolds

FeedInv == FeedTyped /\ StampHolds /\ FeedSound

-----------------------------------------------------------------------------
(* Numbers and sequences *)

(* Every set of numbers has a least one, which Min names. *)
LEMMA MinIsLeast ==
  ASSUME NEW T \in SUBSET Nat, T # {}
  PROVE  F!Min(T) \in T /\ \A y \in T : F!Min(T) <= y
<1>1. IsWellFoundedOn(OpToRel(<, Nat), Nat)
  BY NatLessThanWellFounded
<1>2. PICK x \in T : \A y \in T : ~(<<y, x>> \in OpToRel(<, Nat))
  BY <1>1, WFMin
<1>3. \A y \in T : ~(y < x)
  BY <1>2 DEF OpToRel
<1>4. \A y \in T : x <= y
  BY <1>3
<1> QED BY <1>4 DEF F!Min

(* A set of numbers with a bound has a greatest one, which Max names. *)
LEMMA MaxIsGreatest ==
  ASSUME NEW T \in SUBSET Nat, T # {}, NEW b \in Nat, \A y \in T : y <= b
  PROVE  F!Max(T) \in T /\ \A y \in T : y <= F!Max(T)
<1> DEFINE U == {u \in Nat : \A y \in T : y <= u}
<1>1. U \in SUBSET Nat /\ b \in U
  OBVIOUS
<1>2. F!Min(U) \in U /\ \A u \in U : F!Min(U) <= u
  BY <1>1, MinIsLeast
<1>3. F!Min(U) \in T
  <2> SUFFICES ASSUME F!Min(U) \notin T PROVE FALSE
    OBVIOUS
  <2>1. PICK y \in T : TRUE
    OBVIOUS
  <2>2. F!Min(U) - 1 \in U
    BY <1>2, <2>1
  <2> QED BY <1>2, <2>2
<1>4. \E x \in T : \A y \in T : x >= y
  BY <1>2, <1>3
<1> QED BY <1>4 DEF F!Max

(* What is left after the first event *)
LEMMA TailFacts ==
  ASSUME NEW S, NEW s \in Seq(S), s # <<>>
  PROVE  /\ Tail(s) \in Seq(S) /\ Len(s) \in Nat \ {0} /\ Len(Tail(s)) = Len(s) - 1
         /\ Head(s) = s[1]
         /\ \A k \in 1..Len(Tail(s)) : Tail(s)[k] = s[k + 1]
OBVIOUS

(* One more event *)
LEMMA AppendFacts ==
  ASSUME NEW S, NEW s \in Seq(S), NEW e \in S
  PROVE  /\ Append(s, e) \in Seq(S) /\ Len(s) \in Nat /\ Len(Append(s, e)) = Len(s) + 1
         /\ Append(s, e)[Len(s) + 1] = e
         /\ \A k \in 1..Len(s) : Append(s, e)[k] = s[k]
OBVIOUS

-----------------------------------------------------------------------------
(* Types *)

(* The feed starts with its types. *)
LEMMA TypedInit == F!Init => FeedTyped
<1> SUFFICES ASSUME F!Init PROVE FeedTyped
  OBVIOUS
<1>1. CountsTyped
  BY FillsAreCounted DEF F!Init, CountsTyped
<1>2. FlagsTyped
  BY DEF F!Init, FlagsTyped
<1>3. WireTyped /\ QueueTyped /\ GapsTyped
  BY DEF F!Init, WireTyped, QueueTyped, GapsTyped
<1>4. pump = [F!PumpIdle EXCEPT !.step = "startup"] /\ reconciled = FALSE
  BY DEF F!Init
<1>5. pump \in F!Pump /\ pump.todo = {} /\ pump.found = {} /\ pump.step = "startup"
  BY <1>4 DEF F!PumpIdle, F!Pump
<1>6. PumpTyped
  BY <1>4, <1>5 DEF PumpTyped
<1>7. OrderTyped
  BY FillsAreCounted DEF F!Init, OrderTyped, F!OrderIdle, F!Order
<1> QED BY <1>1, <1>2, <1>3, <1>6, <1>7 DEF FeedTyped

(* The types of the parts are the type invariant of Feed. *)
LEMMA TypedIsTypeOK == FeedTyped => F!TypeOK
<1> SUFFICES ASSUME FeedTyped PROVE F!TypeOK
  OBVIOUS
<1> USE FillsAreCounted DEF FeedTyped, CountsTyped
<1>1. 1..fills \subseteq F!Fill /\ 0..fills \subseteq 0..MaxFills
  BY DEF F!Fill
<1>2. wire \in Seq(SUBSET F!Fill)
  BY <1>1 DEF WireTyped
<1>3. EventOf(fills) \subseteq F!Event
  BY <1>1 DEF EventOf, F!Event
<1>4. queue \in Seq(F!Event)
  BY <1>3 DEF QueueTyped
<1>5. GapOf(fills) \subseteq F!Gap
  BY <1>1 DEF GapOf, F!Gap
<1>6. gaps \in Seq(F!Gap)
  BY <1>5 DEF GapsTyped
<1>7. {announced, reconciled, failure} \subseteq BOOLEAN /\ link \in {"down", "subscribing", "up", "dead"}
  BY DEF FlagsTyped
<1>8. pump \in F!Pump /\ pump.todo \subseteq DOMAIN gaps /\ order \in F!Order
  BY DEF PumpTyped, OrderTyped
<1> QED BY <1>2, <1>4, <1>6, <1>7, <1>8 DEF F!TypeOK

(* The newest fill in the ledger *)
LEMMA NewestTyped ==
  ASSUME FeedTyped
  PROVE  /\ F!Newest \in 0..fills
         /\ F!Newest = 0 \/ F!Newest \in recorded
         /\ \A m \in recorded : m <= F!Newest
<1>1. recorded \in SUBSET Nat /\ fills \in Nat /\ \A y \in recorded : y <= fills /\ y \in 1..fills
  BY FillsAreCounted DEF FeedTyped, CountsTyped
<1>2. CASE recorded = {}
  BY <1>1, <1>2 DEF F!Newest
<1>3. CASE recorded # {}
  <2>1. F!Max(recorded) \in recorded /\ \A y \in recorded : y <= F!Max(recorded)
    BY <1>1, <1>3, MaxIsGreatest
  <2>2. F!Newest = F!Max(recorded)
    BY <1>3 DEF F!Newest
  <2>3. F!Newest \in recorded
    BY <2>1, <2>2
  <2>4. F!Newest \in 0..fills
    BY <1>1, <2>3
  <2> QED BY <2>1, <2>2, <2>3, <2>4
<1> QED BY <1>2, <1>3

(* The gap a walk is working on is one of its list. *)
LEMMA CurrentTyped ==
  ASSUME FeedTyped, pump.todo # {}
  PROVE  F!Current \in pump.todo /\ F!Current \in DOMAIN gaps /\ F!Working \in GapOf(fills)
<1>1. pump.todo \in SUBSET Nat /\ pump.todo \subseteq DOMAIN gaps /\ gaps \in Seq(GapOf(fills))
  BY DEF FeedTyped, PumpTyped, GapsTyped, F!Pump
<1>2. F!Current \in pump.todo
  BY <1>1, MinIsLeast DEF F!Current
<1> QED BY <1>1, <1>2 DEF F!Working

(* The gap rows that open_gap and close_gap leave *)
LEMMA GapRowsTyped ==
  ASSUME FeedTyped, NEW g, g \in {gaps, F!OpenGap}
  PROVE  /\ g \in Seq(GapOf(fills))
         /\ F!CloseGaps(g) \in Seq(GapOf(fills))
         /\ DOMAIN F!CloseGaps(g) = DOMAIN g
         /\ \A i \in DOMAIN g : F!CloseGaps(g)[i] = [g[i] EXCEPT !.closed = TRUE]
<1>1. gaps \in Seq(GapOf(fills)) /\ fills \in 0..MaxFills
  BY DEF FeedTyped, GapsTyped, CountsTyped
<1>2. F!NewGap \in GapOf(fills)
  BY <1>1, NewestTyped, FillsAreCounted DEF F!NewGap, GapOf
<1>3. g \in Seq(GapOf(fills))
  BY <1>1, <1>2 DEF F!OpenGap
<1>4. DOMAIN g = 1..Len(g) /\ Len(g) \in Nat
  BY <1>3
<1>5. \A i \in DOMAIN g : g[i] \in GapOf(fills)
  BY <1>3
<1>6. \A i \in DOMAIN g : [g[i] EXCEPT !.closed = TRUE] \in GapOf(fills)
  BY <1>5 DEF GapOf
<1>7. F!CloseGaps(g) \in [1..Len(g) -> GapOf(fills)]
  BY <1>4, <1>6 DEF F!CloseGaps
<1>8. F!CloseGaps(g) \in Seq(GapOf(fills))
  BY <1>4, <1>7
<1> QED BY <1>3, <1>4, <1>7, <1>8 DEF F!CloseGaps

(* Later fills leave the types of what is there. *)
LEMMA TypesGrow ==
  ASSUME FeedTyped, NEW n \in Nat, fills <= n
  PROVE  /\ wire \in Seq(SUBSET (1..n)) /\ queue \in Seq(EventOf(n)) /\ gaps \in Seq(GapOf(n))
<1> USE FillsAreCounted DEF FeedTyped, CountsTyped
<1>1. 1..fills \subseteq 1..n /\ 0..fills \subseteq 0..n
  OBVIOUS
<1>2. wire \in Seq(SUBSET (1..n))
  BY <1>1 DEF WireTyped
<1>3. EventOf(fills) \subseteq EventOf(n) /\ GapOf(fills) \subseteq GapOf(n)
  BY <1>1 DEF EventOf, GapOf
<1> QED BY <1>2, <1>3 DEF QueueTyped, GapsTyped

(* The next event and what is left after it *)
LEMMA HeadTyped ==
  ASSUME FeedTyped, queue # <<>>
  PROVE  /\ Head(queue) = queue[1] /\ queue[1] \in EventOf(fills) /\ queue[1].fills \subseteq 1..fills
         /\ Tail(queue) \in Seq(EventOf(fills)) /\ Len(queue) \in Nat \ {0}
         /\ Len(Tail(queue)) = Len(queue) - 1
         /\ \A k \in 1..Len(queue) - 1 : Tail(queue)[k] = queue[k + 1]
<1>1. queue \in Seq(EventOf(fills))
  BY DEF FeedTyped, QueueTyped
<1>2. queue[1] \in EventOf(fills)
  BY <1>1
<1> QED BY <1>1, <1>2, TailFacts DEF EventOf

-----------------------------------------------------------------------------
(* Which step changes what *)

(* Only the venue makes fills. *)
LEMMA FillsFrame ==
  F!Next => fills' = fills \/ F!VenueFill
BY DEF F!Next, F!Connection, F!Handle, F!Reconcile, F!socket, F!session, F!history,
       F!Break, F!AnnounceDown, F!Send, F!Subscribed, F!Activate, F!Receive, F!CatchUp, F!BeginReconcile, 
       F!HandleDisconnected, F!Takes, F!HandleReconnected, F!HandleFills, F!RecordFill, F!HandleDropped, 
       F!Retry, F!Fetch, F!LeaveGap, F!RecordFound, F!MarkGap, F!WalkFault, F!FinishReconcile, F!Restart, 
       F!Place, F!Stamp, F!ReadState, F!ReadFlag, F!Admit, F!Finish, F!Asks

(* The connection moves the link. *)
LEMMA LinkFrame ==
  F!Next => link' = link \/ F!Break \/ F!AnnounceDown \/ F!Subscribed \/ F!Activate \/ F!Restart
BY DEF F!Next, F!Connection, F!Handle, F!Reconcile, F!socket, F!session, F!history,
       F!VenueFill, F!Receive, F!Send, F!CatchUp, F!BeginReconcile, F!HandleDisconnected, F!Takes, 
       F!HandleReconnected, F!HandleFills, F!RecordFill, F!HandleDropped, F!Retry, F!Fetch, F!LeaveGap, 
       F!RecordFound, F!MarkGap, F!WalkFault, F!FinishReconcile, F!Place, F!Stamp, F!ReadState, 
       F!ReadFlag, F!Admit, F!Finish, F!Asks

(* An outage is announced, answered or forgotten. *)
LEMMA AnnouncedFrame ==
  F!Next => announced' = announced \/ F!AnnounceDown \/ F!Subscribed \/ F!Restart
BY DEF F!Next, F!Connection, F!Handle, F!Reconcile, F!socket, F!session, F!history,
       F!VenueFill, F!Break, F!Activate, F!Receive, F!Send, F!CatchUp, F!BeginReconcile, 
       F!HandleDisconnected, F!Takes, F!HandleReconnected, F!HandleFills, F!RecordFill, F!HandleDropped, 
       F!Retry, F!Fetch, F!LeaveGap, F!RecordFound, F!MarkGap, F!WalkFault, F!FinishReconcile, F!Place, 
       F!Stamp, F!ReadState, F!ReadFlag, F!Admit, F!Finish, F!Asks

(* A new start is fixed only where an outage is answered. *)
LEMMA BaseFrame ==
  F!Next => base' = base \/ F!Subscribed \/ F!Restart
BY DEF F!Next, F!Connection, F!Handle, F!Reconcile, F!socket, F!session, F!history,
       F!VenueFill, F!Break, F!AnnounceDown, F!Send, F!Activate, F!Receive, F!CatchUp, F!BeginReconcile, 
       F!HandleDisconnected, F!Takes, F!HandleReconnected, F!HandleFills, F!RecordFill, F!HandleDropped, 
       F!Retry, F!Fetch, F!LeaveGap, F!RecordFound, F!MarkGap, F!WalkFault, F!FinishReconcile, F!Place, 
       F!Stamp, F!ReadState, F!ReadFlag, F!Admit, F!Finish, F!Asks

(* Frames come from the venue, and go to the parser or are lost. *)
LEMMA WireFrame ==
  F!Next => wire' = wire \/ F!VenueFill \/ F!AnnounceDown \/ F!Activate \/ F!Receive \/ F!Restart
BY DEF F!Next, F!Connection, F!Handle, F!Reconcile, F!socket, F!session, F!history,
       F!Break, F!Subscribed, F!Send, F!CatchUp, F!BeginReconcile, F!HandleDisconnected, F!Takes, 
       F!HandleReconnected, F!HandleFills, F!RecordFill, F!HandleDropped, F!Retry, F!Fetch, F!LeaveGap, 
       F!RecordFound, F!MarkGap, F!WalkFault, F!FinishReconcile, F!Place, F!Stamp, F!ReadState, 
       F!ReadFlag, F!Admit, F!Finish, F!Asks

(* The connection sends events, the pump takes them. *)
LEMMA QueueFrame ==
  F!Next => queue' = queue \/ F!AnnounceDown \/ F!Subscribed \/ F!Receive \/ F!HandleDisconnected \/ F!HandleReconnected \/ F!HandleFills \/ F!HandleDropped \/ F!Restart
BY DEF F!Next, F!Connection, F!Handle, F!Reconcile, F!socket, F!session, F!history,
       F!VenueFill, F!Break, F!Activate, F!CatchUp, F!BeginReconcile, F!Retry, F!Fetch, F!LeaveGap, 
       F!RecordFound, F!RecordFill, F!MarkGap, F!WalkFault, F!FinishReconcile, F!Place, F!Stamp, 
       F!ReadState, F!ReadFlag, F!Admit, F!Finish, F!Asks

(* Two steps record fills. *)
LEMMA RecordedFrame ==
  F!Next => recorded' = recorded \/ F!HandleFills \/ F!RecordFound
BY DEF F!Next, F!Connection, F!Handle, F!Reconcile, F!socket, F!session, F!history,
       F!VenueFill, F!Break, F!AnnounceDown, F!Send, F!Subscribed, F!Activate, F!Receive, F!CatchUp, 
       F!BeginReconcile, F!HandleDisconnected, F!Takes, F!HandleReconnected, F!HandleDropped, F!Retry, 
       F!Fetch, F!LeaveGap, F!MarkGap, F!WalkFault, F!FinishReconcile, F!Restart, F!Place, F!Stamp, 
       F!ReadState, F!ReadFlag, F!Admit, F!Finish, F!Asks

(* The steps that write gap rows *)
LEMMA GapsFrame ==
  F!Next => gaps' = gaps \/ F!CatchUp \/ F!HandleDisconnected \/ F!HandleReconnected \/ F!Retry \/ F!MarkGap
BY DEF F!Next, F!Connection, F!Handle, F!Reconcile, F!socket, F!session, F!history,
       F!VenueFill, F!Break, F!AnnounceDown, F!Send, F!Subscribed, F!Activate, F!Receive, F!HandleFills, 
       F!Takes, F!RecordFill, F!HandleDropped, F!Fetch, F!LeaveGap, F!RecordFound, F!WalkFault, 
       F!FinishReconcile, F!Restart, F!Place, F!Stamp, F!ReadState, F!ReadFlag, F!Admit, F!Finish, F!Asks

(* What is known to be before an outage *)
LEMMA NoticedFrame ==
  F!Next => noticed' = noticed \/ F!AnnounceDown \/ F!Restart
BY DEF F!Next, F!Connection, F!Handle, F!Reconcile, F!socket, F!session, F!history,
       F!VenueFill, F!Break, F!Subscribed, F!Send, F!Activate, F!Receive, F!CatchUp, F!BeginReconcile, 
       F!HandleDisconnected, F!Takes, F!HandleReconnected, F!HandleFills, F!RecordFill, F!HandleDropped, 
       F!Retry, F!Fetch, F!LeaveGap, F!RecordFound, F!MarkGap, F!WalkFault, F!FinishReconcile, F!Place, 
       F!Stamp, F!ReadState, F!ReadFlag, F!Admit, F!Finish, F!Asks

(* Only the parser receives. *)
LEMMA ReceivedFrame ==
  F!Next => received' = received \/ F!Receive
BY DEF F!Next, F!Connection, F!Handle, F!Reconcile, F!socket, F!session, F!history,
       F!VenueFill, F!Break, F!AnnounceDown, F!Send, F!Subscribed, F!Activate, F!CatchUp, 
       F!BeginReconcile, F!HandleDisconnected, F!Takes, F!HandleReconnected, F!HandleFills, F!RecordFill, 
       F!HandleDropped, F!Retry, F!Fetch, F!LeaveGap, F!RecordFound, F!MarkGap, F!WalkFault, 
       F!FinishReconcile, F!Restart, F!Place, F!Stamp, F!ReadState, F!ReadFlag, F!Admit, F!Finish, F!Asks

(* A failure is only set by a fault, and only a restart forgets it. *)
LEMMA FailureFrame ==
  F!Next => failure' = failure \/ failure' = TRUE \/ F!Restart
BY DEF F!Next, F!Connection, F!Handle, F!Reconcile, F!socket, F!session, F!history,
       F!VenueFill, F!Break, F!AnnounceDown, F!Send, F!Subscribed, F!Activate, F!Receive, F!CatchUp, 
       F!BeginReconcile, F!HandleDisconnected, F!Takes, F!HandleReconnected, F!HandleFills, F!RecordFill, 
       F!HandleDropped, F!Retry, F!Fetch, F!LeaveGap, F!RecordFound, F!MarkGap, F!WalkFault, 
       F!FinishReconcile, F!Place, F!Stamp, F!ReadState, F!ReadFlag, F!Admit, F!Finish, F!Asks

(* The session is reconciled only where a walk ends. *)
LEMMA ReconciledFrame ==
  F!Next => reconciled' = reconciled \/ reconciled' = FALSE \/ F!FinishReconcile
BY DEF F!Next, F!Connection, F!Handle, F!Reconcile, F!socket, F!session, F!history,
       F!VenueFill, F!Break, F!AnnounceDown, F!Send, F!Subscribed, F!Activate, F!Receive, F!CatchUp, 
       F!BeginReconcile, F!HandleDisconnected, F!Takes, F!HandleReconnected, F!HandleFills, F!RecordFill, 
       F!HandleDropped, F!Retry, F!Fetch, F!LeaveGap, F!RecordFound, F!MarkGap, F!WalkFault, F!Restart, 
       F!Place, F!Stamp, F!ReadState, F!ReadFlag, F!Admit, F!Finish, F!Asks

(* The steps that change what the pump is doing *)
LEMMA PumpFrame ==
  F!Next => pump' = pump \/ F!AnnounceDown \/ F!Subscribed \/ F!Receive \/ F!CatchUp \/ F!HandleReconnected \/ F!Retry \/ F!Fetch \/ F!LeaveGap \/ F!RecordFound \/ F!MarkGap \/ F!WalkFault \/ F!FinishReconcile \/ F!Restart
BY DEF F!Next, F!Connection, F!Handle, F!Reconcile, F!socket, F!session, F!history,
       F!VenueFill, F!Break, F!Activate, F!HandleDisconnected, F!Takes, F!HandleFills, F!RecordFill, 
       F!HandleDropped, F!Place, F!Stamp, F!ReadState, F!ReadFlag, F!Admit, F!Finish, F!Asks

(* The steps that an order sees *)
LEMMA OrderFrame ==
  F!Next => order' = order \/ F!AnnounceDown \/ F!Subscribed \/ F!Receive \/ F!CatchUp \/ F!HandleDisconnected \/ F!HandleReconnected \/ F!HandleFills \/ F!Retry \/ F!WalkFault \/ F!Restart \/ F!Place
BY DEF F!Next, F!Connection, F!Handle, F!Reconcile, F!socket, F!session, F!history,
       F!VenueFill, F!Break, F!Activate, F!HandleDropped, F!Takes, F!Fetch, F!LeaveGap, F!RecordFound, 
       F!RecordFill, F!MarkGap, F!FinishReconcile

(* Fills are only counted, and only made fills are recorded. *)
LEMMA CountsNext ==
  ASSUME FeedTyped, F!Next
  PROVE  CountsTyped' /\ fills' >= fills
<1> USE FillsAreCounted DEF FeedTyped, CountsTyped
<1>1. /\ fills' \in 0..MaxFills /\ fills' >= fills
  BY FillsFrame DEF F!VenueFill
<1>0. 1..fills \subseteq 1..fills'
  BY <1>1
<1>2. base' \in 0..fills'
  BY <1>1, BaseFrame DEF F!Subscribed, F!Restart
<1>3. noticed' \in 0..fills'
  BY <1>1, NoticedFrame DEF F!AnnounceDown, F!Restart
<1>4. recorded' \subseteq 1..fills'
  <2>1. CASE F!HandleFills
    <3>1. recorded' \subseteq recorded \cup queue[1].fills
      BY <2>1, HeadTyped DEF F!HandleFills, F!Takes, F!RecordFill
    <3> QED BY <1>1, <2>1, <3>1, HeadTyped DEF F!HandleFills, F!Takes
  <2>2. CASE F!RecordFound
    <3>1. pump.found \subseteq 1..fills /\ pump.found # {}
      BY <2>2 DEF F!RecordFound, PumpTyped
    <3>2. F!Min(pump.found) \in pump.found
      BY <3>1, MinIsLeast
    <3> QED BY <1>1, <2>2, <3>1, <3>2 DEF F!RecordFound, F!RecordFill
  <2>3. CASE recorded' = recorded
    BY <1>0, <2>3
  <2> QED BY <2>1, <2>2, <2>3, RecordedFrame
<1>5. received' \subseteq 1..fills'
  <2>1. CASE F!Receive
    <3>1. Head(wire) \in SUBSET (1..fills)
      BY <2>1 DEF F!Receive, WireTyped
    <3> QED BY <1>1, <2>1, <3>1 DEF F!Receive
  <2>2. CASE received' = received
    BY <1>0, <2>2
  <2> QED BY <2>1, <2>2, ReceivedFrame
<1> QED BY <1>1, <1>2, <1>3, <1>4, <1>5

(* Flags stay flags. *)
LEMMA FlagsNext ==
  ASSUME FeedTyped, F!Next
  PROVE  FlagsTyped'
<1> USE DEF FeedTyped, FlagsTyped
<1>1. link' \in {"down", "subscribing", "up", "dead"}
  BY LinkFrame DEF F!Break, F!AnnounceDown, F!Subscribed, F!Activate, F!Restart
<1>2. announced' \in BOOLEAN
  BY AnnouncedFrame DEF F!AnnounceDown, F!Subscribed, F!Restart
<1>3. failure' \in BOOLEAN
  BY FailureFrame DEF F!Restart
<1>4. reconciled' \in BOOLEAN
  BY ReconciledFrame DEF F!FinishReconcile
<1> QED BY <1>1, <1>2, <1>3, <1>4

(* Frames are of made fills. *)
LEMMA WireNext ==
  ASSUME FeedTyped, F!Next
  PROVE  WireTyped'
<1>1. fills \in Nat /\ fills' \in Nat /\ fills <= fills'
  BY CountsNext, FillsAreCounted DEF FeedTyped, CountsTyped
<1>2. wire \in Seq(SUBSET (1..fills'))
  BY <1>1, TypesGrow
<1>3. CASE F!VenueFill
  BY <1>1, <1>2, <1>3 DEF F!VenueFill, WireTyped
<1>4. CASE F!AnnounceDown \/ F!Restart
  <2>1. wire' = <<>>
    BY <1>4 DEF F!AnnounceDown, F!Restart
  <2> QED BY <2>1 DEF WireTyped
<1>5. CASE F!Activate
  <2>1. PICK reach \in 0..base : wire' = <<(reach + 1)..fills>>
    BY <1>5 DEF F!Activate
  <2>2. (reach + 1)..fills \in SUBSET (1..fills')
    BY <1>1, <2>1 DEF FeedTyped, CountsTyped
  <2> QED BY <2>1, <2>2 DEF WireTyped
<1>6. CASE F!Receive
  BY <1>2, <1>6 DEF F!Receive, WireTyped
<1>7. CASE wire' = wire
  BY <1>2, <1>7 DEF WireTyped
<1> QED BY <1>3, <1>4, <1>5, <1>6, <1>7, WireFrame

(* Only frames carry fills, and of made ones. *)
LEMMA QueueNext ==
  ASSUME FeedTyped, F!Next
  PROVE  QueueTyped'
<1>1. fills \in Nat /\ fills' \in Nat /\ fills <= fills' /\ 1..fills \subseteq 1..fills'
  BY CountsNext, FillsAreCounted DEF FeedTyped, CountsTyped
<1>2. queue \in Seq(EventOf(fills'))
  BY <1>1, TypesGrow
<1>3. \A k \in 1..Len(queue) : queue[k].kind # "fills" => queue[k].fills = {}
  BY DEF FeedTyped, QueueTyped
<1>4. ASSUME NEW e \in EventOf(fills'), e.kind # "fills" => e.fills = {}, queue' = Append(queue, e)
      PROVE  QueueTyped'
  <2>1. \A k \in 1..Len(queue') : queue'[k].kind # "fills" => queue'[k].fills = {}
    BY <1>2, <1>3, <1>4, AppendFacts
  <2>2. queue' \in Seq(EventOf(fills'))
    BY <1>2, <1>4
  <2> QED BY <2>1, <2>2 DEF QueueTyped
<1>5. ASSUME NEW kind \in {"dropped", "disconnected", "reconnected"}
      PROVE  F!Signal(kind) \in EventOf(fills') /\ F!Signal(kind).fills = {}
  BY <1>5 DEF F!Signal, EventOf
<1>6. CASE F!AnnounceDown
  BY <1>4, <1>5, <1>6 DEF F!AnnounceDown, F!Send
<1>7. CASE F!Subscribed /\ announced
  BY <1>4, <1>5, <1>7 DEF F!Subscribed, F!Send
<1>8. CASE F!Receive
  <2> DEFINE e == [kind |-> "fills", fills |-> Head(wire)]
  <2>1. Head(wire) \in SUBSET (1..fills')
    BY <1>1, <1>8 DEF F!Receive, FeedTyped, WireTyped
  <2>2. e \in EventOf(fills') /\ e.kind = "fills"
    BY <2>1 DEF EventOf
  <2>3. queue' = Append(queue, e) \/ queue' = Append(queue, F!Signal("dropped"))
    BY <1>8 DEF F!Receive, F!Send
  <2> HIDE DEF e
  <2> QED BY <1>4, <1>5, <2>2, <2>3
<1>9. CASE queue # <<>> /\ queue' = Tail(queue)
  <2>1. queue' \in Seq(EventOf(fills')) /\ Len(queue) \in Nat \ {0} /\ Len(queue') = Len(queue) - 1
    BY <1>2, <1>9, TailFacts
  <2>2. \A k \in 1..Len(queue') : queue'[k] = queue[k + 1]
    BY <1>2, <1>9, TailFacts
  <2>3. \A k \in 1..Len(queue') : queue'[k].kind # "fills" => queue'[k].fills = {}
    BY <1>3, <2>1, <2>2
  <2> QED BY <2>1, <2>3 DEF QueueTyped
<1>10. CASE F!Restart
  BY <1>10 DEF F!Restart, QueueTyped
<1>11. CASE queue' = queue
  BY <1>2, <1>3, <1>11 DEF QueueTyped
<1>12. F!Subscribed /\ ~announced => queue' = queue
  BY DEF F!Subscribed
<1>13. F!HandleDisconnected \/ F!HandleReconnected \/ F!HandleFills \/ F!HandleDropped => queue # <<>> /\ queue' = Tail(queue)
  BY DEF F!HandleDisconnected, F!HandleReconnected, F!HandleFills, F!HandleDropped, F!Takes
<1> QED BY <1>6, <1>7, <1>8, <1>9, <1>10, <1>11, <1>12, <1>13, QueueFrame

(* A step of the pump that begins a walk works on typed gap rows. *)
LEMMA BeginTyped ==
  ASSUME FeedTyped, NEW g \in Seq(GapOf(fills)), NEW h \in BOOLEAN, F!BeginReconcile(g, h), fills' = fills
  PROVE  GapsTyped' /\ PumpTyped'
<1>1. GapsTyped'
  BY DEF F!BeginReconcile, GapsTyped
<1>2. F!WorkList(g) \subseteq DOMAIN g /\ DOMAIN g \subseteq Nat
  BY DEF F!WorkList
<1>3. /\ pump' = [step |-> "walk", hand |-> h, todo |-> F!WorkList(g), found |-> {}, outstanding |-> FALSE, current |-> TRUE]
      /\ reconciled' = FALSE /\ gaps' = g
  BY DEF F!BeginReconcile, F!PumpIdle
<1>4. pump' \in F!Pump
  BY <1>2, <1>3 DEF F!Pump
<1>5. pump'.todo \subseteq DOMAIN gaps' /\ pump'.found = {} /\ pump'.step = "walk"
  BY <1>2, <1>3
<1> QED BY <1>1, <1>3, <1>4, <1>5 DEF PumpTyped

(* Gap rows and the pump *)
LEMMA PumpNext ==
  ASSUME FeedTyped, F!Next
  PROVE  GapsTyped' /\ PumpTyped'
<1>1. fills \in Nat /\ fills' \in Nat /\ fills <= fills' /\ 1..fills \subseteq 1..fills'
  BY CountsNext, FillsAreCounted DEF FeedTyped, CountsTyped
<1>2. gaps \in Seq(GapOf(fills')) /\ gaps \in Seq(GapOf(fills))
  BY <1>1, TypesGrow DEF FeedTyped, GapsTyped
<1>3. /\ pump \in F!Pump /\ pump.todo \subseteq DOMAIN gaps /\ pump.found \subseteq 1..fills'
      /\ pump.step = "record" => pump.todo # {}
      /\ reconciled => pump.step = "idle"
  BY <1>1 DEF FeedTyped, PumpTyped
<1>4. CASE F!CatchUp
  <2>1. \A g \in {gaps, F!OpenGap} : g \in Seq(GapOf(fills)) /\ F!CloseGaps(g) \in Seq(GapOf(fills))
    BY GapRowsTyped
  <2>2. PICK g \in Seq(GapOf(fills)) : F!BeginReconcile(g, FALSE)
    BY <1>4, <2>1 DEF F!CatchUp
  <2> QED BY <1>4, <2>2, BeginTyped DEF F!CatchUp
<1>5. CASE F!Retry
  BY <1>2, <1>5, BeginTyped DEF F!Retry
<1>6. CASE F!HandleReconnected
  <2>1. CASE F!BeginReconcile(F!CloseGaps(gaps), TRUE)
    <3>1. F!CloseGaps(gaps) \in Seq(GapOf(fills))
      BY GapRowsTyped
    <3> QED BY <1>6, <2>1, <3>1, BeginTyped DEF F!HandleReconnected
  <2>2. CASE ~F!BeginReconcile(F!CloseGaps(gaps), TRUE)
    <3>1. gaps' = gaps /\ pump' = pump /\ reconciled' = FALSE
      BY <1>6, <2>2 DEF F!HandleReconnected
    <3> QED BY <1>2, <1>3, <3>1 DEF GapsTyped, PumpTyped
  <2> QED BY <2>1, <2>2
<1>7. CASE F!HandleDisconnected
  <2>1. gaps' \in {gaps, F!OpenGap} /\ fills' = fills /\ pump' = pump /\ reconciled' = FALSE
    BY <1>7 DEF F!HandleDisconnected
  <2>2. gaps' \in Seq(GapOf(fills))
    BY <2>1, GapRowsTyped
  <2>3. DOMAIN gaps \subseteq DOMAIN gaps'
    BY <1>2, <2>1 DEF F!OpenGap
  <2>4. PumpTyped'
    BY <1>1, <1>3, <2>1, <2>3 DEF PumpTyped
  <2> QED BY <2>1, <2>2, <2>4 DEF GapsTyped
<1>8. CASE F!MarkGap
  <2>1. F!Current \in DOMAIN gaps /\ gaps[F!Current] \in GapOf(fills)
    BY <1>3, <1>8, CurrentTyped DEF F!MarkGap, F!Working
  <2>2. [gaps[F!Current] EXCEPT !.done = TRUE] \in GapOf(fills)
    BY <2>1 DEF GapOf
  <2>3. gaps' = [gaps EXCEPT ![F!Current] = [gaps[F!Current] EXCEPT !.done = TRUE]] /\ fills' = fills
    BY <1>8 DEF F!MarkGap
  <2>4. gaps' \in Seq(GapOf(fills)) /\ DOMAIN gaps' = DOMAIN gaps
    BY <1>2, <2>1, <2>2, <2>3
  <2>5. pump' = [pump EXCEPT !.step = "walk", !.todo = @ \ {F!Current}] /\ reconciled' = reconciled /\ ~reconciled
    BY <1>3, <1>8 DEF F!MarkGap, F!session
  <2>6. pump' \in F!Pump /\ pump'.todo \subseteq DOMAIN gaps' /\ pump'.found = pump.found /\ pump'.step = "walk"
    BY <1>3, <2>4, <2>5 DEF F!Pump
  <2>7. PumpTyped'
    BY <1>3, <2>5, <2>6 DEF PumpTyped
  <2> QED BY <2>3, <2>4, <2>7 DEF GapsTyped
<1>9. CASE gaps' = gaps
  <2> USE <1>2, <1>3, <1>9 DEF GapsTyped, PumpTyped
  <2>0. GapsTyped'
    OBVIOUS
  <2>1. CASE UNCHANGED <<pump, reconciled>>
    BY <2>0, <2>1
  <2>2. CASE F!AnnounceDown \/ F!Receive \/ F!Subscribed
    <3>1. /\ pump' = pump \/ pump' = [pump EXCEPT !.current = FALSE]
          /\ reconciled' = reconciled
      BY <2>2 DEF F!AnnounceDown, F!Receive, F!Subscribed, F!Send, F!session
    <3>2. /\ pump' \in F!Pump /\ pump'.step = pump.step /\ pump'.todo = pump.todo /\ pump'.found = pump.found
      BY <3>1 DEF F!Pump
    <3> QED BY <2>0, <3>1, <3>2
  <2>3. CASE F!Fetch
    <3>1. pump' = [pump EXCEPT !.step = "record", !.found = F!Window(F!Working)] /\ reconciled' = reconciled
      BY <2>3 DEF F!Fetch, F!session
    <3>2. pump.todo # {} /\ pump.step = "walk" /\ fills' = fills
      BY <2>3 DEF F!Fetch
    <3>3. F!Window(F!Working) \subseteq 1..fills /\ 1..fills \subseteq F!Fill
      BY <1>1, <3>2, CurrentTyped, CountsNext, FillsAreCounted DEF F!Window, GapOf, F!Fill, CountsTyped
    <3>4. /\ pump' \in F!Pump /\ pump'.step = "record" /\ pump'.todo = pump.todo /\ pump'.found \subseteq 1..fills
      BY <3>1, <3>3 DEF F!Pump
    <3> QED BY <2>0, <3>1, <3>2, <3>4
  <2>4. CASE F!LeaveGap \/ F!WalkFault
    <3>1. \/ pump' = [pump EXCEPT !.todo = @ \ {F!Current}, !.outstanding = TRUE]
          \/ pump' = [pump EXCEPT !.step = "walk", !.todo = @ \ {F!Current}, !.found = {}, !.outstanding = TRUE, !.current = FALSE]
      BY <2>4 DEF F!LeaveGap, F!WalkFault
    <3>2. F!LeaveGap => pump.step = "walk" /\ reconciled' = reconciled
      BY DEF F!LeaveGap, F!session
    <3>3. F!WalkFault => reconciled' = FALSE /\ pump'.step = "walk"
      BY <1>3 DEF F!WalkFault, F!Pump
    <3>4. F!LeaveGap => pump'.step = "walk"
      BY <1>3, <3>2 DEF F!LeaveGap, F!Pump
    <3>5. pump' \in F!Pump /\ pump'.todo \subseteq pump.todo /\ pump'.found \subseteq pump.found
      <4>1. CASE pump' = [pump EXCEPT !.todo = @ \ {F!Current}, !.outstanding = TRUE]
        BY <4>1 DEF F!Pump
      <4>2. CASE pump' = [pump EXCEPT !.step = "walk", !.todo = @ \ {F!Current}, !.found = {}, !.outstanding = TRUE, !.current = FALSE]
        BY <4>2 DEF F!Pump
      <4> QED BY <3>1, <4>1, <4>2
    <3>6. F!LeaveGap => ~reconciled
      BY <3>2
    <3>7. ~reconciled'
      BY <2>4, <3>2, <3>3, <3>6
    <3> QED BY <2>0, <2>4, <3>3, <3>4, <3>5, <3>7
  <2>5. CASE F!RecordFound
    <3>1. pump' = [pump EXCEPT !.found = pump.found \ {F!Min(pump.found)}] /\ reconciled' = reconciled
      BY <2>5 DEF F!RecordFound, F!session
    <3>2. pump' \in F!Pump /\ pump'.step = pump.step /\ pump'.todo = pump.todo /\ pump'.found \subseteq pump.found
      BY <3>1 DEF F!Pump
    <3> QED BY <2>0, <3>1, <3>2
  <2>6. CASE F!FinishReconcile \/ F!Restart
    <3>1. pump' = F!PumpIdle \/ (pump' = [F!PumpIdle EXCEPT !.step = "startup"] /\ reconciled' = FALSE)
      BY <2>6 DEF F!FinishReconcile, F!Restart
    <3>2. pump' \in F!Pump /\ pump'.todo = {} /\ pump'.found = {} /\ pump'.step \in {"idle", "startup"} /\ (pump'.step = "idle" \/ reconciled' = FALSE)
      <4>1. F!PumpIdle \in F!Pump /\ [F!PumpIdle EXCEPT !.step = "startup"] \in F!Pump
        BY DEF F!Pump, F!PumpIdle
      <4>2. F!PumpIdle.todo = {} /\ F!PumpIdle.found = {} /\ F!PumpIdle.step = "idle"
        BY DEF F!PumpIdle
      <4>3. /\ [F!PumpIdle EXCEPT !.step = "startup"].todo = {} /\ [F!PumpIdle EXCEPT !.step = "startup"].found = {}
            /\ [F!PumpIdle EXCEPT !.step = "startup"].step = "startup"
        BY DEF F!PumpIdle
      <4> QED BY <3>1, <4>1, <4>2, <4>3
    <3> QED BY <2>0, <3>2
  <2>7. CASE F!HandleFills
    <3>1. pump' = pump /\ (reconciled' = reconciled \/ reconciled' = FALSE)
      BY <2>7 DEF F!HandleFills, F!session
    <3> QED BY <2>0, <3>1
  <2>8. F!Next => \/ UNCHANGED <<pump, reconciled>>
                  \/ F!AnnounceDown \/ F!Receive \/ F!Subscribed \/ F!Fetch \/ F!LeaveGap \/ F!WalkFault
                  \/ F!RecordFound \/ F!FinishReconcile \/ F!Restart \/ F!HandleFills
                  \/ F!CatchUp \/ F!Retry \/ F!HandleReconnected \/ F!HandleDisconnected \/ F!MarkGap
    BY DEF F!Next, F!Connection, F!Handle, F!Reconcile, F!session, F!VenueFill, F!Break, F!Activate, F!HandleDropped,
           F!Place, F!Stamp, F!ReadState, F!ReadFlag, F!Admit, F!Finish, F!Asks
  <2> QED BY <1>4, <1>5, <1>6, <1>7, <1>8, <2>1, <2>2, <2>3, <2>4, <2>5, <2>6, <2>7, <2>8
<1> QED BY <1>4, <1>5, <1>6, <1>7, <1>8, <1>9, GapsFrame

(* Orders *)
LEMMA OrderNext ==
  ASSUME FeedTyped, F!Next
  PROVE  OrderTyped'
<1>1. order \in F!Order /\ fills \in 0..MaxFills
  BY DEF FeedTyped, OrderTyped, CountsTyped
<1>2. F!OrderIdle \in F!Order /\ [order EXCEPT !.current = FALSE] \in F!Order
  <2>1. F!OrderIdle \in F!Order
    BY FillsAreCounted DEF F!OrderIdle, F!Order
  <2>2. [order EXCEPT !.current = FALSE] \in F!Order
    BY <1>1 DEF F!Order
  <2> QED BY <2>1, <2>2
<1>3. CASE F!Place
  <2>1. F!Admits \in BOOLEAN
    BY DEF F!Admits
  <2>2. CASE F!Stamp
    BY <1>1, <2>1, <2>2 DEF F!Stamp, F!Asks, F!Order, OrderTyped
  <2>3. CASE F!ReadState
    BY <1>1, <2>3 DEF F!ReadState, F!Asks, F!Order, OrderTyped
  <2>4. CASE F!ReadFlag \/ F!Admit \/ F!Finish
    <3>1. order' \in {[order EXCEPT !.step = "ready"], [order EXCEPT !.step = "admitted"], F!OrderIdle}
      BY <2>4 DEF F!ReadFlag, F!Admit, F!Finish, F!Asks
    <3>2. [order EXCEPT !.step = "ready"] \in F!Order /\ [order EXCEPT !.step = "admitted"] \in F!Order
      BY <1>1 DEF F!Order
    <3> QED BY <1>2, <3>1, <3>2 DEF OrderTyped
  <2> QED BY <1>3, <2>2, <2>3, <2>4 DEF F!Place
<1>4. CASE ~F!Place
  <2>1. order' \in {order, [order EXCEPT !.current = FALSE], F!OrderIdle}
    BY <1>4, OrderFrame DEF F!AnnounceDown, F!Subscribed, F!Receive, F!Send, F!CatchUp, F!BeginReconcile,
         F!HandleDisconnected, F!HandleReconnected, F!HandleFills, F!Retry, F!WalkFault, F!Restart
  <2> QED BY <1>1, <1>2, <2>1 DEF OrderTyped
<1> QED BY <1>3, <1>4

(* Every step keeps the types. *)
LEMMA TypedNext == FeedTyped /\ F!Next => FeedTyped'
BY CountsNext, FlagsNext, WireNext, QueueNext, PumpNext, OrderNext DEF FeedTyped

-----------------------------------------------------------------------------
(* Admission *)

(* A current stamp over a calm session is outdated by everything that      *)
(* happens to the session.                                                 *)
LEMMA StampNext ==
  ASSUME FeedTyped, StampHolds, F!Next
  PROVE  StampHolds'
<1> USE DEF StampHolds
<1>1. CASE F!Place
  <2>1. UNCHANGED <<recorded, reconciled, failure, queue, pump>>
    BY <1>1 DEF F!Place, F!Stamp, F!ReadState, F!ReadFlag, F!Admit, F!Finish, F!Asks, F!session
  <2>2. F!Admits' = F!Admits
    BY <2>1 DEF F!Admits
  <2>3. CASE F!Stamp
    <3>1. order'.step = "stamped" /\ order'.calm = F!Admits
      BY <2>3 DEF F!Stamp, F!Asks, FeedTyped, OrderTyped, F!Order
    <3>2. F!Admits => pump.step = "idle"
      BY DEF F!Admits, FeedTyped, PumpTyped
    <3> QED BY <2>1, <2>2, <3>1, <3>2
  <2>4. CASE F!ReadState
    <3>1. /\ order'.step = "read" /\ order'.calm = order.calm /\ order'.current = order.current
          /\ order.step = "stamped" /\ order'.snapshot = fills
      BY <2>4 DEF F!ReadState, F!Asks, FeedTyped, OrderTyped, F!Order
    <3>2. recorded \subseteq 1..fills
      BY DEF FeedTyped, CountsTyped
    <3> QED BY <2>1, <2>2, <3>1, <3>2
  <2>5. CASE F!ReadFlag \/ F!Admit \/ F!Finish
    <3>1. order' \in {[order EXCEPT !.step = "ready"], [order EXCEPT !.step = "admitted"], F!OrderIdle}
      BY <2>5 DEF F!ReadFlag, F!Admit, F!Finish, F!Asks
    <3>2. order' = [order EXCEPT !.step = "ready"] => order.step = "read"
      BY <2>5 DEF F!ReadFlag, F!Admit, F!Finish, F!Asks, F!OrderIdle, FeedTyped, OrderTyped, F!Order
    <3>3. CASE order' = [order EXCEPT !.step = "ready"]
      <4>1. order'.calm = order.calm /\ order'.current = order.current /\ order'.snapshot = order.snapshot
        BY <3>3 DEF FeedTyped, OrderTyped, F!Order
      <4> QED BY <2>1, <2>2, <3>2, <3>3, <4>1
    <3>4. CASE order' # [order EXCEPT !.step = "ready"]
      <4>1. order'.step \in {"admitted", "idle"}
        BY <3>1, <3>4 DEF F!OrderIdle, FeedTyped, OrderTyped, F!Order
      <4> QED BY <4>1
    <3> QED BY <3>3, <3>4
  <2> QED BY <1>1, <2>3, <2>4, <2>5 DEF F!Place
<1>2. CASE ~F!Place
  <2>1. order' \in {order, [order EXCEPT !.current = FALSE], F!OrderIdle}
    BY <1>2, OrderFrame DEF F!AnnounceDown, F!Subscribed, F!Receive, F!Send, F!CatchUp, F!BeginReconcile,
         F!HandleDisconnected, F!HandleReconnected, F!HandleFills, F!Retry, F!WalkFault, F!Restart
  <2>2. CASE order' # order
    <3>1. order'.current = FALSE
      BY <2>1, <2>2 DEF F!OrderIdle, FeedTyped, OrderTyped, F!Order
    <3> QED BY <3>1
  <2>3. CASE order' = order
    <3>1. SUFFICES ASSUME order.current, order.calm, order.step \in {"stamped", "read", "ready"}
                   PROVE  UNCHANGED <<recorded, reconciled, failure, queue, pump>>
      BY <2>3 DEF F!Admits
    <3>2. F!Admits /\ pump.step = "idle"
      BY <3>1
    <3>3. ~F!HandleFills /\ ~F!HandleDisconnected /\ ~F!HandleReconnected /\ ~F!HandleDropped /\ ~F!Retry
      BY <3>2 DEF F!HandleFills, F!HandleDisconnected, F!HandleReconnected, F!HandleDropped, F!Takes, F!Retry, F!Admits
    <3>4. ~F!CatchUp /\ ~F!Fetch /\ ~F!LeaveGap /\ ~F!RecordFound /\ ~F!MarkGap /\ ~F!FinishReconcile
      BY <3>2 DEF F!CatchUp, F!Fetch, F!LeaveGap, F!RecordFound, F!MarkGap, F!FinishReconcile
    <3>5. [order EXCEPT !.current = FALSE] # order
      BY <3>1 DEF FeedTyped, OrderTyped, F!Order
    <3>6. ~F!AnnounceDown /\ ~F!Receive /\ ~F!WalkFault /\ ~(F!Subscribed /\ announced)
      BY <2>3, <3>5 DEF F!AnnounceDown, F!Receive, F!WalkFault, F!Subscribed, F!Send
    <3>7. ~F!Restart
      <4>1. F!OrderIdle.current = FALSE
        BY DEF F!OrderIdle
      <4> QED BY <2>3, <3>1, <4>1 DEF F!Restart
    <3> QED BY <1>2, <3>3, <3>4, <3>6, <3>7 DEF F!Next, F!Connection, F!Handle, F!Reconcile, F!VenueFill, F!Break, F!Activate, F!Subscribed, F!session
  <2> QED BY <2>2, <2>3
<1> QED BY <1>1, <1>2

-----------------------------------------------------------------------------
(* What the settled fills are after a step that no fault ended *)

(* Where every fill will be walked, or where none is missing *)
LEMMA SettledTyped ==
  ASSUME FeedTyped
  PROVE  /\ Settled \subseteq 1..fills /\ recorded \subseteq Settled
         /\ pump.step = "startup" \/ (pump.step # "record" /\ Undone # {}) => Settled = 1..fills
         /\ pump.step # "startup" /\ pump.step # "record" /\ Undone = {} => Settled = recorded
<1>1. recorded \subseteq 1..fills /\ fills \in Nat /\ pump.found \subseteq 1..fills
  BY FillsAreCounted DEF FeedTyped, CountsTyped, PumpTyped
<1>2. CASE pump.step = "record"
  <2>1. F!Working \in GapOf(fills)
    BY <1>2, CurrentTyped DEF FeedTyped, PumpTyped
  <2>2. F!Working.anchor \in 0..fills
    BY <2>1 DEF GapOf
  <2>3. 1..F!Working.anchor \subseteq 1..fills
    BY <1>1, <2>2
  <2>4. Settled = recorded \cup pump.found \cup 1..F!Working.anchor
    BY <1>2 DEF Settled
  <2> QED BY <1>1, <1>2, <2>3, <2>4
<1>3. CASE pump.step # "record"
  BY <1>1, <1>3 DEF Settled
<1> QED BY <1>2, <1>3

(* open_gap leaves an open gap, and one that reaches back far enough. *)
LEMMA OpenGapHolds ==
  ASSUME FeedTyped, GapsHold
  PROVE  /\ RowsHold(F!OpenGap) /\ F!WorkList(F!OpenGap) # {}
         /\ \E i \in DOMAIN F!OpenGap : ~F!OpenGap[i].closed
<1>1. gaps \in Seq(GapOf(fills))
  BY DEF FeedTyped, GapsTyped
<1>2. CASE \E i \in DOMAIN gaps : ~gaps[i].closed
  BY <1>2 DEF F!OpenGap, GapsHold, RowsHold, F!WorkList
<1>3. CASE ~ \E i \in DOMAIN gaps : ~gaps[i].closed
  <2> DEFINE g == Append(gaps, F!NewGap)
             n == Len(gaps) + 1
  <2>1. F!OpenGap = g
    BY <1>3 DEF F!OpenGap
  <2>2. /\ n \in Nat /\ DOMAIN g = (DOMAIN gaps) \cup {n} /\ n \notin DOMAIN gaps
        /\ \A i \in DOMAIN gaps : g[i] = gaps[i]
        /\ g[n] = F!NewGap
    BY <1>1
  <2>3. g[n].anchor = F!Newest /\ g[n].closed = FALSE /\ g[n].done = FALSE
    BY <2>2 DEF F!NewGap
  <2> HIDE DEF g, n
  <2>4. \A i \in DOMAIN g : g[i].done => g[i].closed
    BY <2>2, <2>3 DEF GapsHold, RowsHold
  <2>5. \A i \in DOMAIN g : g[i].anchor = 0 \/ g[i].anchor \in recorded
    BY <2>2, <2>3, NewestTyped DEF GapsHold, RowsHold
  <2>6. n \in F!WorkList(g) /\ n \in DOMAIN g
    BY <2>2, <2>3 DEF F!WorkList
  <2>7. \E i \in F!WorkList(g) : 1..g[i].anchor \subseteq recorded
    <3>1. CASE F!WorkList(gaps) # {}
      <4>1. PICK i \in F!WorkList(gaps) : 1..gaps[i].anchor \subseteq recorded
        BY <3>1 DEF GapsHold, RowsHold
      <4>2. i \in F!WorkList(g) /\ g[i] = gaps[i]
        BY <2>2 DEF F!WorkList
      <4> QED BY <4>1, <4>2
    <3>2. CASE F!WorkList(gaps) = {}
      <4>1. DownwardClosed(recorded)
        BY <3>2 DEF GapsHold, RowsHold
      <4>2. F!Newest = 0 \/ F!Newest \in recorded
        BY NewestTyped
      <4>3. F!Newest = 0 => 1..F!Newest = {}
        OBVIOUS
      <4>4. 1..g[n].anchor \subseteq recorded
        BY <2>3, <4>1, <4>2, <4>3 DEF DownwardClosed
      <4> QED BY <2>6, <4>4
    <3> QED BY <3>1, <3>2
  <2> QED BY <2>1, <2>3, <2>4, <2>5, <2>6, <2>7 DEF RowsHold
<1> QED BY <1>2, <1>3

(* Closing a gap changes neither its window nor whether it is done. *)
LEMMA CloseGapsHolds ==
  ASSUME FeedTyped, NEW g, g \in {gaps, F!OpenGap}, RowsHold(g)
  PROVE  RowsHold(F!CloseGaps(g)) /\ F!WorkList(F!CloseGaps(g)) = F!WorkList(g)
<1> DEFINE c == F!CloseGaps(g)
<1>1. g \in Seq(GapOf(fills)) /\ DOMAIN c = DOMAIN g /\ \A i \in DOMAIN g : c[i] = [g[i] EXCEPT !.closed = TRUE]
  BY GapRowsTyped
<1>2. \A i \in DOMAIN g : g[i] \in GapOf(fills)
  BY <1>1
<1>3. \A i \in DOMAIN g : c[i].closed = TRUE /\ c[i].done = g[i].done /\ c[i].anchor = g[i].anchor
  BY <1>1, <1>2 DEF GapOf
<1> HIDE DEF c
<1>4. F!WorkList(c) = F!WorkList(g)
  BY <1>1, <1>3 DEF F!WorkList
<1>5. /\ \A i \in DOMAIN c : c[i].done => c[i].closed
      /\ \A i \in DOMAIN c : c[i].anchor = 0 \/ c[i].anchor \in recorded
  BY <1>1, <1>3 DEF RowsHold
<1>6. IF F!WorkList(c) # {} THEN \E i \in F!WorkList(c) : 1..c[i].anchor \subseteq recorded
      ELSE DownwardClosed(recorded)
  <2>1. CASE F!WorkList(g) # {}
    <3>1. PICK i \in F!WorkList(g) : 1..g[i].anchor \subseteq recorded
      BY <2>1 DEF RowsHold
    <3>2. c[i].anchor = g[i].anchor
      BY <1>3 DEF F!WorkList
    <3> QED BY <1>4, <3>1, <3>2
  <2>2. CASE F!WorkList(g) = {}
    BY <1>4, <2>2 DEF RowsHold
  <2> QED BY <2>1, <2>2
<1>7. RowsHold(c)
  BY <1>5, <1>6 DEF RowsHold
<1> QED BY <1>4, <1>7 DEF c

(* What a step does to gaps, walk and ledger: they keep what they promise, *)
(* and no settled fill is unsettled.                                       *)
Advances == GapsHold' /\ WalkHolds' /\ Settled \subseteq Settled'

(* A walk that begins lists all there is to do. *)
LEMMA BeginHolds ==
  ASSUME FeedTyped, FeedTyped', NEW g, NEW h, F!BeginReconcile(g, h), RowsHold(g), recorded' = recorded, fills' = fills,
         F!WorkList(g) # {} \/ (Undone = {} /\ pump.step = "idle")
  PROVE  Advances /\ (F!WorkList(g) # {} => Settled' = 1..fills)
<1>1. /\ pump'.step = "walk" /\ pump'.todo = F!WorkList(g) /\ reconciled' = FALSE /\ gaps' = g
  BY DEF F!BeginReconcile, F!PumpIdle
<1>2. GapsHold'
  BY <1>1 DEF GapsHold, RowsHold, DownwardClosed
<1>3. WalkHolds'
  BY <1>1 DEF WalkHolds, Undone
<1>4. F!WorkList(g) # {} => Settled' = 1..fills
  BY <1>1 DEF Settled, Undone
<1>5. F!WorkList(g) = {} => Settled' = recorded /\ Settled = recorded
  BY <1>1, SettledTyped DEF Settled, Undone
<1>6. Settled \subseteq 1..fills
  BY SettledTyped
<1> QED BY <1>2, <1>3, <1>4, <1>5, <1>6 DEF Advances

(* Steps of the connection, the venue and the order *)
LEMMA AsideAdvances ==
  ASSUME FeedTyped, GapsHold, WalkHolds, UNCHANGED <<recorded, gaps, reconciled>>, fills <= fills', fills' \in Nat,
         pump'.step = pump.step, pump'.todo = pump.todo, pump'.found = pump.found, pump'.outstanding = pump.outstanding
  PROVE  Advances
<1>1. GapsHold' /\ Undone' = Undone /\ F!Working' = F!Working
  BY DEF GapsHold, RowsHold, DownwardClosed, Undone, F!Working, F!Current
<1>2. pump.step = "record" => Settled' = Settled
  BY <1>1 DEF Settled
<1>3. WalkHolds'
  BY <1>1, <1>2 DEF WalkHolds, DownwardClosed
<1>4. fills \in Nat /\ 1..fills \subseteq 1..fills'
  BY FillsAreCounted DEF FeedTyped, CountsTyped
<1>5. Settled \subseteq Settled'
  BY <1>1, <1>2, <1>4 DEF Settled
<1> QED BY <1>1, <1>3, <1>5 DEF Advances

(* catch_up leaves a gap that covers everything before now. *)
LEMMA CatchUpAdvances ==
  ASSUME FeedTyped, FeedTyped', GapsHold, F!CatchUp, failure' = FALSE
  PROVE  Advances /\ Settled' = 1..fills
<1>1. F!BeginReconcile(F!CloseGaps(F!OpenGap), FALSE) /\ recorded' = recorded /\ fills' = fills
  BY DEF F!CatchUp
<1>2. RowsHold(F!OpenGap) /\ F!WorkList(F!OpenGap) # {}
  BY OpenGapHolds
<1>3. RowsHold(F!CloseGaps(F!OpenGap)) /\ F!WorkList(F!CloseGaps(F!OpenGap)) # {}
  BY <1>2, CloseGapsHolds
<1> QED BY <1>1, <1>3, BeginHolds

(* After an outage was told of, everything will be walked. *)
LEMMA DisconnectedAdvances ==
  ASSUME FeedTyped, FeedTyped', GapsHold, WalkHolds, F!HandleDisconnected, failure' = FALSE
  PROVE  Advances /\ Settled' = 1..fills /\ Opened' # {}
<1>1. gaps' = F!OpenGap /\ pump' = pump /\ pump.step = "idle" /\ reconciled' = FALSE /\ recorded' = recorded /\ fills' = fills
  BY DEF F!HandleDisconnected, F!Takes
<1>2. RowsHold(F!OpenGap) /\ F!WorkList(F!OpenGap) # {} /\ \E i \in DOMAIN F!OpenGap : ~F!OpenGap[i].closed
  BY OpenGapHolds
<1>3. GapsHold' /\ Undone' # {} /\ Opened' # {}
  BY <1>1, <1>2 DEF GapsHold, RowsHold, DownwardClosed, Undone, Opened
<1>4. WalkHolds'
  BY <1>1 DEF WalkHolds
<1>5. Settled' = 1..fills
  BY <1>1, <1>3 DEF Settled
<1> QED BY <1>3, <1>4, <1>5, SettledTyped DEF Advances

(* A gap that was open is walked when the connection is back. *)
LEMMA ReconnectedAdvances ==
  ASSUME FeedTyped, FeedTyped', GapsHold, WalkHolds, F!HandleReconnected, failure' = FALSE, Opened # {}
  PROVE  Advances /\ Settled' = 1..fills
<1>1. F!BeginReconcile(F!CloseGaps(gaps), TRUE) /\ recorded' = recorded /\ fills' = fills
  BY DEF F!HandleReconnected
<1>2. RowsHold(F!CloseGaps(gaps)) /\ F!WorkList(F!CloseGaps(gaps)) = F!WorkList(gaps)
  BY CloseGapsHolds DEF GapsHold
<1>3. F!WorkList(gaps) # {}
  BY DEF Opened, GapsHold, RowsHold, F!WorkList
<1> QED BY <1>1, <1>2, <1>3, BeginHolds

(* A frame without holes leaves a ledger without holes. *)
LEMMA FillsAdvance ==
  ASSUME FeedTyped, FeedTyped', GapsHold, WalkHolds, StreamHolds, F!HandleFills, failure = FALSE, failure' = FALSE
  PROVE  Advances /\ queue[1].fills \subseteq Settled'
<1>1. /\ recorded' = recorded \cup queue[1].fills /\ queue # <<>> /\ pump.step = "idle"
      /\ gaps' = gaps /\ pump' = pump /\ fills' = fills /\ reconciled' = reconciled
  BY HeadTyped DEF F!HandleFills, F!Takes, F!RecordFill, F!session
<1>2. Undone' = Undone
  BY <1>1 DEF Undone
<1>3. Undone = {} => DownwardClosed(recorded')
  <2> SUFFICES ASSUME Undone = {} PROVE DownwardClosed(recorded')
    OBVIOUS
  <2>1. Settled = recorded /\ DownwardClosed(recorded)
    BY <1>1, SettledTyped DEF GapsHold, RowsHold, Undone
  <2>2. Len(queue) \in Nat \ {0}
    BY <1>1, HeadTyped
  <2>3. Quiet(queue, 0) /\ Queued(queue, 1) = queue[1].fills
    BY DEF Quiet, Queued
  <2>4. \A m \in queue[1].fills : 1..m \subseteq recorded \cup queue[1].fills
    BY <2>1, <2>2, <2>3 DEF StreamHolds
  <2> QED BY <1>1, <2>1, <2>4 DEF DownwardClosed
<1>4. GapsHold'
  <2>1. /\ \A i \in DOMAIN gaps : gaps[i].done => gaps[i].closed
        /\ \A i \in DOMAIN gaps : gaps[i].anchor = 0 \/ gaps[i].anchor \in recorded'
    BY <1>1 DEF GapsHold, RowsHold
  <2>2. Undone # {} => \E i \in F!WorkList(gaps) : 1..gaps[i].anchor \subseteq recorded'
    BY <1>1 DEF GapsHold, RowsHold, Undone
  <2> QED BY <1>1, <1>3, <2>1, <2>2 DEF GapsHold, RowsHold, Undone
<1>5. WalkHolds'
  BY <1>1, <1>2 DEF WalkHolds
<1>6. Settled \subseteq Settled' /\ queue[1].fills \subseteq Settled'
  <2>1. CASE Undone = {}
    BY <1>1, <1>2, <2>1 DEF Settled
  <2>2. CASE Undone # {}
    <3>1. Settled' = 1..fills
      BY <1>1, <1>2, <2>2 DEF Settled
    <3> QED BY <1>1, <3>1, SettledTyped, HeadTyped
  <2> QED BY <2>1, <2>2
<1> QED BY <1>4, <1>5, <1>6 DEF Advances

(* A walk finds every fill after its anchor. *)
LEMMA FetchAdvances ==
  ASSUME FeedTyped, FeedTyped', GapsHold, WalkHolds, F!Fetch
  PROVE  Advances
<1>1. /\ pump' = [pump EXCEPT !.step = "record", !.found = F!Window(F!Working)] /\ pump.step = "walk" /\ pump.todo # {}
      /\ F!Working.closed /\ UNCHANGED <<recorded, gaps, reconciled, fills>>
  BY DEF F!Fetch, F!session
<1>2. pump'.step = "record" /\ pump'.found = F!Window(F!Working) /\ pump'.todo = pump.todo /\ pump'.outstanding = pump.outstanding
  BY <1>1 DEF FeedTyped, PumpTyped, F!Pump
<1>3. F!Working' = F!Working /\ Undone' = Undone
  BY <1>1, <1>2 DEF F!Working, F!Current, Undone
<1>4. F!Working.anchor \in 0..fills /\ fills \in Nat /\ recorded \subseteq 1..fills
  BY <1>1, CurrentTyped, FillsAreCounted DEF GapOf, FeedTyped, CountsTyped
<1>5. Settled' = recorded \cup F!Window(F!Working) \cup 1..F!Working.anchor
  BY <1>1, <1>2, <1>3 DEF Settled
<1>6. F!Window(F!Working) \cup 1..F!Working.anchor = 1..fills
  BY <1>4 DEF F!Window
<1>7. Settled' = 1..fills
  BY <1>4, <1>5, <1>6
<1>8. DownwardClosed(Settled)'
  BY <1>4, <1>7 DEF DownwardClosed
<1>9. GapsHold'
  BY <1>1 DEF GapsHold, RowsHold, DownwardClosed
<1>10. WalkHolds'
  BY <1>1, <1>2, <1>3, <1>8 DEF WalkHolds
<1> QED BY <1>7, <1>9, <1>10, SettledTyped DEF Advances

(* A gap that is left stays to be done. *)
LEMMA LeaveAdvances ==
  ASSUME FeedTyped, FeedTyped', GapsHold, WalkHolds, F!LeaveGap
  PROVE  Advances
<1>1. /\ pump' = [pump EXCEPT !.todo = @ \ {F!Current}, !.outstanding = TRUE] /\ pump.step = "walk"
      /\ UNCHANGED <<recorded, gaps, reconciled, fills>>
  BY DEF F!LeaveGap, F!session
<1>2. pump'.step = "walk" /\ pump'.todo \subseteq pump.todo /\ pump'.outstanding = TRUE
  BY <1>1 DEF FeedTyped, PumpTyped, F!Pump
<1>3. GapsHold' /\ Undone' = Undone
  BY <1>1 DEF GapsHold, RowsHold, DownwardClosed, Undone
<1>4. WalkHolds'
  BY <1>1, <1>2, <1>3 DEF WalkHolds
<1>5. Settled' = Settled
  BY <1>1, <1>2, <1>3 DEF Settled
<1> QED BY <1>3, <1>4, <1>5 DEF Advances

(* A recorded fill was a found one. *)
LEMMA RecordAdvances ==
  ASSUME FeedTyped, FeedTyped', GapsHold, WalkHolds, F!RecordFound
  PROVE  Advances
<1> DEFINE m == F!Min(pump.found)
<1>1. /\ pump' = [pump EXCEPT !.found = pump.found \ {m}] /\ pump.step = "record" /\ pump.found # {}
      /\ recorded' = recorded \cup {m} /\ UNCHANGED <<gaps, reconciled, fills>>
  BY DEF F!RecordFound, F!RecordFill, F!session
<1>2. m \in pump.found
  BY <1>1, MinIsLeast DEF FeedTyped, PumpTyped
<1> HIDE DEF m
<1>3. /\ pump'.step = "record" /\ pump'.found = pump.found \ {m} /\ pump'.todo = pump.todo
      /\ pump'.outstanding = pump.outstanding
  BY <1>1 DEF FeedTyped, PumpTyped, F!Pump
<1>4. F!Working' = F!Working /\ Undone' = Undone
  BY <1>1, <1>3 DEF F!Working, F!Current, Undone
<1>5. Settled' = Settled
  BY <1>1, <1>2, <1>3, <1>4 DEF Settled
<1>6. Undone # {}
  BY <1>1, CurrentTyped DEF WalkHolds, FeedTyped, PumpTyped
<1>7. GapsHold'
  <2>1. /\ \A i \in DOMAIN gaps : gaps[i].done => gaps[i].closed
        /\ \A i \in DOMAIN gaps : gaps[i].anchor = 0 \/ gaps[i].anchor \in recorded'
    BY <1>1 DEF GapsHold, RowsHold
  <2>2. \E i \in F!WorkList(gaps) : 1..gaps[i].anchor \subseteq recorded'
    BY <1>1, <1>6 DEF GapsHold, RowsHold, Undone
  <2> QED BY <1>1, <1>6, <2>1, <2>2 DEF GapsHold, RowsHold, Undone
<1>8. WalkHolds'
  BY <1>1, <1>3, <1>4, <1>5 DEF WalkHolds, DownwardClosed
<1> QED BY <1>5, <1>7, <1>8 DEF Advances

(* A gap is done when everything since its anchor is in the ledger; an     *)
(* older gap that was left reaches back at least as far.                   *)
LEMMA MarkAdvances ==
  ASSUME FeedTyped, FeedTyped', GapsHold, WalkHolds, F!MarkGap
  PROVE  Advances
<1> DEFINE c == F!Current
<1>1. /\ pump.step = "record" /\ pump.found = {} /\ UNCHANGED <<recorded, reconciled, fills>>
      /\ pump' = [pump EXCEPT !.step = "walk", !.todo = @ \ {c}]
      /\ gaps' = [gaps EXCEPT ![c].done = TRUE]
  BY DEF F!MarkGap, F!session
<1>2. c \in pump.todo /\ c \in DOMAIN gaps /\ F!Working = gaps[c] /\ c \in Undone /\ gaps \in Seq(GapOf(fills))
  BY <1>1, CurrentTyped DEF FeedTyped, PumpTyped, GapsTyped, WalkHolds, F!Working
<1> HIDE DEF c
<1>3. pump'.step = "walk" /\ pump'.todo = pump.todo \ {c} /\ pump'.outstanding = pump.outstanding
  BY <1>1 DEF FeedTyped, PumpTyped, F!Pump
<1>4. \A i \in DOMAIN gaps : gaps[i] \in GapOf(fills)
  BY <1>2
<1>5. /\ DOMAIN gaps' = DOMAIN gaps
      /\ \A i \in DOMAIN gaps : i # c => gaps'[i] = gaps[i]
      /\ gaps'[c].done = TRUE /\ gaps'[c].closed = gaps[c].closed /\ gaps'[c].anchor = gaps[c].anchor
  BY <1>1, <1>2, <1>4 DEF GapOf
<1>6. Undone' = Undone \ {c}
  BY <1>2, <1>5 DEF Undone, F!WorkList
<1>7. Settled = recorded \cup 1..gaps[c].anchor /\ DownwardClosed(Settled) /\ gaps[c].closed
  BY <1>1, <1>2 DEF Settled, WalkHolds
<1>8. \A i \in DOMAIN gaps : /\ gaps[i].done => gaps[i].closed
                             /\ gaps[i].anchor = 0 \/ gaps[i].anchor \in recorded
  BY DEF GapsHold, RowsHold
<1>9. PICK w \in Undone : 1..gaps[w].anchor \subseteq recorded
  BY <1>2 DEF GapsHold, RowsHold, Undone
<1>10. w \in DOMAIN gaps
  BY <1>9 DEF Undone, F!WorkList
<1>11. w = c => DownwardClosed(recorded)
  BY <1>7, <1>9
<1>12. ASSUME w = c, NEW i \in DOMAIN gaps PROVE 1..gaps[i].anchor \subseteq recorded
  <2>1. gaps[i].anchor = 0 => 1..gaps[i].anchor = {}
    OBVIOUS
  <2> QED BY <1>8, <1>11, <1>12, <2>1 DEF DownwardClosed
<1>13. IF Undone' # {} THEN \E i \in Undone' : 1..gaps'[i].anchor \subseteq recorded ELSE DownwardClosed(recorded)
  <2>1. CASE w # c
    BY <1>5, <1>6, <1>9, <1>10, <2>1
  <2>2. CASE w = c /\ Undone' # {}
    <3>1. PICK i \in Undone' : TRUE
      BY <2>2
    <3>2. i \in DOMAIN gaps /\ gaps'[i] = gaps[i]
      BY <1>5, <1>6, <3>1 DEF Undone, F!WorkList
    <3> QED BY <1>12, <2>2, <3>1, <3>2
  <2>3. CASE w = c /\ Undone' = {}
    BY <1>11, <2>3
  <2> QED BY <2>1, <2>2, <2>3
<1>14. \A i \in DOMAIN gaps' : /\ gaps'[i].done => gaps'[i].closed
                               /\ gaps'[i].anchor = 0 \/ gaps'[i].anchor \in recorded
  <2> SUFFICES ASSUME NEW i \in DOMAIN gaps
               PROVE  /\ gaps'[i].done => gaps'[i].closed
                      /\ gaps'[i].anchor = 0 \/ gaps'[i].anchor \in recorded
    BY <1>5
  <2>1. CASE i = c
    BY <1>5, <1>7, <1>8, <2>1
  <2>2. CASE i # c
    BY <1>5, <1>8, <2>2
  <2> QED BY <2>1, <2>2
<1>15. GapsHold'
  <2>1. Undone' = F!WorkList(gaps')
    BY DEF Undone
  <2>2. IF F!WorkList(gaps') # {} THEN \E i \in F!WorkList(gaps') : 1..gaps'[i].anchor \subseteq recorded
        ELSE DownwardClosed(recorded)
    BY <1>13, <2>1
  <2> QED BY <1>1, <1>14, <2>2 DEF GapsHold, RowsHold
<1>16. ~reconciled
  BY <1>1 DEF FeedTyped, PumpTyped
<1>17. WalkHolds'
  BY <1>1, <1>3, <1>6, <1>16 DEF WalkHolds
<1>18. Settled \subseteq Settled'
  <2>1. CASE Undone' # {}
    BY <1>1, <1>3, <2>1, SettledTyped DEF Settled
  <2>2. CASE Undone' = {}
    <3>1. w = c
      BY <1>6, <1>9, <2>2
    <3>2. Settled = recorded
      BY <1>7, <1>9, <3>1
    <3> QED BY <1>1, <1>3, <2>2, <3>2 DEF Settled
  <2> QED BY <2>1, <2>2
<1> QED BY <1>15, <1>17, <1>18 DEF Advances

(* A session is reconciled only when no gap was left. *)
LEMMA FinishAdvances ==
  ASSUME FeedTyped, FeedTyped', GapsHold, WalkHolds, F!FinishReconcile
  PROVE  Advances
<1>1. /\ pump.step = "walk" /\ pump.todo = {} /\ pump' = F!PumpIdle /\ UNCHANGED <<recorded, gaps, fills>>
      /\ reconciled' => ~pump.outstanding
  BY DEF F!FinishReconcile
<1>2. pump'.step = "idle"
  BY <1>1 DEF F!PumpIdle
<1>3. GapsHold' /\ Undone' = Undone
  BY <1>1 DEF GapsHold, RowsHold, DownwardClosed, Undone
<1>4. reconciled' => Undone' = {}
  BY <1>1, <1>3 DEF WalkHolds
<1>5. WalkHolds'
  BY <1>2, <1>4 DEF WalkHolds
<1>6. Settled' = Settled
  BY <1>1, <1>2, <1>3 DEF Settled
<1> QED BY <1>3, <1>5, <1>6 DEF Advances

(* The next start walks over everything. *)
LEMMA RestartAdvances ==
  ASSUME FeedTyped, FeedTyped', GapsHold, F!Restart
  PROVE  Advances /\ Settled' = 1..fills
<1>1. UNCHANGED <<recorded, gaps, fills>> /\ reconciled' = FALSE /\ pump'.step = "startup"
  BY DEF F!Restart, F!PumpIdle
<1>2. GapsHold'
  BY <1>1 DEF GapsHold, RowsHold, DownwardClosed
<1>3. WalkHolds'
  BY <1>1 DEF WalkHolds
<1>4. Settled' = 1..fills
  BY <1>1 DEF Settled
<1> QED BY <1>2, <1>3, <1>4, SettledTyped DEF Advances

-----------------------------------------------------------------------------
(* Frames and signals *)

(* Where everything will be walked, frames cannot leave a hole. *)
LEMMA StreamFull ==
  FeedTyped /\ Settled = 1..fills => StreamHolds /\ 1..noticed \subseteq Settled
<1> SUFFICES ASSUME FeedTyped, Settled = 1..fills PROVE StreamHolds /\ 1..noticed \subseteq Settled
  OBVIOUS
<1>1. /\ fills \in Nat /\ base \in 0..fills /\ noticed \in 0..fills
      /\ queue \in Seq(EventOf(fills)) /\ wire \in Seq(SUBSET (1..fills))
  BY FillsAreCounted DEF FeedTyped, CountsTyped, QueueTyped, WireTyped
<1>2. \A i \in 1..Len(queue) : queue[i].fills \subseteq 1..fills
  <2>1. \A i \in 1..Len(queue) : queue[i] \in EventOf(fills)
    BY <1>1
  <2> QED BY <2>1 DEF EventOf
<1>3. \A i \in 1..Len(wire) : wire[i] \subseteq 1..fills
  BY <1>1
<1>4. \A m \in 1..fills : 1..m \subseteq 1..fills
  BY <1>1
<1>5. 1..base \subseteq 1..fills /\ 1..noticed \subseteq 1..fills
  BY <1>1
<1> QED BY <1>2, <1>3, <1>4, <1>5 DEF StreamHolds

(* The same after a step. *)
LEMMA StreamFullNext ==
  FeedTyped' /\ (Settled = 1..fills)' => StreamHolds' /\ (1..noticed \subseteq Settled)'
BY StreamFull, PTL

(* The paths of a fill only get longer: what is settled stays settled. *)
LEMMA StreamKept ==
  ASSUME StreamHolds, Settled \subseteq Settled', UNCHANGED <<queue, wire, fills, link, base>>
  PROVE  StreamHolds'
BY DEF StreamHolds

(* Everything of the first event is settled, and it was not an outage. *)
LEMMA StreamTaken ==
  ASSUME FeedTyped, StreamHolds, queue # <<>>, queue' = Tail(queue), ~IsSignal(queue[1]),
         Settled \cup queue[1].fills \subseteq Settled', UNCHANGED <<wire, fills, link, base>>
  PROVE  StreamHolds'
<1>1. /\ Len(queue) \in Nat \ {0} /\ Len(queue') = Len(queue) - 1
      /\ \A k \in 1..Len(queue) - 1 : queue'[k] = queue[k + 1]
  BY HeadTyped
<1>2. ASSUME NEW n \in 0..Len(queue')
      PROVE  /\ Settled \cup Queued(queue, n + 1) \subseteq Settled' \cup Queued(queue', n)
             /\ Quiet(queue', n) => Quiet(queue, n + 1)
  <2>1. \A k \in 1..n : queue'[k] = queue[k + 1]
    BY <1>1
  <2>2. Quiet(queue', n) => Quiet(queue, n + 1)
    <3> SUFFICES ASSUME Quiet(queue', n), NEW k \in 1..(n + 1) PROVE ~IsSignal(queue[k])
      BY DEF Quiet
    <3>1. k = 1 \/ (k - 1 \in 1..n /\ queue'[k - 1] = queue[k])
      BY <1>1, <2>1
    <3> QED BY <3>1 DEF Quiet
  <2>3. ASSUME NEW m \in Queued(queue, n + 1) PROVE m \in Settled' \cup Queued(queue', n)
    <3>1. PICK k \in 1..(n + 1) : m \in queue[k].fills
      BY <2>3 DEF Queued
    <3>2. CASE k = 1
      BY <3>1, <3>2
    <3>3. CASE k # 1
      <4>1. k - 1 \in 1..n /\ queue'[k - 1] = queue[k]
        BY <1>1, <2>1, <3>1, <3>3
      <4> QED BY <3>1, <4>1 DEF Queued
    <3> QED BY <3>2, <3>3
  <2> QED BY <2>2, <2>3
<1>3. ASSUME NEW i \in 1..Len(queue'), Quiet(queue', i - 1), NEW m \in queue'[i].fills
      PROVE  1..m \subseteq Settled' \cup Queued(queue', i)
  <2>1. i \in 0..Len(queue') /\ i - 1 \in 0..Len(queue') /\ (i - 1) + 1 = i /\ i + 1 \in 1..Len(queue) /\ (i + 1) - 1 = i
    BY <1>1
  <2>2. Quiet(queue, i) /\ m \in queue[i + 1].fills
    BY <1>1, <1>2, <1>3, <2>1
  <2>3. 1..m \subseteq Settled \cup Queued(queue, i + 1)
    BY <2>1, <2>2 DEF StreamHolds
  <2> QED BY <1>2, <2>1, <2>3
<1>4. /\ Len(queue') \in 0..Len(queue') /\ Len(queue') + 1 = Len(queue)
  BY <1>1
<1>5. Settled \cup Queued(queue, Len(queue)) \subseteq Settled' \cup Queued(queue', Len(queue'))
  BY <1>2, <1>4
<1>6. Quiet(queue', Len(queue')) => Quiet(queue, Len(queue))
  BY <1>2, <1>4
<1> QED BY <1>3, <1>5, <1>6 DEF StreamHolds

(* An event more leaves what was said of the earlier ones. *)
LEMMA QueueGrows ==
  ASSUME FeedTyped, NEW e, queue' = Append(queue, e)
  PROVE  /\ Len(queue) \in Nat /\ Len(queue') = Len(queue) + 1 /\ queue'[Len(queue) + 1] = e
         /\ \A k \in 1..Len(queue) : queue'[k] = queue[k]
         /\ \A n \in 0..Len(queue) : Queued(queue', n) = Queued(queue, n) /\ (Quiet(queue', n) <=> Quiet(queue, n))
         /\ Queued(queue', Len(queue) + 1) = Queued(queue, Len(queue)) \cup e.fills
         /\ Quiet(queue', Len(queue) + 1) <=> Quiet(queue, Len(queue)) /\ ~IsSignal(e)
<1>1. queue \in Seq(EventOf(fills))
  BY DEF FeedTyped, QueueTyped
<1>2. queue \in Seq(EventOf(fills) \cup {e})
  BY <1>1
<1>3. /\ Len(queue) \in Nat /\ Len(queue') = Len(queue) + 1 /\ queue'[Len(queue) + 1] = e
      /\ \A k \in 1..Len(queue) : queue'[k] = queue[k]
  BY <1>2, AppendFacts
<1>4. \A n \in 0..Len(queue) : Queued(queue', n) = Queued(queue, n) /\ (Quiet(queue', n) <=> Quiet(queue, n))
  BY <1>3 DEF Queued, Quiet
<1>5. 1..(Len(queue) + 1) = (1..Len(queue)) \cup {Len(queue) + 1}
  BY <1>3
<1>6. Queued(queue', Len(queue) + 1) = Queued(queue', Len(queue)) \cup queue'[Len(queue) + 1].fills
  BY <1>5 DEF Queued
<1>7. Quiet(queue', Len(queue) + 1) <=> Quiet(queue', Len(queue)) /\ ~IsSignal(queue'[Len(queue) + 1])
  BY <1>5 DEF Quiet
<1>8. Len(queue) \in 0..Len(queue)
  BY <1>3
<1> QED BY <1>3, <1>4, <1>6, <1>7, <1>8

(* So does a frame more on the wire. *)
LEMMA WireGrows ==
  ASSUME FeedTyped, NEW f, wire' = Append(wire, f)
  PROVE  /\ Len(wire) \in Nat /\ Len(wire') = Len(wire) + 1 /\ wire'[Len(wire) + 1] = f
         /\ \A k \in 1..Len(wire) : wire'[k] = wire[k]
         /\ \A n \in 0..Len(wire) : Wired(wire', n) = Wired(wire, n)
         /\ Wired(wire', Len(wire) + 1) = Wired(wire, Len(wire)) \cup f
<1>1. wire \in Seq(SUBSET (1..fills))
  BY DEF FeedTyped, WireTyped
<1>2. wire \in Seq((SUBSET (1..fills)) \cup {f})
  BY <1>1
<1>3. /\ Len(wire) \in Nat /\ Len(wire') = Len(wire) + 1 /\ wire'[Len(wire) + 1] = f
      /\ \A k \in 1..Len(wire) : wire'[k] = wire[k]
  BY <1>2, AppendFacts
<1>4. \A n \in 0..Len(wire) : Wired(wire', n) = Wired(wire, n)
  BY <1>3 DEF Wired
<1>5. 1..(Len(wire) + 1) = (1..Len(wire)) \cup {Len(wire) + 1}
  BY <1>3
<1>6. Wired(wire', Len(wire) + 1) = Wired(wire', Len(wire)) \cup wire'[Len(wire) + 1]
  BY <1>5 DEF Wired
<1>7. Len(wire) \in 0..Len(wire)
  BY <1>3
<1> QED BY <1>3, <1>4, <1>6, <1>7

(* An outage or its end is told of after every frame before it. *)
LEMMA StreamSignalled ==
  ASSUME FeedTyped, StreamHolds, Settled \subseteq Settled', NEW e, IsSignal(e), e.fills = {}, queue' = Append(queue, e)
  PROVE  StreamHolds'
<1>1. ~Quiet(queue', Len(queue'))
  BY QueueGrows
<1>2. ASSUME NEW i \in 1..Len(queue'), Quiet(queue', i - 1), NEW m \in queue'[i].fills
      PROVE  1..m \subseteq Settled' \cup Queued(queue', i)
  <2>1. i # Len(queue) + 1
    BY <1>2, QueueGrows
  <2>2. i \in 1..Len(queue) /\ i \in 0..Len(queue) /\ i - 1 \in 0..Len(queue)
    BY <2>1, QueueGrows
  <2>3. queue'[i] = queue[i] /\ Queued(queue', i) = Queued(queue, i) /\ Quiet(queue, i - 1)
    BY <1>2, <2>2, QueueGrows
  <2> QED BY <1>2, <2>2, <2>3 DEF StreamHolds
<1> QED BY <1>1, <1>2 DEF StreamHolds

(* A frame moves from the wire to the queue. *)
LEMMA StreamReceived ==
  ASSUME FeedTyped, StreamHolds, Settled \subseteq Settled', wire # <<>>, wire' = Tail(wire),
         queue' = Append(queue, [kind |-> "fills", fills |-> wire[1]]), UNCHANGED <<fills, link, base>>
  PROVE  StreamHolds'
<1> DEFINE e == [kind |-> "fills", fills |-> wire[1]]
<1>1. ~IsSignal(e) /\ e.fills = wire[1]
  BY DEF IsSignal
<1> HIDE DEF e
<1>2. /\ Len(queue) \in Nat /\ Len(queue') = Len(queue) + 1 /\ queue'[Len(queue) + 1] = e
      /\ \A k \in 1..Len(queue) : queue'[k] = queue[k]
      /\ \A n \in 0..Len(queue) : Queued(queue', n) = Queued(queue, n) /\ (Quiet(queue', n) <=> Quiet(queue, n))
      /\ Queued(queue', Len(queue) + 1) = Queued(queue, Len(queue)) \cup wire[1]
      /\ Quiet(queue', Len(queue) + 1) <=> Quiet(queue, Len(queue))
  BY <1>1, QueueGrows DEF e
<1>3. wire \in Seq(SUBSET (1..fills))
  BY DEF FeedTyped, WireTyped
<1>4. /\ Len(wire) \in Nat \ {0} /\ Len(wire') = Len(wire) - 1
      /\ \A k \in 1..Len(wire') : wire'[k] = wire[k + 1]
  BY <1>3, TailFacts
<1>5. ASSUME NEW n \in 0..Len(wire') PROVE Wired(wire, n + 1) = wire[1] \cup Wired(wire', n)
  <2>1. ASSUME NEW m \in Wired(wire, n + 1) PROVE m \in wire[1] \cup Wired(wire', n)
    <3>1. PICK k \in 1..(n + 1) : m \in wire[k]
      BY <2>1 DEF Wired
    <3>2. k = 1 \/ (k - 1 \in 1..n /\ wire'[k - 1] = wire[k])
      BY <1>4
    <3> QED BY <3>1, <3>2 DEF Wired
  <2>2. ASSUME NEW m \in wire[1] \cup Wired(wire', n) PROVE m \in Wired(wire, n + 1)
    <3>1. CASE m \in wire[1]
      <4>1. 1 \in 1..(n + 1)
        BY <1>4
      <4> QED BY <3>1, <4>1 DEF Wired
    <3>2. CASE m \in Wired(wire', n)
      <4>1. PICK k \in 1..n : m \in wire'[k]
        BY <3>2 DEF Wired
      <4>2. k + 1 \in 1..(n + 1) /\ wire'[k] = wire[k + 1]
        BY <1>4
      <4> QED BY <4>1, <4>2 DEF Wired
    <3> QED BY <2>2, <3>1, <3>2
  <2> QED BY <2>1, <2>2
<1>6. ASSUME NEW n \in 0..Len(wire')
      PROVE  Settled \cup Queued(queue, Len(queue)) \cup Wired(wire, n + 1)
               \subseteq Settled' \cup Queued(queue', Len(queue')) \cup Wired(wire', n)
  BY <1>2, <1>5
<1>7. Wired(wire, 1) = wire[1]
  BY DEF Wired
<1>8. ASSUME NEW i \in 1..Len(queue'), Quiet(queue', i - 1), NEW m \in queue'[i].fills
      PROVE  1..m \subseteq Settled' \cup Queued(queue', i)
  <2>1. CASE i = Len(queue) + 1
    <3>1. Quiet(queue, Len(queue)) /\ m \in wire[1] /\ 1 \in 1..Len(wire)
      BY <1>1, <1>2, <1>4, <1>8, <2>1
    <3>2. 1..m \subseteq Settled \cup Queued(queue, Len(queue)) \cup Wired(wire, 1)
      BY <3>1 DEF StreamHolds
    <3> QED BY <1>2, <1>7, <2>1, <3>2
  <2>2. CASE i # Len(queue) + 1
    <3>1. i \in 1..Len(queue) /\ i \in 0..Len(queue) /\ i - 1 \in 0..Len(queue)
      BY <1>2, <2>2
    <3>2. queue'[i] = queue[i] /\ Queued(queue', i) = Queued(queue, i) /\ Quiet(queue, i - 1)
      BY <1>2, <1>8, <3>1
    <3> QED BY <1>8, <3>1, <3>2 DEF StreamHolds
  <2> QED BY <2>1, <2>2
<1>9. ASSUME Quiet(queue', Len(queue'))
      PROVE  /\ \A p \in 1..Len(wire') : \A m \in wire'[p] :
                  1..m \subseteq Settled' \cup Queued(queue', Len(queue')) \cup Wired(wire', p)
             /\ link' = "up" => 1..fills' \subseteq Settled' \cup Queued(queue', Len(queue')) \cup Wired(wire', Len(wire'))
             /\ 1..base' \subseteq Settled' \cup Queued(queue', Len(queue')) \cup Wired(wire', Len(wire'))
  <2>1. Quiet(queue, Len(queue))
    BY <1>2, <1>9
  <2>2. ASSUME NEW p \in 1..Len(wire'), NEW m \in wire'[p]
        PROVE  1..m \subseteq Settled' \cup Queued(queue', Len(queue')) \cup Wired(wire', p)
    <3>1. p + 1 \in 1..Len(wire) /\ m \in wire[p + 1] /\ p \in 0..Len(wire')
      BY <1>4, <2>2
    <3>2. 1..m \subseteq Settled \cup Queued(queue, Len(queue)) \cup Wired(wire, p + 1)
      BY <2>1, <3>1 DEF StreamHolds
    <3> QED BY <1>6, <3>1, <3>2
  <2>3. Len(wire') \in 0..Len(wire') /\ Len(wire') + 1 = Len(wire)
    BY <1>4
  <2>4. Settled \cup Queued(queue, Len(queue)) \cup Wired(wire, Len(wire))
          \subseteq Settled' \cup Queued(queue', Len(queue')) \cup Wired(wire', Len(wire'))
    BY <1>6, <2>3
  <2> QED BY <2>1, <2>2, <2>4 DEF StreamHolds
<1> QED BY <1>8, <1>9 DEF StreamHolds

(* A fill the venue makes goes on the wire, if there is one. *)
LEMMA StreamMade ==
  ASSUME FeedTyped, StreamHolds, Settled \subseteq Settled', F!VenueFill
  PROVE  StreamHolds'
<1>1. /\ fills' = fills + 1 /\ UNCHANGED <<link, base, queue>> /\ fills \in Nat
      /\ wire' = IF link = "up" THEN Append(wire, {fills + 1}) ELSE wire
  BY FillsAreCounted DEF F!VenueFill, FeedTyped, CountsTyped
<1>2. CASE link # "up"
  BY <1>1, <1>2 DEF StreamHolds
<1>3. CASE link = "up"
  <2>1. /\ Len(wire) \in Nat /\ Len(wire') = Len(wire) + 1 /\ wire'[Len(wire) + 1] = {fills + 1}
        /\ \A k \in 1..Len(wire) : wire'[k] = wire[k]
        /\ \A n \in 0..Len(wire) : Wired(wire', n) = Wired(wire, n)
        /\ Wired(wire', Len(wire) + 1) = Wired(wire, Len(wire)) \cup {fills + 1}
    BY <1>1, <1>3, WireGrows
  <2>2. ASSUME Quiet(queue, Len(queue))
        PROVE  1..(fills + 1) \subseteq Settled' \cup Queued(queue, Len(queue)) \cup Wired(wire', Len(wire) + 1)
    <3>1. 1..fills \subseteq Settled \cup Queued(queue, Len(queue)) \cup Wired(wire, Len(wire))
      BY <1>3, <2>2 DEF StreamHolds
    <3>2. 1..(fills + 1) = (1..fills) \cup {fills + 1}
      BY <1>1
    <3> QED BY <2>1, <3>1, <3>2
  <2>3. ASSUME Quiet(queue, Len(queue)), NEW p \in 1..Len(wire'), NEW m \in wire'[p]
        PROVE  1..m \subseteq Settled' \cup Queued(queue, Len(queue)) \cup Wired(wire', p)
    <3>1. CASE p = Len(wire) + 1
      BY <2>1, <2>2, <2>3, <3>1
    <3>2. CASE p # Len(wire) + 1
      <4>1. p \in 1..Len(wire) /\ p \in 0..Len(wire)
        BY <2>1, <3>2
      <4>2. m \in wire[p] /\ Wired(wire', p) = Wired(wire, p)
        BY <2>1, <2>3, <4>1
      <4> QED BY <2>3, <4>1, <4>2 DEF StreamHolds
    <3> QED BY <3>1, <3>2
  <2>4. Wired(wire, Len(wire)) \subseteq Wired(wire', Len(wire'))
    BY <2>1
  <2> QED BY <1>1, <2>1, <2>2, <2>3, <2>4 DEF StreamHolds
<1> QED BY <1>2, <1>3

(* The venue's first frame goes back to the subscription at least. *)
LEMMA StreamActivated ==
  ASSUME FeedTyped, StreamHolds, Settled \subseteq Settled', F!Activate, wire = <<>>
  PROVE  StreamHolds'
<1>1. PICK reach \in 0..base : wire' = <<(reach + 1)..fills>>
  BY DEF F!Activate
<1>2. UNCHANGED <<fills, base, queue>> /\ fills \in Nat /\ base \in 0..fills
  BY FillsAreCounted DEF F!Activate, FeedTyped, CountsTyped
<1>3. Len(wire') = 1 /\ wire'[1] = (reach + 1)..fills
  BY <1>1
<1>4. Wired(wire', 1) = (reach + 1)..fills /\ Wired(wire, Len(wire)) = {}
  <2>1. Wired(wire', 1) = wire'[1]
    BY DEF Wired
  <2>2. Len(wire) = 0
    OBVIOUS
  <2>3. Wired(wire, 0) = {}
    BY DEF Wired
  <2> QED BY <1>3, <2>1, <2>2, <2>3
<1>5. ASSUME Quiet(queue, Len(queue))
      PROVE  1..fills \subseteq Settled' \cup Queued(queue, Len(queue)) \cup Wired(wire', 1)
  <2>1. 1..base \subseteq Settled \cup Queued(queue, Len(queue))
    BY <1>4, <1>5 DEF StreamHolds
  <2>2. 1..fills \subseteq 1..base \cup (reach + 1)..fills
    BY <1>1, <1>2
  <2> QED BY <1>4, <2>1, <2>2
<1>6. ASSUME Quiet(queue, Len(queue)), NEW p \in 1..Len(wire'), NEW m \in wire'[p]
      PROVE  1..m \subseteq Settled' \cup Queued(queue, Len(queue)) \cup Wired(wire', p)
  <2>1. p = 1 /\ m \in (reach + 1)..fills
    <3>1. p = 1
      BY <1>3
    <3>2. m \in wire'[1]
      BY <1>6, <3>1
    <3> QED BY <1>3, <3>1, <3>2
  <2>2. 1..m \subseteq 1..fills
    BY <1>1, <1>2, <2>1
  <2> QED BY <1>5, <1>6, <2>1, <2>2
<1>7. 1..base \subseteq 1..fills
  BY <1>2
<1> QED BY <1>2, <1>3, <1>5, <1>6, <1>7 DEF StreamHolds

(* An outage that was told of has its gap, or is told of in the queue. *)
LEMMA AnswersKept ==
  ASSUME AnswersHold, UNCHANGED <<queue, announced>>,
         Opened # {} /\ pump.step # "startup" => Opened' # {} /\ pump'.step # "startup"
  PROVE  AnswersHold'
<1>1. \A n : Answerable(n) => Answerable(n)'
  BY DEF Answerable
<1> QED BY <1>1 DEF AnswersHold

(* An event is taken: an outage leaves its gap behind. *)
LEMMA AnswersTaken ==
  ASSUME FeedTyped, AnswersHold, queue # <<>>, queue' = Tail(queue), announced' = announced,
         Opened # {} /\ pump.step # "startup" /\ queue[1].kind # "reconnected" => Opened' # {} /\ pump'.step # "startup",
         queue[1].kind = "disconnected" => Opened' # {} /\ pump'.step # "startup"
  PROVE  AnswersHold'
<1>1. /\ Len(queue) \in Nat \ {0} /\ Len(queue') = Len(queue) - 1
      /\ \A k \in 1..Len(queue) - 1 : queue'[k] = queue[k + 1]
  BY HeadTyped
<1>2. ASSUME NEW n \in 0..Len(queue'), Answerable(n + 1) PROVE Answerable(n)'
  <2>0. \A k \in 1..n : queue'[k] = queue[k + 1] /\ k + 1 \in 1..(n + 1)
    BY <1>1
  <2>1. 1 \in 1..(n + 1)
    OBVIOUS
  <2>2. CASE \A k \in 1..(n + 1) : queue[k].kind # "reconnected"
    <3>1. \A k \in 1..n : queue'[k].kind # "reconnected"
      BY <2>0, <2>2
    <3>2. CASE Opened' # {} /\ pump'.step # "startup"
      BY <3>1, <3>2 DEF Answerable
    <3>3. CASE ~(Opened' # {} /\ pump'.step # "startup")
      <4>1. PICK j \in 1..(n + 1) : queue[j].kind = "disconnected"
        BY <1>2, <2>1, <2>2, <3>3 DEF Answerable
      <4>2. j # 1
        BY <3>3, <4>1
      <4>3. j - 1 \in 1..n /\ queue'[j - 1] = queue[j]
        BY <2>0, <4>2
      <4> QED BY <3>1, <4>1, <4>3 DEF Answerable
    <3> QED BY <3>2, <3>3
  <2>3. CASE ~ \A k \in 1..(n + 1) : queue[k].kind # "reconnected"
    <3>1. PICK j \in 1..(n + 1) : /\ queue[j].kind = "disconnected"
                                  /\ \A k \in 1..(n + 1) : queue[k].kind = "reconnected" => k < j
      BY <1>2, <2>3 DEF Answerable
    <3>2. j # 1
      BY <2>3, <3>1
    <3>3. j - 1 \in 1..n /\ queue'[j - 1] = queue[j]
      BY <2>0, <3>2
    <3>4. \A k \in 1..n : queue'[k].kind = "reconnected" => k < j - 1
      BY <2>0, <3>1
    <3> QED BY <3>1, <3>3, <3>4 DEF Answerable
  <2> QED BY <2>2, <2>3
<1>3. ASSUME NEW i \in 1..Len(queue'), queue'[i].kind = "reconnected" PROVE Answerable(i - 1)'
  <2>1. i + 1 \in 1..Len(queue) /\ queue[i + 1].kind = "reconnected" /\ i - 1 \in 0..Len(queue') /\ (i + 1) - 1 = (i - 1) + 1
    BY <1>1, <1>3
  <2>2. Answerable((i - 1) + 1)
    BY <2>1 DEF AnswersHold
  <2> QED BY <1>2, <2>1, <2>2
<1>4. ASSUME announced' PROVE Answerable(Len(queue))'
  <2>1. Len(queue') \in 0..Len(queue') /\ Len(queue') + 1 = Len(queue)
    BY <1>1
  <2>2. Answerable(Len(queue') + 1)
    BY <1>4, <2>1 DEF AnswersHold
  <2>3. \A n \in 0..Len(queue') : Answerable(n + 1) => Answerable(n)'
    BY <1>2
  <2> QED BY <2>1, <2>2, <2>3 DEF Answerable
<1> QED BY <1>3, <1>4 DEF AnswersHold

(* An event is sent: an outage is answered once it was announced. *)
LEMMA AnswersSent ==
  ASSUME FeedTyped, AnswersHold, NEW e, queue' = Append(queue, e),
         Opened' = Opened, pump'.step = pump.step,
         e.kind = "reconnected" => announced,
         announced' => e.kind = "disconnected" \/ (announced /\ e.kind # "reconnected")
  PROVE  AnswersHold'
<1>1. /\ Len(queue) \in Nat /\ Len(queue') = Len(queue) + 1 /\ queue'[Len(queue) + 1] = e
      /\ \A k \in 1..Len(queue) : queue'[k] = queue[k]
  BY QueueGrows
<1>2. ASSUME NEW n \in 0..Len(queue), Answerable(n) PROVE Answerable(n)'
  <2>1. \A k \in 1..n : queue'[k] = queue[k]
    BY <1>1
  <2> QED BY <1>2, <2>1 DEF Answerable
<1>3. ASSUME NEW i \in 1..Len(queue'), queue'[i].kind = "reconnected" PROVE Answerable(i - 1)'
  <2>1. CASE i = Len(queue) + 1
    <3>1. Answerable(i - 1)
      BY <1>1, <1>3, <2>1 DEF AnswersHold
    <3> QED BY <1>1, <1>2, <2>1, <3>1
  <2>2. CASE i # Len(queue) + 1
    <3>1. i \in 1..Len(queue) /\ i - 1 \in 0..Len(queue) /\ queue[i].kind = "reconnected"
      BY <1>1, <1>3, <2>2
    <3> QED BY <1>2, <3>1 DEF AnswersHold
  <2> QED BY <2>1, <2>2
<1>4. ASSUME announced' PROVE Answerable(Len(queue))'
  <2> DEFINE n == Len(queue')
  <2>0. n = Len(queue) + 1 /\ n \in 1..n /\ 1..n = (1..Len(queue)) \cup {n}
    BY <1>1
  <2>1. CASE e.kind = "disconnected"
    <3>1. \A k \in 1..n : queue'[k].kind = "reconnected" => k < n
      BY <1>1, <2>0, <2>1
    <3> QED BY <1>1, <2>0, <2>1, <3>1 DEF Answerable
  <2>2. CASE announced /\ e.kind # "reconnected" /\ e.kind # "disconnected"
    <3>1. Answerable(Len(queue))
      BY <2>2 DEF AnswersHold
    <3>2. CASE \E j \in 1..Len(queue) : /\ queue[j].kind = "disconnected"
                                        /\ \A k \in 1..Len(queue) : queue[k].kind = "reconnected" => k < j
      <4>1. PICK j \in 1..Len(queue) : /\ queue[j].kind = "disconnected"
                                       /\ \A k \in 1..Len(queue) : queue[k].kind = "reconnected" => k < j
        BY <3>2
      <4>2. j \in 1..n /\ queue'[j].kind = "disconnected"
        BY <1>1, <2>0, <4>1
      <4>3. \A k \in 1..n : queue'[k].kind = "reconnected" => k < j
        BY <1>1, <2>0, <2>2, <4>1
      <4> QED BY <4>2, <4>3 DEF Answerable
    <3>3. CASE (\A k \in 1..Len(queue) : queue[k].kind # "reconnected") /\ Opened # {} /\ pump.step # "startup"
      <4>1. \A k \in 1..n : queue'[k].kind # "reconnected"
        BY <1>1, <2>0, <2>2, <3>3
      <4> QED BY <3>3, <4>1 DEF Answerable
    <3> QED BY <3>1, <3>2, <3>3 DEF Answerable
  <2> QED BY <1>4, <2>1, <2>2
<1> QED BY <1>3, <1>4 DEF AnswersHold

-----------------------------------------------------------------------------
(* What this program knows of *)

(* Nothing is taken out of the ledger. *)
LEMMA RecordedGrows ==
  ASSUME F!Next
  PROVE  recorded \subseteq recorded'
BY RecordedFrame DEF F!HandleFills, F!RecordFound, F!RecordFill

(* What is known stays on its way while nothing is taken or sent. *)
LEMMA KnownKept ==
  ASSUME KnownHolds, recorded \subseteq recorded', Settled \subseteq Settled', UNCHANGED <<queue, noticed, received>>
  PROVE  KnownHolds'
BY DEF KnownHolds

(* The fills of an event that is taken are in the ledger. *)
LEMMA KnownTaken ==
  ASSUME FeedTyped, KnownHolds, recorded \cup queue[1].fills \subseteq recorded', Settled \subseteq Settled',
         queue # <<>>, queue' = Tail(queue), UNCHANGED <<noticed, received>>,
         queue[1].kind = "disconnected" => 1..noticed \subseteq Settled'
  PROVE  KnownHolds'
<1>1. /\ Len(queue) \in Nat \ {0} /\ Len(queue') = Len(queue) - 1
      /\ \A k \in 1..Len(queue) - 1 : queue'[k] = queue[k + 1]
  BY HeadTyped
<1>2. ASSUME \A k \in 1..Len(queue') : queue'[k].kind # "disconnected" PROVE 1..noticed' \subseteq Settled'
  <2>1. ASSUME queue[1].kind # "disconnected", NEW k \in 1..Len(queue) PROVE queue[k].kind # "disconnected"
    <3>1. k = 1 \/ (k - 1 \in 1..Len(queue') /\ queue'[k - 1] = queue[k])
      BY <1>1
    <3> QED BY <1>2, <2>1, <3>1
  <2> QED BY <2>1 DEF KnownHolds
<1>3. Queued(queue, Len(queue)) \subseteq queue[1].fills \cup Queued(queue', Len(queue'))
  <2> SUFFICES ASSUME NEW m \in Queued(queue, Len(queue)) PROVE m \in queue[1].fills \cup Queued(queue', Len(queue'))
    OBVIOUS
  <2>1. PICK k \in 1..Len(queue) : m \in queue[k].fills
    BY DEF Queued
  <2>2. k = 1 \/ (k - 1 \in 1..Len(queue') /\ queue'[k - 1] = queue[k])
    BY <1>1
  <2> QED BY <2>1, <2>2 DEF Queued
<1> QED BY <1>2, <1>3 DEF KnownHolds

(* What a frame brings is in the queue; an outage is told of there. *)
LEMMA KnownSent ==
  ASSUME FeedTyped, KnownHolds, recorded \subseteq recorded', Settled \subseteq Settled', NEW e, queue' = Append(queue, e),
         \/ e.kind = "disconnected" /\ noticed' = fills /\ received' = received
         \/ e.kind # "disconnected" /\ noticed' = noticed /\ received' \subseteq received \cup e.fills
  PROVE  KnownHolds'
<1>1. /\ Len(queue) \in Nat /\ Len(queue') = Len(queue) + 1 /\ queue'[Len(queue) + 1] = e
      /\ \A k \in 1..Len(queue) : queue'[k] = queue[k] /\ k \in 1..Len(queue')
      /\ Len(queue) + 1 \in 1..Len(queue')
      /\ Queued(queue', Len(queue')) = Queued(queue, Len(queue)) \cup e.fills
  BY QueueGrows
<1>2. CASE e.kind = "disconnected" /\ noticed' = fills /\ received' = received
  <2>1. received \subseteq 1..fills
    BY DEF FeedTyped, CountsTyped
  <2> QED BY <1>1, <1>2, <2>1 DEF KnownHolds
<1>3. CASE e.kind # "disconnected" /\ noticed' = noticed /\ received' \subseteq received \cup e.fills
  BY <1>1, <1>3 DEF KnownHolds
<1> QED BY <1>2, <1>3

(* Without a connection nothing is on the wire. *)
LEMMA LinkNext ==
  ASSUME LinkHolds, F!Next
  PROVE  LinkHolds'
<1>1. F!AnnounceDown \/ F!Restart => wire' = <<>>
  BY DEF F!AnnounceDown, F!Restart
<1>2. F!Break \/ F!Activate => link' \in {"dead", "up"}
  BY DEF F!Break, F!Activate
<1>3. F!Subscribed => link = "down" /\ wire' = wire
  BY DEF F!Subscribed
<1>4. F!VenueFill => link' = link /\ (link # "up" => wire' = wire)
  BY DEF F!VenueFill
<1>5. F!Receive => link' = link /\ wire # <<>>
  BY DEF F!Receive
<1> QED BY <1>1, <1>2, <1>3, <1>4, <1>5, LinkFrame, WireFrame DEF LinkHolds

-----------------------------------------------------------------------------
(* The session *)

Sound == GapsHold /\ WalkHolds /\ AnswersHold /\ StreamHolds /\ KnownHolds /\ LinkHolds

(* Steps that leave the queue, the socket and what is known alone *)
LEMMA PumpSound ==
  ASSUME FeedTyped, Sound, F!Next, Advances, UNCHANGED <<queue, announced, wire, fills, link, base, noticed, received>>,
         Opened # {} /\ pump.step # "startup" => Opened' # {} /\ pump'.step # "startup"
  PROVE  Sound'
<1>1. AnswersHold'
  BY AnswersKept DEF Sound
<1>2. StreamHolds'
  BY StreamKept DEF Sound, Advances
<1>3. KnownHolds'
  BY KnownKept, RecordedGrows DEF Sound, Advances
<1>4. LinkHolds'
  BY LinkNext DEF Sound
<1> QED BY <1>1, <1>2, <1>3, <1>4 DEF Sound, Advances

(* Open gaps stay open unless a step closes them. *)
LEMMA OpenedKept == gaps' = gaps => Opened' = Opened
BY DEF Opened

(* No step of the pump breaks what the session rests on. *)
LEMMA SoundPump ==
  ASSUME FeedTyped, FeedTyped', Sound, F!Next, failure = FALSE, failure' = FALSE, F!CatchUp \/ F!Retry \/ F!Reconcile
  PROVE  Sound'
<1>1. GapsHold /\ WalkHolds
  BY DEF Sound
<1>2. CASE F!CatchUp
  BY <1>1, <1>2, CatchUpAdvances, PumpSound DEF F!CatchUp, F!socket, F!history
<1>3. CASE F!Retry
  <2>1. F!BeginReconcile(gaps, FALSE) /\ pump.step = "idle" /\ UNCHANGED <<recorded, fills>>
    BY <1>3 DEF F!Retry
  <2>2. Advances
    BY <1>1, <2>1, BeginHolds DEF GapsHold, Undone
  <2>3. gaps' = gaps /\ pump'.step = "walk"
    BY <2>1 DEF F!BeginReconcile, F!PumpIdle
  <2> QED BY <1>3, <2>2, <2>3, OpenedKept, PumpSound DEF F!Retry, F!socket, F!history
<1>4. CASE F!Fetch \/ F!LeaveGap \/ F!RecordFound
  <2>1. Advances
    BY <1>1, <1>4, FetchAdvances, LeaveAdvances, RecordAdvances
  <2>2. pump'.step # "startup"
    <3>1. pump.step # "startup"
      BY <1>4 DEF F!Fetch, F!LeaveGap, F!RecordFound
    <3>2. pump'.step = pump.step \/ pump'.step = "record"
      BY <1>4 DEF F!Fetch, F!LeaveGap, F!RecordFound, FeedTyped, PumpTyped, F!Pump
    <3> QED BY <3>1, <3>2
  <2>3. UNCHANGED <<gaps, queue, announced, wire, fills, link, base, noticed, received>>
    BY <1>4 DEF F!Fetch, F!LeaveGap, F!RecordFound, F!socket, F!history
  <2> QED BY <2>1, <2>2, <2>3, OpenedKept, PumpSound
<1>5. CASE F!MarkGap
  <2>1. Advances
    BY <1>1, <1>5, MarkAdvances
  <2>2. pump'.step = "walk" /\ UNCHANGED <<queue, announced, wire, fills, link, base, noticed, received>>
    BY <1>5 DEF F!MarkGap, F!socket, F!history, FeedTyped, PumpTyped, F!Pump
  <2>3. Opened' = Opened
    <3>1. pump.todo # {} /\ gaps' = [gaps EXCEPT ![F!Current].done = TRUE]
      BY <1>5 DEF F!MarkGap, FeedTyped, PumpTyped
    <3>2. F!Current \in DOMAIN gaps /\ gaps[F!Current] \in GapOf(fills)
      BY <3>1, CurrentTyped DEF F!Working
    <3>3. DOMAIN gaps' = DOMAIN gaps /\ \A i \in DOMAIN gaps : gaps'[i].closed = gaps[i].closed
      BY <3>1, <3>2 DEF GapOf
    <3> QED BY <3>3 DEF Opened
  <2> QED BY <2>1, <2>2, <2>3, PumpSound
<1>6. CASE F!FinishReconcile
  <2>1. Advances
    BY <1>1, <1>6, FinishAdvances
  <2>2. pump'.step = "idle" /\ UNCHANGED <<gaps, queue, announced, wire, fills, link, base, noticed, received>>
    BY <1>6 DEF F!FinishReconcile, F!PumpIdle, F!socket, F!history
  <2> QED BY <2>1, <2>2, OpenedKept, PumpSound
<1>7. ~F!WalkFault
  BY DEF F!WalkFault
<1> QED BY <1>2, <1>3, <1>4, <1>5, <1>6, <1>7 DEF F!Reconcile

(* Taking an event *)
LEMMA SoundHandle ==
  ASSUME FeedTyped, FeedTyped', Sound, F!Next, failure = FALSE, failure' = FALSE, F!Handle
  PROVE  Sound'
<1>0. GapsHold /\ WalkHolds /\ StreamHolds /\ KnownHolds /\ AnswersHold
  BY DEF Sound
<1>1. /\ queue # <<>> /\ queue' = Tail(queue) /\ pump.step = "idle" /\ Head(queue) = queue[1]
      /\ UNCHANGED <<announced, wire, fills, link, base, noticed, received>>
  BY HeadTyped DEF F!Handle, F!HandleDisconnected, F!HandleReconnected, F!HandleFills, F!HandleDropped, F!Takes, F!socket, F!history
<1>2. 1 \in 1..Len(queue)
  BY <1>1, HeadTyped
<1>3. LinkHolds'
  BY LinkNext DEF Sound
<1>4. CASE F!HandleDisconnected
  <2>1. queue[1].kind = "disconnected" /\ queue[1].fills = {} /\ pump' = pump
    BY <1>1, <1>2, <1>4 DEF F!HandleDisconnected, F!Takes, FeedTyped, QueueTyped
  <2>2. Advances /\ Settled' = 1..fills /\ Opened' # {}
    BY <1>0, <1>4, DisconnectedAdvances
  <2>3. StreamHolds' /\ 1..noticed \subseteq Settled'
    BY <1>1, <2>2, StreamFullNext
  <2>4. AnswersHold'
    BY <1>0, <1>1, <2>1, <2>2, AnswersTaken
  <2>5. KnownHolds'
    BY <1>0, <1>1, <2>1, <2>2, <2>3, RecordedGrows, KnownTaken DEF Advances
  <2> QED BY <1>3, <2>2, <2>3, <2>4, <2>5 DEF Sound, Advances
<1>5. CASE F!HandleReconnected
  <2>1. queue[1].kind = "reconnected" /\ queue[1].fills = {}
    BY <1>1, <1>2, <1>5 DEF F!HandleReconnected, F!Takes, FeedTyped, QueueTyped
  <2>2. Answerable(0)
    BY <1>0, <1>2, <2>1 DEF AnswersHold
  <2>3. Opened # {}
    BY <2>2 DEF Answerable
  <2>4. Advances /\ Settled' = 1..fills
    BY <1>0, <1>5, <2>3, ReconnectedAdvances
  <2>5. StreamHolds' /\ 1..noticed \subseteq Settled'
    BY <1>1, <2>4, StreamFullNext
  <2>6. AnswersHold'
    BY <1>0, <1>1, <2>1, AnswersTaken
  <2>7. KnownHolds'
    BY <1>0, <1>1, <2>1, <2>4, RecordedGrows, KnownTaken DEF Advances
  <2> QED BY <1>3, <2>4, <2>5, <2>6, <2>7 DEF Sound, Advances
<1>6. CASE F!HandleFills
  <2>1. queue[1].kind = "fills" /\ gaps' = gaps /\ pump' = pump /\ recorded' = recorded \cup queue[1].fills
    BY <1>1, <1>6 DEF F!HandleFills, F!Takes, F!RecordFill
  <2>2. Advances /\ queue[1].fills \subseteq Settled'
    BY <1>0, <1>6, FillsAdvance
  <2>3. StreamHolds'
    BY <1>0, <1>1, <2>1, <2>2, StreamTaken DEF Advances, IsSignal
  <2>4. AnswersHold'
    BY <1>0, <1>1, <2>1, OpenedKept, AnswersTaken
  <2>5. KnownHolds'
    BY <1>0, <1>1, <2>1, <2>2, KnownTaken DEF Advances
  <2> QED BY <1>3, <2>2, <2>3, <2>4, <2>5 DEF Sound, Advances
<1>7. CASE F!HandleDropped
  <2>1. /\ queue[1].kind = "dropped" /\ queue[1].fills = {}
        /\ UNCHANGED <<gaps, pump, recorded, reconciled>>
    BY <1>1, <1>2, <1>7 DEF F!HandleDropped, F!Takes, F!session, FeedTyped, QueueTyped
  <2>2. Advances
    BY <1>0, <1>1, <2>1, FillsAreCounted, AsideAdvances DEF FeedTyped, CountsTyped
  <2>3. StreamHolds'
    BY <1>0, <1>1, <2>1, <2>2, StreamTaken DEF Advances, IsSignal
  <2>4. AnswersHold'
    BY <1>0, <1>1, <2>1, OpenedKept, AnswersTaken
  <2>5. KnownHolds'
    BY <1>0, <1>1, <2>1, <2>2, KnownTaken DEF Advances
  <2> QED BY <1>3, <2>2, <2>3, <2>4, <2>5 DEF Sound, Advances
<1> QED BY <1>4, <1>5, <1>6, <1>7 DEF F!Handle

(* The venue, the connection and the order *)
LEMMA SoundAside ==
  ASSUME FeedTyped, FeedTyped', Sound, F!Next, ParseFailures = FALSE, F!VenueFill \/ F!Connection \/ F!Place
  PROVE  Sound'
<1>0. GapsHold /\ WalkHolds /\ StreamHolds /\ KnownHolds /\ AnswersHold
  BY DEF Sound
<1>1. UNCHANGED <<recorded, gaps, reconciled>>
  BY DEF F!VenueFill, F!Connection, F!Break, F!AnnounceDown, F!Subscribed, F!Activate, F!Receive, F!session,
         F!Place, F!Stamp, F!ReadState, F!ReadFlag, F!Admit, F!Finish, F!Asks
<1>2. pump' \in {pump, [pump EXCEPT !.current = FALSE]}
  BY DEF F!VenueFill, F!Connection, F!Break, F!AnnounceDown, F!Subscribed, F!Activate, F!Receive, F!Send,
         F!Place, F!Stamp, F!ReadState, F!ReadFlag, F!Admit, F!Finish, F!Asks
<1>3. pump'.step = pump.step /\ pump'.todo = pump.todo /\ pump'.found = pump.found /\ pump'.outstanding = pump.outstanding
  BY <1>2 DEF FeedTyped, PumpTyped, F!Pump
<1>4. Advances
  BY <1>0, <1>1, <1>3, CountsNext, FillsAreCounted, AsideAdvances DEF CountsTyped
<1>5. Opened' = Opened
  BY <1>1, OpenedKept
<1>6. LinkHolds'
  BY LinkNext DEF Sound
<1>7. Settled \subseteq Settled' /\ recorded \subseteq recorded'
  BY <1>1, <1>4 DEF Advances
<1>8. CASE UNCHANGED <<queue, announced>>
  <2>1. AnswersHold'
    BY <1>0, <1>3, <1>5, <1>8, AnswersKept
  <2>2. CASE F!VenueFill
    <3>1. UNCHANGED <<noticed, received>>
      BY <2>2 DEF F!VenueFill, F!history
    <3> QED BY <1>0, <1>4, <1>6, <1>7, <1>8, <2>1, <2>2, <3>1, StreamMade, KnownKept DEF Sound, Advances
  <2>3. CASE F!Activate
    <3>1. UNCHANGED <<noticed, received>> /\ wire = <<>>
      BY <2>3 DEF F!Activate, F!history, Sound, LinkHolds
    <3> QED BY <1>0, <1>4, <1>6, <1>7, <1>8, <2>1, <2>3, <3>1, StreamActivated, KnownKept DEF Sound, Advances
  <2>4. CASE F!Break \/ F!Subscribed \/ F!Place
    <3>1. UNCHANGED <<noticed, received, fills, wire>>
      BY <2>4 DEF F!Break, F!Subscribed, F!Place, F!Stamp, F!ReadState, F!ReadFlag, F!Admit, F!Finish, F!Asks, F!socket, F!history
    <3>2. link' = link \/ link' # "up"
      BY <2>4 DEF F!Break, F!Subscribed, F!Place, F!Stamp, F!ReadState, F!ReadFlag, F!Admit, F!Finish, F!Asks, F!socket
    <3>3. base' = base
      <4>1. F!Subscribed => ~announced
        BY <1>8 DEF F!Subscribed, FeedTyped, FlagsTyped
      <4> QED BY <2>4, <4>1 DEF F!Break, F!Subscribed, F!Place, F!Stamp, F!ReadState, F!ReadFlag, F!Admit, F!Finish, F!Asks, F!socket
    <3>4. StreamHolds'
      BY <1>0, <1>7, <1>8, <3>1, <3>2, <3>3 DEF StreamHolds
    <3> QED BY <1>0, <1>4, <1>6, <1>7, <1>8, <2>1, <3>1, <3>4, KnownKept DEF Sound, Advances
  <2>5. ~F!AnnounceDown /\ ~F!Receive
    <3>1. F!AnnounceDown \/ F!Receive => \E e : queue' = Append(queue, e)
      BY DEF F!AnnounceDown, F!Receive, F!Send
    <3>2. ASSUME NEW e PROVE queue # Append(queue, e)
      <4>1. queue' = Append(queue, e) => Len(queue') = Len(queue) + 1 /\ Len(queue) \in Nat
        BY QueueGrows
      <4> QED BY <1>8, <4>1
    <3> QED BY <1>8, <3>1, <3>2
  <2> QED BY <2>2, <2>3, <2>4, <2>5 DEF F!Connection
<1>9. CASE F!AnnounceDown
  <2> DEFINE e == F!Signal("disconnected")
  <2>1. queue' = Append(queue, e) /\ noticed' = fills /\ received' = received
    BY <1>9 DEF F!AnnounceDown, F!Send
  <2>2. e.kind = "disconnected" /\ e.fills = {} /\ IsSignal(e)
    BY DEF F!Signal, IsSignal
  <2> HIDE DEF e
  <2>3. StreamHolds'
    BY <1>0, <1>7, <2>1, <2>2, StreamSignalled
  <2>4. AnswersHold'
    BY <1>0, <1>3, <1>5, <2>1, <2>2, AnswersSent
  <2>5. KnownHolds'
    BY <1>0, <1>7, <2>1, <2>2, KnownSent
  <2> QED BY <1>4, <1>6, <2>3, <2>4, <2>5 DEF Sound, Advances
<1>10. CASE F!Subscribed /\ announced
  <2> DEFINE e == F!Signal("reconnected")
  <2>1. queue' = Append(queue, e) /\ noticed' = noticed /\ received' = received /\ announced' = FALSE
    BY <1>10 DEF F!Subscribed, F!Send, F!history
  <2>2. e.kind = "reconnected" /\ e.fills = {} /\ IsSignal(e)
    BY DEF F!Signal, IsSignal
  <2> HIDE DEF e
  <2>3. StreamHolds'
    BY <1>0, <1>7, <2>1, <2>2, StreamSignalled
  <2>4. AnswersHold'
    BY <1>0, <1>3, <1>5, <1>10, <2>1, <2>2, AnswersSent
  <2>5. KnownHolds'
    BY <1>0, <1>7, <2>1, <2>2, KnownSent
  <2> QED BY <1>4, <1>6, <2>3, <2>4, <2>5 DEF Sound, Advances
<1>11. CASE F!Receive
  <2> DEFINE e == [kind |-> "fills", fills |-> wire[1]]
  <2>0. wire # <<>> /\ Head(wire) = wire[1]
    BY <1>11 DEF F!Receive, FeedTyped, WireTyped
  <2>1. /\ queue' = Append(queue, e) /\ noticed' = noticed /\ received' = received \cup wire[1]
        /\ wire' = Tail(wire) /\ UNCHANGED <<announced, fills, link, base>>
    BY <1>11, <2>0 DEF F!Receive, F!Send
  <2>2. e.kind = "fills" /\ e.fills = wire[1]
    OBVIOUS
  <2>3. StreamHolds'
    BY <1>0, <1>7, <2>0, <2>1, StreamReceived
  <2> HIDE DEF e
  <2>4. AnswersHold'
    BY <1>0, <1>3, <1>5, <2>1, <2>2, AnswersSent
  <2>5. KnownHolds'
    BY <1>0, <1>7, <2>1, <2>2, KnownSent
  <2> QED BY <1>4, <1>6, <2>3, <2>4, <2>5 DEF Sound, Advances
<1>12. F!VenueFill \/ F!Break \/ F!Activate \/ F!Place \/ (F!Subscribed /\ ~announced) => UNCHANGED <<queue, announced>>
  BY DEF F!VenueFill, F!Break, F!Activate, F!Subscribed, F!Place, F!Stamp, F!ReadState, F!ReadFlag, F!Admit, F!Finish, F!Asks, F!socket, FeedTyped, FlagsTyped
<1> QED BY <1>8, <1>9, <1>10, <1>11, <1>12 DEF F!Connection

(* A restart *)
LEMMA SoundRestart ==
  ASSUME FeedTyped, FeedTyped', Sound, F!Next, F!Restart
  PROVE  Sound'
<1>1. Advances /\ Settled' = 1..fills
  BY RestartAdvances DEF Sound
<1>2. queue' = <<>> /\ announced' = FALSE /\ fills' = fills /\ noticed' = fills /\ received' = received
  BY DEF F!Restart
<1>3. StreamHolds' /\ 1..noticed' \subseteq Settled'
  BY <1>1, <1>2, StreamFullNext
<1>4. AnswersHold'
  BY <1>2 DEF AnswersHold
<1>5. KnownHolds'
  BY <1>2, <1>3 DEF KnownHolds, FeedTyped, CountsTyped
<1>6. LinkHolds'
  BY LinkNext DEF Sound
<1> QED BY <1>1, <1>3, <1>4, <1>5, <1>6 DEF Sound, Advances

(* Without unreadable frames, and unless a failed session is started again *)
(* over the ledger it left, the session stays sound.                       *)
LEMMA SoundNext ==
  ASSUME ParseFailures = FALSE, TRUE \notin Restarts, FeedTyped, FeedTyped', FeedSound, F!Next
  PROVE  FeedSound'
<1> SUFFICES ASSUME ~failure' PROVE Sound'
  BY DEF FeedSound, Sound
<1>1. failure \in BOOLEAN /\ failure' \in BOOLEAN
  BY DEF FeedTyped, FlagsTyped
<1>2. failure' = FALSE
  BY <1>1
<1>3. F!Restart => failure # TRUE
  BY DEF F!Restart
<1>4. failure = FALSE
  BY <1>1, <1>2, <1>3, FailureFrame
<1>5. Sound
  BY <1>4 DEF FeedSound, Sound
<1> QED BY <1>2, <1>4, <1>5, SoundPump, SoundHandle, SoundAside, SoundRestart DEF F!Next

(* The feed starts sound. *)
LEMMA FeedInit == F!Init => FeedTyped /\ StampHolds /\ FeedSound
<1> SUFFICES ASSUME F!Init PROVE FeedTyped /\ StampHolds /\ FeedSound
  OBVIOUS
<1>1. FeedTyped
  BY TypedInit
<1>2. StampHolds
  BY DEF F!Init, F!OrderIdle, StampHolds
<1>3. /\ pump.step = "startup" /\ gaps = <<>> /\ queue = <<>> /\ wire = <<>> /\ recorded = {} /\ received = {}
      /\ reconciled = FALSE /\ announced = FALSE
  BY DEF F!Init, F!PumpIdle
<1>4. Settled = 1..fills
  BY <1>3 DEF Settled
<1>5. StreamHolds /\ KnownHolds
  BY <1>1, <1>3, <1>4, StreamFull DEF KnownHolds
<1>6. Undone = {}
  BY <1>3 DEF Undone, F!WorkList
<1>7. GapsHold /\ WalkHolds
  BY <1>3, <1>6 DEF GapsHold, RowsHold, WalkHolds, DownwardClosed, Undone
<1>8. AnswersHold /\ LinkHolds
  BY <1>3 DEF AnswersHold, LinkHolds
<1> QED BY <1>1, <1>2, <1>5, <1>7, <1>8 DEF FeedSound

(* The invariant looks at the feed only. *)
LEMMA FeedStutter ==
  UNCHANGED feedVars => /\ FeedTyped => FeedTyped'
                        /\ StampHolds => StampHolds'
                        /\ FeedSound => FeedSound'
<1> SUFFICES ASSUME UNCHANGED feedVars
             PROVE  /\ FeedTyped => FeedTyped'
                    /\ StampHolds => StampHolds'
                    /\ FeedSound => FeedSound'
  OBVIOUS
<1> USE DEF feedVars
<1>1. FeedTyped => FeedTyped'
  BY DEF FeedTyped, CountsTyped, FlagsTyped, WireTyped, QueueTyped, GapsTyped, PumpTyped, OrderTyped
<1>2. StampHolds => StampHolds'
  BY DEF StampHolds, F!Admits
<1>3. Settled' = Settled /\ Undone' = Undone /\ F!Working' = F!Working /\ Opened' = Opened
  BY DEF Settled, Undone, Opened, F!Working, F!Current
<1>4. GapsHold => GapsHold'
  BY DEF GapsHold, RowsHold, DownwardClosed
<1>5. WalkHolds => WalkHolds'
  BY <1>3 DEF WalkHolds, DownwardClosed
<1>6. AnswersHold => AnswersHold'
  BY <1>3, AnswersKept
<1>7. StreamHolds => StreamHolds'
  BY <1>3, StreamKept
<1>8. KnownHolds => KnownHolds'
  BY <1>3, KnownKept
<1>9. LinkHolds => LinkHolds'
  BY DEF LinkHolds
<1> QED BY <1>1, <1>2, <1>4, <1>5, <1>6, <1>7, <1>8, <1>9 DEF FeedSound

-----------------------------------------------------------------------------
(* Theorems *)

(* Types, and what a current stamp stands for, need no assumption on what  *)
(* fails or restarts.                                                      *)
THEOREM FeedTypes == Meters => [](FeedTyped /\ StampHolds)
<1>1. MetersInit => FeedTyped /\ StampHolds
  BY FeedInit DEF MetersInit
<1>2. FeedTyped /\ StampHolds /\ [MetersNext]_<<focus, vars, walkVars, feedVars>> => FeedTyped' /\ StampHolds'
  <2> SUFFICES ASSUME FeedTyped, StampHolds, [MetersNext]_<<focus, vars, walkVars, feedVars>>
               PROVE  FeedTyped' /\ StampHolds'
    OBVIOUS
  <2>1. F!Next \/ UNCHANGED feedVars
    BY DEF MetersNext
  <2> QED BY <2>1, TypedNext, StampNext, FeedStutter
<1> QED BY <1>1, <1>2, PTL DEF Meters

(* While the session would admit an order, the ledger holds every fill     *)
(* made before the last outage or start this program knows of and every    *)
(* fill that reached it (feed.rs, unreconciled; reconcile.rs), for any     *)
(* number of fills, outages, walks, faults and restarts.  Two conditions:  *)
(* every frame can be read, which the code does not ensure (feed.rs, the   *)
(* run feed_dropped_frame), and a failed session is not started again over *)
(* the ledger it went on writing to (pump.rs).                             *)
THEOREM LedgerCatchesUp ==
  ASSUME ParseFailures = FALSE, TRUE \notin Restarts
  PROVE  Meters => []CaughtUp
<1>1. MetersInit => FeedInv
  BY FeedInit DEF MetersInit, FeedInv
<1>2. FeedInv /\ [MetersNext]_<<focus, vars, walkVars, feedVars>> => FeedInv'
  <2> SUFFICES ASSUME FeedInv, [MetersNext]_<<focus, vars, walkVars, feedVars>> PROVE FeedInv'
    OBVIOUS
  <2>1. F!Next \/ UNCHANGED feedVars
    BY DEF MetersNext
  <2> QED BY <2>1, TypedNext, StampNext, SoundNext, FeedStutter DEF FeedInv
<1>3. FeedInv => CaughtUp
  <2> SUFFICES ASSUME FeedInv, F!Admits PROVE 1..noticed \cup received \subseteq recorded
    BY TypedIsTypeOK DEF FeedInv, CaughtUp, F!CaughtUp
  <2>1. reconciled /\ ~failure /\ queue = <<>> /\ pump.step = "idle"
    BY DEF F!Admits, FeedInv, FeedTyped, PumpTyped
  <2>2. Undone = {} /\ KnownHolds
    BY <2>1 DEF FeedInv, FeedSound, WalkHolds
  <2>3. Settled = recorded
    BY <2>1, <2>2 DEF Settled
  <2>4. Len(queue) = 0 /\ Queued(queue, 0) = {}
    BY <2>1 DEF Queued
  <2>5. \A k \in 1..Len(queue) : queue[k].kind # "disconnected"
    BY <2>4
  <2>6. 1..noticed \subseteq recorded
    BY <2>2, <2>3, <2>5 DEF KnownHolds
  <2>7. received \subseteq 1..noticed \cup recorded
    BY <2>2, <2>4 DEF KnownHolds
  <2> QED BY <2>6, <2>7
<1> QED BY <1>1, <1>2, <1>3, PTL DEF Meters

(* An order whose stamp was taken while the account was caught up is       *)
(* admitted only with an account state at least as new as every fill in    *)
(* the ledger: whatever arrives or is walked again between the stamp and   *)
(* the signature outdates it (feed.rs: stamp, admit), whatever fails, is   *)
(* unreadable or restarts.                                                 *)
THEOREM AdmissionsCoverLedger == Meters => AdmittedStateCoversLedger
<1>1. FeedTyped /\ StampHolds /\ [MetersNext]_<<focus, vars, walkVars, feedVars>>
        => [focus = "feed" => F!AdmissionCoversLedger]_order
  <2> SUFFICES ASSUME FeedTyped, StampHolds, [MetersNext]_<<focus, vars, walkVars, feedVars>>, order' # order
               PROVE  F!AdmissionCoversLedger
    OBVIOUS
  <2>1. F!Next
    BY DEF MetersNext, feedVars
  <2>2. SUFFICES ASSUME order.step # "admitted", order'.step = "admitted", order.calm PROVE recorded \subseteq 1..order.snapshot
    BY DEF F!AdmissionCoversLedger
  <2>3. F!Place
    <3>1. F!Place \/ order' \in {order, [order EXCEPT !.current = FALSE], F!OrderIdle}
      BY <2>1, OrderFrame DEF F!AnnounceDown, F!Subscribed, F!Receive, F!Send, F!CatchUp, F!BeginReconcile,
           F!HandleDisconnected, F!HandleReconnected, F!HandleFills, F!Retry, F!WalkFault, F!Restart
    <3> QED BY <2>2, <3>1 DEF F!OrderIdle, FeedTyped, OrderTyped, F!Order
  <2>4. F!Admit /\ order.step = "ready" /\ order.current
    <3>1. order \in F!Order /\ F!OrderIdle.step = "idle"
      BY DEF FeedTyped, OrderTyped, F!OrderIdle
    <3>2. ~F!Stamp /\ ~F!ReadState
      <4>1. F!Stamp => order'.step = "stamped"
        BY <3>1 DEF F!Stamp, F!Asks, F!Order
      <4>2. F!ReadState => order'.step = "read"
        BY <3>1 DEF F!ReadState, F!Asks, F!Order
      <4> QED BY <2>2, <4>1, <4>2
    <3>3. ~F!ReadFlag
      BY <2>2, <3>1 DEF F!ReadFlag, F!Asks, F!Order
    <3>4. ~F!Finish
      BY <2>2, <3>1 DEF F!Finish, F!Asks
    <3>5. F!Admit
      BY <2>3, <3>2, <3>3, <3>4 DEF F!Place
    <3>6. order.current
      BY <2>2, <3>1, <3>5 DEF F!Admit, F!Asks
    <3> QED BY <3>5, <3>6 DEF F!Admit
  <2> QED BY <2>2, <2>4 DEF StampHolds
<1> QED BY <1>1, FeedTypes, PTL DEF Meters, AdmittedStateCoversLedger

-----------------------------------------------------------------------------
(* The walk that reads the venue's fills page by page: one that returns     *)
(* rows returns all of them, and one that gives up does so for the reason   *)
(* it states, for every set of fills, page size and page budget.            *)

\* Everything the venue booked before the cursor is in hand, nothing can be
\* booked behind the cursor any more, and a finished walk is complete.
WalkInductive ==
    /\ WalkTypeOK
    /\ \A f \in made : time[f] <= clock
    /\ cursor >= Start
    /\ cursor = Start \/ cursor <= clock
    /\ result = "walking" =>
           \A f \in made : Start <= time[f] /\ time[f] < cursor => f \in out
    /\ WalkIsComplete

\* The walk starts with nothing behind its cursor.
LEMMA WalkInductiveInit == WalkInit => WalkInductive
BY BackfillAssumption DEF WalkInit, WalkInductive, WalkTypeOK, WalkIsComplete, Stamps

\* The venue books at its own clock, which has reached the cursor.
LEMMA BookKeeps ==
    ASSUME WalkInductive, NEW f \in Trades, Book(f)
    PROVE  WalkInductive'
BY BackfillAssumption DEF WalkInductive, WalkTypeOK, WalkIsComplete, Stamps, Book

\* A short page holds every row from the cursor on; a full one holds every
\* row before its newest millisecond.
LEMMA ReadPageKeeps ==
    ASSUME WalkInductive, NEW page \in SUBSET made, NEW newest \in Stamps \cup {cursor},
           ReadPage(page, newest)
    PROVE  WalkInductive'
<1> USE BackfillAssumption
<1>1. Cardinality(page) \in Nat
  BY FS_Subset, FS_CardinalityType DEF WalkInductive, WalkTypeOK
<1>2. /\ page \subseteq made
      /\ \A f \in page : time[f] >= cursor
      /\ \A f \in page, g \in made \ page : time[g] >= cursor => time[f] <= time[g]
  BY DEF ReadPage, PageOf, Rows
<1>3. EndsWalk(page) => \A g \in made : time[g] >= cursor => g \in page
  BY <1>1 DEF ReadPage, PageOf, Rows, EndsWalk
<1>4. /\ newest = cursor \/ \E f \in page : time[f] = newest
      /\ newest >= cursor
  BY DEF ReadPage, IsNewest
<1>5. newest \in Nat /\ (newest = cursor \/ newest <= clock)
  BY <1>2, <1>4 DEF WalkInductive, WalkTypeOK, Stamps
<1>6. WalkTypeOK'
  <2>1. pages' \in 0 .. MaxPages
    BY DEF ReadPage, BudgetSpent, WalkInductive, WalkTypeOK
  <2>2. cursor' \in Nat /\ result' \in {"walking", "done", "page_stalled",
                                        "too_many_pages", "venue_error"}
    BY <1>5 DEF ReadPage, NextCursor, WalkInductive, WalkTypeOK
  <2> QED
    BY <1>2, <2>1, <2>2 DEF ReadPage, venue, WalkInductive, WalkTypeOK
<1>7. (\A f \in made : time[f] <= clock)'
  BY DEF ReadPage, venue, WalkInductive
<1>8. cursor' >= Start /\ (cursor' = Start \/ cursor' <= clock')
  BY <1>4, <1>5 DEF ReadPage, NextCursor, venue, WalkInductive, WalkTypeOK, Stamps
<1>9. (result = "walking" =>
          \A f \in made : Start <= time[f] /\ time[f] < cursor => f \in out)'
  <2> SUFFICES ASSUME result' = "walking", NEW g \in made,
                      Start <= time[g], time[g] < newest
               PROVE  g \in out \cup page
    BY DEF ReadPage, NextCursor, venue
  <2>1. CASE time[g] < cursor
    BY <2>1 DEF ReadPage, WalkInductive
  <2>2. CASE time[g] >= cursor
    <3>1. PICK f \in page : time[f] = newest
      BY <1>4, <2>2 DEF WalkInductive, WalkTypeOK, Stamps
    <3> QED
      BY <1>2, <2>2, <3>1 DEF WalkInductive, WalkTypeOK, Stamps
  <2> QED
    BY <2>1, <2>2 DEF WalkInductive, WalkTypeOK, Stamps
<1>10. WalkIsComplete'
  <2> SUFFICES ASSUME result' = "done", NEW g \in made, time[g] >= Start
               PROVE  g \in out \cup page
    BY DEF WalkIsComplete, ReadPage, venue
  <2>1. EndsWalk(page)
    BY DEF ReadPage
  <2>2. CASE time[g] < cursor
    BY <2>2 DEF ReadPage, WalkInductive
  <2>3. CASE time[g] >= cursor
    BY <1>3, <2>1, <2>3
  <2> QED
    BY <2>2, <2>3 DEF WalkInductive, WalkTypeOK, Stamps
<1> QED
  BY <1>6, <1>7, <1>8, <1>9, <1>10 DEF WalkInductive

\* Every step of the walk and of the venue keeps the invariant.
LEMMA WalkInductiveNext == WalkInductive /\ [WalkNext]_walkVars => WalkInductive'
<1> SUFFICES ASSUME WalkInductive, [WalkNext]_walkVars PROVE WalkInductive'
  OBVIOUS
<1> USE BackfillAssumption DEF WalkInductive, WalkTypeOK, WalkIsComplete, Stamps
<1>1. CASE \E f \in Trades : Book(f)
  BY <1>1, BookKeeps
<1>2. CASE Tick
  BY <1>2 DEF Tick
<1>3. CASE TooManyPages
  BY <1>3 DEF TooManyPages
<1>4. CASE \E page \in SUBSET made, newest \in Stamps \cup {cursor} : ReadPage(page, newest)
  <2> HIDE DEF WalkInductive, WalkTypeOK, WalkIsComplete, Stamps
  <2> QED
    BY <1>4, ReadPageKeeps
<1>5. CASE VenueError
  BY <1>5 DEF VenueError
<1>6. CASE WalkAgain
  BY <1>6 DEF WalkAgain, venue
<1>7. CASE UNCHANGED walkVars
  BY <1>7 DEF walkVars
<1> QED
  BY <1>1, <1>2, <1>3, <1>4, <1>5, <1>6, <1>7 DEF WalkNext

\* No fill is missing from a finished walk (WalkIsComplete): what
\* backfill_fills returns holds every fill at or after start_ms the venue had
\* booked when it answered the last page.
THEOREM WalkComplete == WalkSpec => []WalkIsComplete
<1>1. WalkInductive => WalkIsComplete
  BY DEF WalkInductive
<1> QED
  BY <1>1, WalkInductiveInit, WalkInductiveNext, PTL DEF WalkSpec

-----------------------------------------------------------------------------
(* Why a walk that gives up does so for the reason it states.              *)

\* The rows in hand are not newer than the cursor, so every page that moved
\* the cursor brought a row the walk did not have.
WalkProgress ==
    /\ result = "walking" =>
          /\ \A f \in out : time[f] <= cursor
          /\ pages # 0 => Cardinality(out) >= PageLimit + pages - 1
    /\ StallIsReal
    /\ BudgetBuysRows

\* What is in hand can be counted.
LEMMA OutIsFinite ==
    ASSUME WalkTypeOK, NEW S \in SUBSET made
    PROVE  IsFiniteSet(S) /\ Cardinality(S) \in Nat
BY BackfillAssumption, FS_Subset, FS_CardinalityType DEF WalkTypeOK

\* A walk starts with nothing in hand and no page read.
LEMMA WalkProgressInit == WalkInit => WalkProgress
BY DEF WalkInit, WalkProgress, StallIsReal, BudgetBuysRows

\* The venue stamps a fill when it books it and never again.
LEMMA BookProgress ==
    ASSUME WalkInductive, WalkProgress, NEW f \in Trades, Book(f)
    PROVE  WalkProgress'
<1>1. /\ out \subseteq made /\ time \in [Trades -> Stamps] /\ made \subseteq Trades
  BY DEF WalkInductive, WalkTypeOK
<1>2. \A g \in out : time'[g] = time[g]
  BY <1>1 DEF Book
<1>3. {g \in out' : time'[g] = cursor'} = {g \in out : time[g] = cursor}
  BY <1>2 DEF Book
<1>4. StallIsReal'
  BY <1>3 DEF WalkProgress, StallIsReal, Book
<1> QED
  BY <1>2, <1>4 DEF WalkProgress, BudgetBuysRows, Book

\* A full page within the cursor's millisecond stalls the walk; one that goes
\* on has a row past every row in hand.
LEMMA ReadPageProgress ==
    ASSUME WalkInductive, WalkProgress, NEW page \in SUBSET made, NEW newest \in Stamps \cup {cursor},
           ReadPage(page, newest)
    PROVE  WalkProgress'
<1> USE BackfillAssumption
<1>0. /\ WalkTypeOK /\ out \in SUBSET made /\ cursor \in Nat /\ pages \in Nat
      /\ time \in [Trades -> Stamps] /\ made \subseteq Trades
      /\ \A g \in made : time[g] \in Nat
  BY DEF WalkInductive, WalkTypeOK, Stamps
<1>1. /\ result = "walking" /\ out' = out \cup page /\ pages' = pages + 1 /\ time' = time
      /\ \A g \in page : time[g] >= cursor /\ time[g] <= newest
      /\ newest >= cursor /\ newest \in Nat
      /\ newest = cursor \/ \E g \in page : time[g] = newest
  BY <1>0 DEF ReadPage, PageOf, Rows, IsNewest, venue, Stamps
<1>2. /\ IsFiniteSet(page) /\ Cardinality(page) \in Nat
      /\ IsFiniteSet(out) /\ Cardinality(out) \in Nat
      /\ IsFiniteSet(out') /\ Cardinality(out') \in Nat
  <2>1. out' \in SUBSET made
    BY <1>0, <1>1
  <2> QED
    BY <1>0, <2>1, OutIsFinite
<1>3. CASE result' = "done"
  BY <1>3 DEF WalkProgress, StallIsReal, BudgetBuysRows
<1>4. CASE result' = "page_stalled"
  <2>1. ~EndsWalk(page) /\ newest <= cursor /\ cursor' = cursor
    BY <1>1, <1>4 DEF ReadPage, Stalled
  <2>2. Cardinality(page) >= PageLimit
    BY <1>2, <2>1 DEF EndsWalk
  <2>3. \A g \in page : time[g] = cursor
    BY <1>0, <1>1, <2>1
  <2> DEFINE S == {g \in out' : time'[g] = cursor'}
  <2>4. page \in SUBSET S /\ S \in SUBSET out'
    BY <1>1, <2>1, <2>3
  <2>5. IsFiniteSet(S) /\ Cardinality(S) \in Nat
    <3> HIDE DEF S
    <3> QED BY <1>2, <2>4, FS_Subset, FS_CardinalityType
  <2>6. Cardinality(page) <= Cardinality(S)
    <3> HIDE DEF S
    <3> QED BY <2>4, <2>5, FS_Subset
  <2>7. Cardinality(S) >= PageLimit
    <3> HIDE DEF S
    <3> QED BY <1>2, <2>2, <2>5, <2>6
  <2> QED
    BY <1>4, <2>7 DEF WalkProgress, StallIsReal, BudgetBuysRows
<1>5. CASE result' = "walking"
  <2>1. ~EndsWalk(page) /\ newest > cursor /\ cursor' = newest
    BY <1>0, <1>1, <1>5 DEF ReadPage, Stalled, NextCursor
  <2>2. \A g \in out' : time'[g] <= cursor'
    BY <1>0, <1>1, <2>1 DEF WalkProgress
  <2>3. Cardinality(out') >= PageLimit + pages' - 1
    <3>1. CASE pages = 0
      <4>1. Cardinality(page) >= PageLimit
        BY <1>2, <2>1 DEF EndsWalk
      <4>2. page \in SUBSET out'
        BY <1>1
      <4>3. Cardinality(page) <= Cardinality(out')
        BY <4>2, <1>2, FS_Subset
      <4> QED
        BY <3>1, <4>1, <4>3, <1>1, <1>2
    <3>2. CASE pages # 0
      <4>1. PICK g \in page : time[g] = newest
        BY <1>0, <1>1, <2>1
      <4>2. g \notin out
        BY <1>0, <1>1, <2>1, <4>1 DEF WalkProgress
      <4>3. Cardinality(out \cup {g}) = Cardinality(out) + 1 /\ IsFiniteSet(out \cup {g})
        BY <1>2, <4>2, FS_AddElement
      <4>4. out \cup {g} \in SUBSET out'
        BY <1>1
      <4>5. Cardinality(out \cup {g}) <= Cardinality(out')
        BY <4>4, <1>2, FS_Subset
      <4>6. Cardinality(out) >= PageLimit + pages - 1
        BY <1>1, <3>2 DEF WalkProgress
      <4> QED
        BY <4>3, <4>5, <4>6, <1>0, <1>1, <1>2
    <3> QED
      BY <3>1, <3>2
  <2> QED
    BY <1>5, <2>2, <2>3 DEF WalkProgress, StallIsReal, BudgetBuysRows
<1> QED
  BY <1>1, <1>3, <1>4, <1>5 DEF ReadPage

\* Every other step leaves the rows in hand alone or begins again.
LEMMA WalkProgressNext == WalkInductive /\ WalkProgress /\ [WalkNext]_walkVars => WalkProgress'
<1> SUFFICES ASSUME WalkInductive, WalkProgress, [WalkNext]_walkVars PROVE WalkProgress'
  OBVIOUS
<1>1. CASE \E f \in Trades : Book(f)
  BY <1>1, BookProgress
<1>2. CASE Tick
  BY <1>2 DEF Tick, WalkProgress, StallIsReal, BudgetBuysRows
<1>3. CASE TooManyPages
  <2>1. pages >= MaxPages /\ pages \in 0 .. MaxPages /\ MaxPages \in Nat \ {0}
    BY <1>3, BackfillAssumption DEF TooManyPages, BudgetSpent, WalkInductive, WalkTypeOK
  <2>2. pages = MaxPages /\ pages # 0
    BY <2>1
  <2>3. Cardinality(out) >= PageLimit + MaxPages - 1
    BY <1>3, <2>2 DEF TooManyPages, WalkProgress
  <2> QED
    BY <1>3, <2>3 DEF TooManyPages, WalkProgress, StallIsReal, BudgetBuysRows
<1>4. CASE \E page \in SUBSET made, newest \in Stamps \cup {cursor} : ReadPage(page, newest)
  BY <1>4, ReadPageProgress
<1>5. CASE VenueError
  BY <1>5 DEF VenueError, WalkProgress, StallIsReal, BudgetBuysRows
<1>6. CASE WalkAgain
  BY <1>6 DEF WalkAgain, WalkProgress, StallIsReal, BudgetBuysRows
<1>7. CASE UNCHANGED walkVars
  BY <1>7 DEF walkVars, WalkProgress, StallIsReal, BudgetBuysRows
<1> QED
  BY <1>1, <1>2, <1>3, <1>4, <1>5, <1>6, <1>7 DEF WalkNext

\* backfill_fills reports PageStalled only where a whole page of fills shares
\* a millisecond, and TooManyPages only when every page after the first full
\* one brought a fill the walk did not have (GivesUpForCause).
THEOREM WalkGivesUpForCause == WalkSpec => []GivesUpForCause
<1>1. WalkInductive /\ WalkProgress => GivesUpForCause
  BY DEF WalkInductive, WalkProgress, GivesUpForCause
<1> QED
  BY <1>1, WalkInductiveInit, WalkInductiveNext, WalkProgressInit, WalkProgressNext, PTL DEF WalkSpec
=============================================================================
