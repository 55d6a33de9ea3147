------------------------------- MODULE Sockets -------------------------------
(***************************************************************************)
(* The WebSocket pool of oppen-hl (ws.rs): subscriptions placed on a few   *)
(* sockets, each owned by a task that connects, re-sends what the registry *)
(* says, pumps frames, and reconnects; and the quarantine that stops a     *)
(* subscription the venue refuses, by closing the socket, from taking the  *)
(* other feeds down with it for ever.                                      *)
(*                                                                         *)
(* Subscriptions are integers in key order.  A frame we send is processed  *)
(* by the venue at once; what the venue sends waits on the wire.  Delaying *)
(* the former as well would add nothing a client can tell apart, because   *)
(* the venue reacts only through the wire.  Waits (back-off, ping, idle,   *)
(* quarantine) may elapse at any time.                                     *)
(***************************************************************************)
EXTENDS Integers, Sequences, FiniteSets

CONSTANTS Subs,            \* subscriptions, integers in key order
          Exclusive,       \* orderUpdates: at most one per socket
          Poison,          \* those the venue refuses by closing the socket
          MaxConns, MaxPerConn,
          QuarantineAfter,
          MaxCalls,        \* bound: subscribe, unsubscribe, clear calls
          MaxDrops,        \* bound: drops, failed sends of the network and the frames below
          MaxFrames        \* bound: orderUpdates frames the venue sends

Conns == 1..MaxConns
NoConn == 0

VARIABLES entry,     \* [Subs -> the registry's SubEntry and the slot holding it]
          conn,      \* [Conns -> the connection task and its socket]
          shutdown,  \* PoolInner.shutdown
          told,      \* [Conns -> the last outage event the consumer got]
          missed,    \* lost service; no event (reconnect, quarantine) has told of it yet
          credited,  \* <<account of an orderUpdates frame, account it was credited to>>
          amended,   \* history: calls that changed a socket's subscriptions during its session
          calls, drops, frames

vars == <<entry, conn, shutdown, told, missed, credited, amended, calls, drops, frames>>

NewEntry(c) == [conn |-> c, acked |-> FALSE, strikes |-> 0, quarantine |-> "none"]

NewConn == [phase |-> "connecting", connected |-> FALSE, announcedDown |-> FALSE,
            proved |-> FALSE, burst |-> {}, resubscribed |-> {},
            cmds |-> <<>>, venue |-> {}, wire |-> <<>>]

Opened == {c \in Conns : conn[c].phase # "none"}
Held(c) == {s \in Subs : entry[s].conn = c}
Registered == {s \in Subs : entry[s].conn # NoConn}
First(S) == CHOOSE s \in S : \A t \in S : s <= t

(* place: the first slot with room, which for an exclusive subscription holds *)
(* no other exclusive one.                                                    *)
Room(c, s) == /\ Cardinality(Held(c)) < MaxPerConn
              /\ s \in Exclusive => Held(c) \cap Exclusive = {}

Slots(s) == {c \in Opened : Room(c, s)}

Init ==
    /\ entry = [s \in Subs |-> NewEntry(NoConn)]
    /\ conn = [c \in Conns |-> [NewConn EXCEPT !.phase = "none"]]
    /\ shutdown = FALSE
    /\ told = [c \in Conns |-> "none"]
    /\ missed = {} /\ credited = {}
    /\ amended = 0 /\ calls = 0 /\ drops = 0 /\ frames = 0

-----------------------------------------------------------------------------
(* The pool's calls.  A command is queued for the socket's task under the  *)
(* lock the registry changed under.                                        *)

Call == ~shutdown /\ calls < MaxCalls /\ calls' = calls + 1

InSession(c) == conn[c].phase \in {"bursting", "up"}

Queue(c, cmd, s) ==
    /\ conn' = [conn EXCEPT ![c].cmds = Append(@, [cmd |-> cmd, sub |-> s])]
    /\ amended' = IF InSession(c) THEN amended + 1 ELSE amended

(* subscribe_to; a capacity refusal changes nothing *)
SubscribeTo(s) ==
    /\ Call
    /\ s \notin Registered
    /\ \/ /\ Slots(s) # {}
          /\ LET c == First(Slots(s))
             IN  entry' = [entry EXCEPT ![s] = NewEntry(c)] /\ Queue(c, "subscribe", s)
       \/ /\ Slots(s) = {}
          /\ Cardinality(Opened) < MaxConns
          /\ LET c == Cardinality(Opened) + 1
             IN  /\ entry' = [entry EXCEPT ![s] = NewEntry(c)]
                 /\ conn' = [conn EXCEPT ![c] = NewConn]
          /\ UNCHANGED amended
    /\ UNCHANGED <<shutdown, told, missed, credited, drops, frames>>

Unsubscribe(s) ==
    /\ Call
    /\ s \in Registered
    /\ entry' = [entry EXCEPT ![s] = NewEntry(NoConn)]
    /\ Queue(entry[s].conn, "unsubscribe", s)
    /\ missed' = missed \ {s}
    /\ UNCHANGED <<shutdown, told, credited, drops, frames>>

ClearQuarantine(s) ==
    /\ Call
    /\ s \in Registered
    /\ entry' = [entry EXCEPT ![s].quarantine = "none", ![s].strikes = 0]
    /\ Queue(entry[s].conn, "subscribe", s)
    /\ UNCHANGED <<shutdown, told, missed, credited, drops, frames>>

(* Aborting a task takes effect at its next await: an ack it has read may  *)
(* still be recorded (see LateAck).                                        *)
Shutdown ==
    /\ ~shutdown
    /\ shutdown' = TRUE
    /\ conn' = [c \in Conns |-> IF c \in Opened
                                THEN [conn[c] EXCEPT !.phase = IF @ = "up" THEN "aborting" ELSE "closed",
                                                     !.connected = FALSE]
                                ELSE conn[c]]
    /\ entry' = [s \in Subs |-> [entry[s] EXCEPT !.acked = FALSE]]
    /\ UNCHANGED <<told, missed, credited, amended, calls, drops, frames>>

-----------------------------------------------------------------------------
(* The connection task *)

QuarantinedNow(s) == entry[s].quarantine = "active"

(* A quarantine's wait elapses; it stays in the entry until a ping tick.   *)
Lapse(s) ==
    /\ entry[s].quarantine = "active"
    /\ entry' = [entry EXCEPT ![s].quarantine = "lapsed"]
    /\ UNCHANGED <<conn, shutdown, told, missed, credited, amended, calls, drops, frames>>

(* set_connected: either way every ack of the socket is forgotten *)
AcksCleared(e, c) == [s \in Subs |-> IF e[s].conn = c THEN [e[s] EXCEPT !.acked = FALSE] ELSE e[s]]

ResubscribeSet(c) == {s \in Held(c) : ~QuarantinedNow(s)}

Connect(c) ==
    /\ conn[c].phase = "connecting" /\ ~shutdown
    /\ entry' = AcksCleared(entry, c)
    /\ conn' = [conn EXCEPT ![c] = [@ EXCEPT !.phase = "bursting", !.connected = TRUE,
                                             !.proved = FALSE, !.venue = {}, !.wire = <<>>,
                                             !.burst = ResubscribeSet(c),
                                             !.resubscribed = ResubscribeSet(c)]]
    /\ UNCHANGED <<shutdown, told, missed, credited, amended, calls, drops, frames>>

(* What the venue does with a frame of ours: refuse it by closing, or serve *)
(* it and say so.                                                           *)
Closing(k) == \E i \in DOMAIN k.wire : k.wire[i].kind = "close"

Sent(k, cmd, s) ==
    LET Says(kind) == Append(k.wire, [kind |-> kind, sub |-> s])
    IN  IF Closing(k) THEN k
        ELSE IF cmd = "unsubscribe" THEN [k EXCEPT !.venue = @ \ {s}]
        ELSE IF s \in Poison THEN [k EXCEPT !.wire = Says("close")]
        ELSE [k EXCEPT !.venue = @ \cup {s}, !.wire = Says("ack")]

(* One frame of a burst, or of what a ping tick revived, in key order. *)
SendBurst(c) ==
    /\ InSession(c) /\ conn[c].burst # {}
    /\ LET s == First(conn[c].burst)
       IN  conn' = [conn EXCEPT ![c] = [Sent(@, "subscribe", s) EXCEPT !.burst = conn[c].burst \ {s}]]
    /\ UNCHANGED <<entry, shutdown, told, missed, credited, amended, calls, drops, frames>>

(* The Subscribed turn: a reconnect is reported only after an outage was. *)
Subscribed_Drains(c) ==
    /\ conn[c].phase = "bursting" /\ conn[c].burst = {}
    /\ conn' = [conn EXCEPT ![c].phase = "up", ![c].announcedDown = FALSE, ![c].cmds = <<>>]
    /\ told' = [told EXCEPT ![c] = IF conn[c].announcedDown THEN "up" ELSE @]
    /\ missed' = missed \ conn[c].resubscribed
    /\ UNCHANGED <<entry, shutdown, credited, amended, calls, drops, frames>>
Subscribed_WhenComplete(c) ==
    /\ conn[c].phase = "bursting" /\ conn[c].burst = {}
    /\ conn' = [conn EXCEPT ![c].phase = "up", ![c].announcedDown = FALSE]
    /\ IF conn[c].announcedDown /\ conn[c].resubscribed = Held(c)
       THEN told' = [told EXCEPT ![c] = "up"] /\ missed' = missed \ conn[c].resubscribed
       ELSE UNCHANGED <<told, missed>>
    /\ UNCHANGED <<entry, shutdown, credited, amended, calls, drops, frames>>
Subscribed(c) ==
    /\ conn[c].phase = "bursting" /\ conn[c].burst = {}
    /\ conn' = [conn EXCEPT ![c].phase = "up", ![c].announcedDown = FALSE]
    /\ IF conn[c].announcedDown
       THEN /\ told' = [told EXCEPT ![c] = "up"]
            /\ missed' = missed \ conn[c].resubscribed
       ELSE UNCHANGED <<told, missed>>
    /\ UNCHANGED <<entry, shutdown, credited, amended, calls, drops, frames>>

(* record_failed_session: the first unacknowledged subscription in key     *)
(* order takes the strike.                                                 *)
Suspects(c) == {s \in Held(c) : ~entry[s].acked /\ ~QuarantinedNow(s)}

StrikeOn(e, s) ==
    LET n == e[s].strikes + 1
    IN  [e EXCEPT ![s].strikes = IF n > QuarantineAfter THEN QuarantineAfter ELSE n,
                  ![s].quarantine = IF n >= QuarantineAfter THEN "active" ELSE @]

Struck_Last(e, suspects) ==
    IF suspects = {} THEN e ELSE StrikeOn(e, CHOOSE s \in suspects : \A t \in suspects : s >= t)
Struck(e, suspects) == IF suspects = {} THEN e ELSE StrikeOn(e, First(suspects))

Dead(k) == [k EXCEPT !.phase = "backoff", !.venue = {}, !.wire = <<>>, !.burst = {}]

(* announce_down and report_disconnect: the first turn of an outage reads  *)
(* the acks, charges a suspect if the session died in its grace, and only  *)
(* then clears them.  Later turns of the outage change nothing.            *)
ReportDown(c, strike) ==
    /\ IF conn[c].announcedDown
       THEN conn' = [conn EXCEPT ![c] = Dead(@)] /\ UNCHANGED <<entry, told>>
       ELSE /\ conn' = [conn EXCEPT ![c] = [Dead(@) EXCEPT !.announcedDown = TRUE, !.connected = FALSE]]
            /\ told' = [told EXCEPT ![c] = "down"]
            /\ entry' = AcksCleared(IF strike THEN Struck(entry, Suspects(c)) ELSE entry, c)
    /\ missed' = {s \in missed \cup (conn[c].venue \cap Held(c)) : entry'[s].quarantine # "active"}

(* Failures that are ours: a failed connect, a frame of the burst unsent *)
ConnectFails(c) ==
    /\ conn[c].phase \in {"connecting", "bursting"}
    /\ drops + frames < MaxDrops /\ drops' = drops + 1
    /\ ReportDown(c, FALSE)
    /\ UNCHANGED <<shutdown, credited, amended, calls, frames>>

(* The network drops a live session, or it goes idle *)
Drop(c) ==
    /\ conn[c].phase = "up"
    /\ drops + frames < MaxDrops /\ drops' = drops + 1
    /\ ReportDown(c, ~conn[c].proved)
    /\ UNCHANGED <<shutdown, credited, amended, calls, frames>>

(* The back-off's sleep ends, or one command ends it and is discarded: the *)
(* burst will say what the registry says by then.                          *)
BackoffEnds(c) ==
    /\ conn[c].phase = "backoff"
    /\ \/ conn' = [conn EXCEPT ![c].phase = "connecting"]
       \/ /\ conn[c].cmds # <<>>
          /\ conn' = [conn EXCEPT ![c].phase = "connecting", ![c].cmds = Tail(@)]
    /\ UNCHANGED <<entry, shutdown, told, missed, credited, amended, calls, drops, frames>>

(* The session outlives its grace; a refusal arrives well within it. *)
Prove(c) ==
    /\ conn[c].phase = "up" /\ ~conn[c].proved /\ ~Closing(conn[c])
    /\ conn' = [conn EXCEPT ![c].proved = TRUE]
    /\ UNCHANGED <<entry, shutdown, told, missed, credited, amended, calls, drops, frames>>

(* session: a turn of its loop; queued commands go before anything else. *)
Reading(c) == conn[c].phase = "up" /\ conn[c].burst = {}

Command(c) ==
    /\ Reading(c) /\ conn[c].cmds # <<>>
    /\ LET k == conn[c].cmds[1]
       IN  conn' = [conn EXCEPT ![c] = [Sent(@, k.cmd, k.sub) EXCEPT !.cmds = Tail(conn[c].cmds)]]
    /\ UNCHANGED <<entry, shutdown, told, missed, credited, amended, calls, drops, frames>>

(* The ping tick takes the lapsed quarantines and re-sends them; the pool  *)
(* may be called between the frames.                                       *)
LapsedOf(c) == {s \in Held(c) : entry[s].quarantine = "lapsed"}

PingTick(c) ==
    /\ Reading(c) /\ conn[c].cmds = <<>> /\ LapsedOf(c) # {}
    /\ entry' = [s \in Subs |-> IF s \in LapsedOf(c) THEN [entry[s] EXCEPT !.quarantine = "none"] ELSE entry[s]]
    /\ conn' = [conn EXCEPT ![c].burst = LapsedOf(c)]
    /\ UNCHANGED <<shutdown, told, missed, credited, amended, calls, drops, frames>>

(* The venue pushes an orderUpdates frame: it names no account. *)
VenueSends(c, s) ==
    /\ frames < MaxFrames /\ drops + frames < MaxDrops /\ frames' = frames + 1
    /\ conn[c].phase \in {"bursting", "up"} /\ s \in conn[c].venue \cap Exclusive /\ ~Closing(conn[c])
    /\ conn' = [conn EXCEPT ![c].wire = Append(@, [kind |-> "data", sub |-> s])]
    /\ UNCHANGED <<entry, shutdown, told, missed, credited, amended, calls, drops>>

Acked(e) == [e EXCEPT !.acked = TRUE, !.strikes = 0]

Recorded(c, s) == IF entry[s].conn = c THEN [entry EXCEPT ![s] = Acked(@)] ELSE entry

(* handle_text: an ack, or an orderUpdates frame credited to the account   *)
(* the registry holds on the socket now; with none it is dropped.          *)
HandleText(c) ==
    /\ Reading(c) /\ conn[c].cmds = <<>> /\ conn[c].wire # <<>>
    /\ LET frame == conn[c].wire[1]
       IN  \/ /\ frame.kind = "ack"
              /\ entry' = Recorded(c, frame.sub)
              /\ UNCHANGED credited
           \/ /\ frame.kind = "data"
              /\ credited' = credited \cup {<<frame.sub, u>> : u \in Held(c) \cap Exclusive}
              /\ UNCHANGED entry
    /\ conn' = [conn EXCEPT ![c].wire = Tail(@)]
    /\ UNCHANGED <<shutdown, told, missed, amended, calls, drops, frames>>

(* The venue's close ends the session. *)
ServerCloses(c) ==
    /\ Reading(c) /\ conn[c].cmds = <<>> /\ conn[c].wire # <<>>
    /\ conn[c].wire[1].kind = "close"
    /\ ReportDown(c, ~conn[c].proved)
    /\ UNCHANGED <<shutdown, credited, amended, calls, drops, frames>>

(* The task was handling an ack when it was aborted. *)
LateAck(c) ==
    /\ conn[c].phase = "aborting"
    /\ conn' = [conn EXCEPT ![c].phase = "closed", ![c].venue = {}, ![c].wire = <<>>]
    /\ entry' = IF conn[c].wire # <<>> /\ conn[c].wire[1].kind = "ack"
                THEN Recorded(c, conn[c].wire[1].sub) ELSE entry
    /\ UNCHANGED <<shutdown, told, missed, credited, amended, calls, drops, frames>>

-----------------------------------------------------------------------------
Task(c) == \/ Connect(c) \/ SendBurst(c) \/ Subscribed(c) \/ BackoffEnds(c) \/ Command(c)
           \/ PingTick(c) \/ HandleText(c) \/ ServerCloses(c) \/ LateAck(c)

Next ==
    \/ \E s \in Subs : SubscribeTo(s) \/ Unsubscribe(s) \/ ClearQuarantine(s) \/ Lapse(s)
    \/ \E c \in Opened : Task(c) \/ ConnectFails(c) \/ Drop(c) \/ Prove(c)
    \/ \E c \in Opened, s \in Exclusive : VenueSends(c, s)
    \/ Shutdown

Spec == Init /\ [][Next]_vars

-----------------------------------------------------------------------------
(* What health reports to the callers of stale_feeds, budgets aside *)
Fresh_AnySocket(s) == s \in Registered /\ entry[s].acked /\ ~QuarantinedNow(s)
Fresh(s) ==
    /\ s \in Registered /\ entry[s].acked /\ ~QuarantinedNow(s)
    /\ conn[entry[s].conn].connected

Pending(c, s) == \E i \in DOMAIN conn[c].cmds : conn[c].cmds[i] = [cmd |-> "subscribe", sub |-> s]

(* A feed reported fresh is served: its socket is in a session, and the    *)
(* venue has the subscription, or the Subscribe that re-sends it is queued *)
(* or the socket's close is already on the wire.                           *)
FreshMeansServed ==
    \A s \in Subs : Fresh(s) =>
        LET c == entry[s].conn
        IN  /\ conn[c].phase = "up"
            /\ s \in conn[c].venue \/ Pending(c, s) \/ Closing(conn[c])

(* A session with nothing queued and no close on its wire serves what the  *)
(* registry holds and nothing else, a quarantine apart: commands discarded *)
(* in a back-off, replayed after a burst or overtaken by it lose nothing.  *)
SettledServesRegistry ==
    \A c \in Opened :
        Reading(c) /\ conn[c].cmds = <<>> /\ ~Closing(conn[c]) =>
            /\ conn[c].venue \subseteq Held(c)
            /\ {s \in Held(c) : entry[s].quarantine = "none"} \subseteq conn[c].venue

(* The venue's refusals alone never quarantine a subscription the venue    *)
(* accepts: each strike on one takes a network drop inside the grace, or a *)
(* call that changes the socket's subscriptions under a refusal.           *)
StrikesHaveCause ==
    \A s \in Subs \ Poison : entry[s].quarantine # "none" => drops + amended >= QuarantineAfter

(* A subscription that lost service is reported fresh again only after an  *)
(* event told the consumer: a Reconnected whose gap covers it, or a        *)
(* SubscriptionQuarantined.                                                *)
FreshAfterGapTold == \A s \in missed : ~Fresh(s)

(* An outage is announced once and answered once: the consumer last heard  *)
(* "down" exactly while the task owes it a reconnect.                      *)
OutagesAnswered ==
    \A c \in Opened : /\ conn[c].announcedDown <=> told[c] = "down"
                      /\ conn[c].phase = "backoff" => told[c] = "down"
                      /\ conn[c].phase = "up" => told[c] # "down"

(* orderUpdates frames are credited to the account they are about *)
FramesKeepTheirAccount == \A p \in credited : p[1] = p[2]

(* A quarantine (a minute or more) outlasts the burst of the session it    *)
(* leads to: back-off waits at most 30 s, a round trip well under one.     *)
OutlastsBurst(s) ==
    LET k == conn[entry[s].conn]
    IN  k.phase = "up" /\ k.proved /\ k.cmds = <<>> /\ k.wire = <<>>

TimedNext == Next /\ \A s \in Subs : Lapse(s) => OutlastsBurst(s)

FairSpec ==
    /\ Init /\ [][TimedNext]_vars
    /\ \A c \in Conns : WF_vars(c \in Opened /\ Task(c)) /\ WF_vars(c \in Opened /\ Prove(c))
    /\ \A s \in Subs : SF_vars(Lapse(s) /\ OutlastsBurst(s))

(* With drops and calls at an end, each subscription the venue accepts is  *)
(* served again and again, whatever shares its socket: the pool converges  *)
(* on a set without the refused one, and a lapsed quarantine that brings   *)
(* it back costs an outage and not the feed.                               *)
PoolConverges ==
    \A s \in Subs \ Poison : <>[](s \in Registered /\ ~shutdown) => []<>Fresh(s)

(* What the consumers of the pool rely on, at every moment. *)
PoolSound ==
    FreshMeansServed /\ SettledServesRegistry /\ StrikesHaveCause /\ FreshAfterGapTold /\ OutagesAnswered
=============================================================================
