------------------------------- MODULE Pilot --------------------------------
(* The pilot: one operator-authorized budget, accounted for by the event    *)
(* chain (ledger/pilot.rs), the signed consent it rests on                  *)
(* (ledger/pilot/authority.rs, consent.rs) and the desktop owner that       *)
(* obtains it (pilot_consent.rs).  One agent on one account: a ledger holds *)
(* one pilot.  Amounts are small numbers, an order's oid is the order, and  *)
(* a trade's time is its place in the venue's order of trades.              *)
EXTENDS Integers, Sequences, FiniteSets, FiniteSetsExt

CONSTANTS
    Orders,         \* orders by cloid, numbered from 1; 0 stands for a foreign one
    Size, Value,    \* an order's size, and its valuation max(px, reference_px)
    OrderLimit, ExecutedLimit, LossLimit,    \* 15, 150 and 5 USD
    Prices, Nets,   \* of a trade: price, and closed P&L less fee
    Required,       \* orders need a pilot (supervised alpha)
    MaxRows, MaxFaults, MaxLaunches, MaxMoves    \* reviews opened; trades and grants, with reviews which count twice

VARIABLES
    log,        \* the rows the accounting reads, and those that only move the head
    lag,        \* committed rows the anchor outside the database does not name
    route,      \* the registry's current route of the agent, by its grant
    signed,     \* the orders signed
    traded,     \* the trades at the venue, oldest first
    dead,       \* orders the venue will not fill (again)
    legacy,     \* the review of a legacy authorization in the operator's hand
    desk,       \* the consent owner of the desktop
    faults

vars == <<log, lag, route, signed, traded, dead, legacy, desk, faults>>

-----------------------------------------------------------------------------
(* Reading the chain: history and project, of any log.                      *)

Rows(L, kinds) == {n \in DOMAIN L : L[n].kind \in kinds}
Authorities(L) == Rows(L, {"authorized"})
Authority(L) == CHOOSE n \in Authorities(L) : TRUE
Adoptions(L) == Rows(L, {"adopted"})

\* The row a consent is authenticated by: signed, or adopted from a legacy one.
ConsentRows(L) == {n \in Authorities(L) : L[n].signed} \cup Adoptions(L)
Verified(L) == Authorities(L) # {} => ConsentRows(L) # {}

\* verify_authorized_route: the consent's route is the order's, and still granted.
RouteHolds(L, r) == \A n \in ConsentRows(L) : L[n].route = r /\ r = route

Starts(L, o) == {n \in Rows(L, {"started"}) : L[n].order = o}
Resolutions(L, o) == {L[n].how : n \in {k \in Rows(L, {"resolved"}) : L[k].order = o}}
Released(L, o) == Resolutions(L, o) \cap {"not_sent", "rejected"} # {}
Pending(L, o) == Starts(L, o) # {} /\ Resolutions(L, o) = {}
Allocated(L) == {o \in Orders : \E n \in Starts(L, o) : n > Authority(L)}

\* The account's fills after the authorization, a trade id once (its key).
Fills(L) == {n \in Rows(L, {"fill"}) : n > Authority(L)}

\* A fill names the order it belongs to, or an observed one has its oid.
Linked(L, n) == L[n].order \in Allocated(L) /\ (L[n].named \/ "observed" \in Resolutions(L, L[n].order))
FilledBy(L, o) == MapThenSumSet(LAMBDA n : L[n].sz, {n \in Fills(L) : Linked(L, n) /\ L[n].order = o})

\* A durable stop, in a row of its own or in the fill that caused it.
Stops(L) == {n \in Rows(L, {"halted", "fill"}) : L[n].stop # "none"}

\* validate_halt: for the authorization, and caused by a fill after it.
HaltLinked(L, n) ==
    /\ Authorities(L) # {}
    /\ L[n].trigger > Authority(L) /\ L[n].trigger \in Rows(L, {"fill"})
    /\ IF L[n].kind = "fill" THEN L[n].trigger = n ELSE L[n].trigger < n

\* validate_adoption: of the legacy authorization, at the reviewed head.
AdoptionLinked(L, n) ==
    /\ Authorities(L) # {} /\ Authority(L) < n /\ ~L[Authority(L)].signed
    /\ L[n].head = n - 1

\* history: the rows a replay accepts.
History(L) ==
    /\ Cardinality(Authorities(L)) <= 1 /\ Cardinality(Adoptions(L)) <= 1
    /\ \A n \in Authorities(L) : L[n].baseline = n - 1
    /\ \A n \in Adoptions(L) : AdoptionLinked(L, n)
    /\ Cardinality(Stops(L)) <= 1 /\ \A n \in Stops(L) : HaltLinked(L, n)

\* Rows that contradict each other make the accounting unavailable.
FillStands(L, n) ==
    /\ L[n].fair /\ L[n].tid >= L[Authority(L)].at
    /\ Linked(L, n) => /\ \A k \in Starts(L, L[n].order) : k < n
                       /\ ~Released(L, L[n].order)
                       /\ FilledBy(L, L[n].order) <= Size[L[n].order]
Projects(L) == \A n \in Fills(L) : FillStands(L, n)

Upto(L, n) == {k \in Fills(L) : L[k].tid <= L[n].tid}
Executed(L, S) == MapThenSumSet(LAMBDA n : L[n].px * L[n].sz, S)
Net(L, S) == MapThenSumSet(LAMBDA n : L[n].net, S)
Reserved(L) ==
    MapThenSumSet(LAMBDA o : (Size[o] - FilledBy(L, o)) * Value[o], {o \in Allocated(L) : ~Released(L, o)})

\* A limit was crossed after some trade, in the venue's order of trades.
Crosses(L, n) == Executed(L, Upto(L, n)) >= ExecutedLimit \/ Net(L, Upto(L, n)) <= -LossLimit

\* project: a durable stop, else a crossed limit, else a fill no order explains.
Halt_Recomputed(L) ==
    IF \E n \in Fills(L) : Crosses(L, n) THEN "exhausted"
    ELSE IF \E n \in Fills(L) : ~Linked(L, n) THEN "awaiting" ELSE "none"
Halt(L) ==
    CASE Stops(L) # {} -> L[CHOOSE n \in Stops(L) : TRUE].stop
      [] Stops(L) = {} /\ \E n \in Fills(L) : Crosses(L, n) -> "exhausted"
      [] Stops(L) = {} /\ ~\E n \in Fills(L) : Crosses(L, n) ->
            IF \E n \in Fills(L) : ~Linked(L, n) THEN "awaiting" ELSE "none"

Permitted_Unreserved(L, added) == Halt(L) = "none" /\ Executed(L, Fills(L)) + added <= ExecutedLimit
Permitted(L, added) ==
    Halt(L) = "none" /\ Executed(L, Fills(L)) + Reserved(L) + added <= ExecutedLimit

Readable == lag <= 1 /\ History(log)

\* authenticate_order and check_admission, in the transaction that begins o.
Admission(o) ==
    /\ Readable /\ Verified(log)
    /\ IF Authorities(log) = {} THEN ~Required
       ELSE /\ RouteHolds(log, route) /\ Projects(log)
            /\ Size[o] * Value[o] <= OrderLimit /\ Permitted(log, Size[o] * Value[o])

\* check_authenticated_before_sign, in the lock hold of the signature.
BeforeSign(o, r) ==
    /\ Readable /\ Verified(log)
    /\ IF Authorities(log) = {} THEN ~Required
       ELSE /\ RouteHolds(log, r) /\ Projects(log) /\ Permitted(log, 0)
            /\ Pending(log, o) /\ \A n \in Starts(log, o) : n > Authority(log)

\* activation_state_in and release_state_in, for the rows they allow.
Activatable == /\ Readable /\ Authorities(log) # {} /\ Verified(log) /\ RouteHolds(log, route)
               /\ Projects(log) /\ Permitted(log, 0)
Releasable == /\ Readable /\ Authorities(log) # {} /\ Verified(log) /\ RouteHolds(log, route)
              /\ Projects(log) /\ Halt(log) \in {"none", "awaiting"}

-----------------------------------------------------------------------------
NoReview == [route |-> 0, baseline |-> 0, at |-> 0]

Init ==
    /\ log \in {<<>>, <<[kind |-> "authorized", signed |-> FALSE, at |-> 1, baseline |-> 0, route |-> 0,
                         by |-> 0]>>}
    /\ lag = 0 /\ route = 1 /\ signed = {} /\ traded = <<>> /\ dead = {} /\ legacy = NoReview
    /\ desk = [phase |-> "idle", running |-> FALSE, stop |-> FALSE, done |-> TRUE, review |-> NoReview,
               command |-> "none", told |-> "none", launches |-> 0]
    /\ faults = 0

Now == Len(traded) + 1
Moves == Len(traded) + (route - 1) + 2 * desk.launches
Unfair == Cardinality({n \in Rows(log, {"fill"}) : ~log[n].fair})    \* malformed answers count as faults
Fault == faults + Unfair < MaxFaults /\ faults' = faults + 1

\* A commit whose head is noted outside the database, or not.
Published == lag' = 0 /\ UNCHANGED faults
NotPublished == lag' = lag + 1 /\ Fault
Written(L) == Len(L) <= MaxRows /\ log' = L /\ (Published \/ NotPublished)

\* authorize: an exact retry only publishes; else the first consent, over a
\* history whose orders are all accounted for.
BaselineHolds ==
    \A o \in Orders : Starts(log, o) # {} =>
        \/ Released(log, o)
        \/ "observed" \in Resolutions(log, o)
           /\ MapThenSumSet(LAMBDA n : log[n].sz, {n \in Rows(log, {"fill"}) : log[n].order = o}) = Size[o]

Consent(at, by) ==
    [kind |-> "authorized", signed |-> TRUE, at |-> at, baseline |-> Len(log), route |-> route, by |-> by]

Authorize ==
    /\ Readable /\ Verified(log)
    /\ IF Authorities(log) = {}
       THEN BaselineHolds /\ Written(Append(log, Consent(Now, 0)))
       ELSE LET a == log[Authority(log)]
            IN  a.signed /\ a.at = Now /\ a.route = route /\ Projects(log)
                /\ Published /\ UNCHANGED log
    /\ UNCHANGED <<route, signed, traded, dead, legacy, desk>>

\* review and adopt: what was reviewed is what is adopted, or nothing.
ReviewLegacy ==
    /\ Readable /\ Authorities(log) # {} /\ ConsentRows(log) = {} /\ Projects(log)
    /\ legacy' = [route |-> route, baseline |-> Len(log), at |-> Now]
    /\ UNCHANGED <<log, lag, route, signed, traded, dead, desk, faults>>

Adopt ==
    /\ Readable /\ legacy # NoReview /\ legacy.route = route /\ Projects(log)
    /\ IF Adoptions(log) = {}
       THEN legacy.baseline = Len(log)
            /\ Written(Append(log, [kind |-> "adopted", head |-> legacy.baseline, route |-> route]))
       ELSE (\E n \in Adoptions(log) : log[n].head = legacy.baseline) /\ Published /\ UNCHANGED log
    /\ UNCHANGED <<route, signed, traded, dead, legacy, desk>>

-----------------------------------------------------------------------------
(* Orders and their fills.                                                  *)

\* SubmissionJournal::begin: one pending order of the account at a time.
Begin(o) ==
    /\ Starts(log, o) = {} /\ \A p \in Orders : ~Pending(log, p)
    /\ Admission(o)
    /\ Written(Append(log, [kind |-> "started", order |-> o, route |-> route]))
    /\ UNCHANGED <<route, signed, traded, dead, legacy, desk>>

Sign(o) ==
    /\ o \notin signed /\ Pending(log, o)
    /\ \E n \in Starts(log, o) : BeforeSign(o, log[n].route)
    /\ signed' = signed \cup {o}
    /\ UNCHANGED <<log, lag, route, traded, dead, legacy, desk, faults>>

\* A resolution is definite (see Submissions): nothing the venue may still do
\* contradicts it.
Resolve(o) ==
    /\ Pending(log, o) /\ Readable
    /\ \E how \in {"not_sent", "rejected", "observed"} :
          /\ how = "not_sent" <=> o \notin signed
          /\ how = "rejected" => o \in dead /\ \A i \in DOMAIN traded : traded[i].order # o
          /\ dead' = IF how = "not_sent" THEN dead \cup {o} ELSE dead
          /\ signed' = signed
          /\ Written(Append(log, [kind |-> "resolved", order |-> o, how |-> how]))
    /\ UNCHANGED <<route, traded, legacy, desk>>

TradedOf(o) == MapThenSumSet(LAMBDA i : traded[i].sz, {i \in DOMAIN traded : traded[i].order = o})

\* The venue fills a unit of an order, or of one this program never made.
Trade ==
    /\ Moves < MaxMoves
    /\ \E o \in (signed \ dead) \cup {0}, px \in Prices, net \in Nets :
          /\ o # 0 => TradedOf(o) < Size[o]
          /\ traded' = Append(traded, [order |-> o, sz |-> 1, px |-> px, net |-> net])
    /\ UNCHANGED <<log, lag, route, signed, dead, legacy, desk, faults>>

\* Cancelled, expired or refused at the venue.
Die(o) ==
    /\ o \in signed \ dead /\ dead' = dead \cup {o}
    /\ UNCHANGED <<log, lag, route, signed, traded, legacy, desk, faults>>

\* A delivery of trade t: with or without its cloid, intact or not.
FillRow(t, named, fair) ==
    [kind |-> "fill", tid |-> t, order |-> traded[t].order, named |-> named, fair |-> fair,
     px |-> traded[t].px, sz |-> traded[t].sz, net |-> traded[t].net, stop |-> "none", trigger |-> 0]

Stored(L, t) == {n \in Rows(L, {"fill"}) : L[n].tid = t}

\* duplicate_conflict: a delivery that differs from the row it repeats, where
\* a new cloid is no difference once its order was observed at that oid.
Conflicts(L, f) ==
    \E n \in Stored(L, f.tid) :
        \/ ~L[n].fair \/ ~f.fair
        \/ f.named /\ ~L[n].named
           /\ ~(f.order \in Allocated(L) /\ "observed" \in Resolutions(L, f.order))

\* latch_in_tx: the stop this fill brings, with the row already in place.
Latched(L, f) ==
    IF Authorities(L) = {} \/ ~History(L) \/ Stops(L) # {} THEN "none"
    ELSE IF Conflicts(L, f) \/ ~Projects(L) THEN "unavailable"
    ELSE IF Halt(L) = "exhausted" THEN "exhausted" ELSE "none"

\* record_fill: a new fill carries its stop in its own row; a repeated one
\* adds nothing, or a stop that cites the row it repeats.
RecordFill(t, named, fair) ==
    LET f == FillRow(t, named, fair)
        seen == Stored(log, t)
        tentative == IF seen = {} THEN Append(log, f) ELSE log
        stop == Latched(tentative, f)
        at == Len(log) + 1
    IN  /\ Authorities(log) # {} => lag <= 1
        /\ CASE seen = {} ->
                  Written(Append(log, [f EXCEPT !.stop = stop, !.trigger = IF stop = "none" THEN 0 ELSE at]))
             [] seen # {} /\ stop # "none" ->
                  Written(Append(log, [kind |-> "halted", stop |-> stop, trigger |-> CHOOSE n \in seen : TRUE]))
             [] seen # {} /\ stop = "none" -> UNCHANGED <<log, lag, faults>>
        /\ UNCHANGED <<route, signed, traded, dead, legacy, desk>>

Deliver ==
    \E t \in DOMAIN traded, named \in BOOLEAN :
        /\ traded[t].order = 0 => ~named
        /\ RecordFill(t, named, TRUE)

\* The venue's answer is malformed (another fee token, a changed price).
DeliverMalformed == \E t \in DOMAIN traded : faults + Unfair < MaxFaults /\ RecordFill(t, FALSE, FALSE)

\* Rows that only move the head, the operator's activation and release among them.
OtherRow(kind) ==
    /\ kind = "activated" => Activatable
    /\ kind = "released" => Releasable
    /\ Written(Append(log, [kind |-> kind]))
    /\ UNCHANGED <<route, signed, traded, dead, legacy, desk>>

Regrant ==
    /\ Moves < MaxMoves /\ route' = route + 1
    /\ Written(Append(log, [kind |-> "granted"]))
    /\ UNCHANGED <<signed, traded, dead, legacy, desk>>

-----------------------------------------------------------------------------
(* The consent owner.                                                       *)

Desk(d) == desk' = d /\ UNCHANGED <<log, lag, route, signed, traded, dead, legacy, faults>>

\* Control::owned.
Owned == ~desk.done \/ (~desk.stop /\ desk.phase \in {"uncertain", "recovery"})

Launch ==
    /\ ~Owned /\ desk.launches < MaxLaunches /\ Moves + 1 < MaxMoves
    /\ Desk([phase |-> "reviewing", running |-> TRUE, stop |-> FALSE, done |-> FALSE, review |-> NoReview,
             command |-> "none", told |-> "none", launches |-> desk.launches + 1])

\* fail: a refusal ends the run; teardown follows.
Refuse == desk.running /\ desk.phase \in {"reviewing", "gathering"}
          /\ \E phase \in {"refused"} \cup (IF desk.stop THEN {"closed"} ELSE {}) :
                Desk([desk EXCEPT !.phase = phase, !.running = FALSE])

\* An existing pilot is only displayed.
ShowExisting ==
    /\ desk.running /\ desk.phase = "reviewing" /\ Readable /\ Authorities(log) # {} /\ Verified(log)
    /\ Desk([desk EXCEPT !.phase = "existing", !.running = FALSE])

\* observe: no consent, no execution and no unresolved order on the account.
Unused ==
    /\ Authorities(log) = {} /\ Rows(log, {"fill"}) = {}
    /\ \A o \in Orders : Starts(log, o) # {} => Released(log, o)

Observe ==
    /\ desk.running /\ desk.phase = "reviewing" /\ ~desk.stop
    /\ Readable /\ Unused
    /\ Desk([desk EXCEPT !.phase = "gathering",
                         !.review = [route |-> route, baseline |-> Len(log), at |-> Now]])

\* check: the route, policy and head are the ones observed.
StillObserved == Readable /\ Unused /\ route = desk.review.route /\ Len(log) = desk.review.baseline

ShowReview ==
    /\ desk.running /\ desk.phase = "gathering" /\ ~desk.stop
    /\ StillObserved
    /\ Desk([desk EXCEPT !.phase = "ready"])

\* command: one at a time, and only what the phase offers.
Ask(command) ==
    /\ ~desk.stop /\ ~desk.done
    /\ desk.phase = IF command = "reconcile" THEN "uncertain" ELSE "ready"
    /\ Desk([desk EXCEPT !.command = command, !.phase = "confirming"])

Close == ~desk.stop /\ desk.launches > 0 /\ Desk([desk EXCEPT !.stop = TRUE])

Taken(command) == desk.running /\ desk.phase = "confirming" /\ desk.command = command /\ ~desk.stop

Discard == Taken("discard") /\ Desk([desk EXCEPT !.phase = "closed", !.running = FALSE, !.command = "none"])

\* The evidence changed, a statement is missing, or the owner is closing: no row.
ConfirmRefused ==
    /\ Taken("confirm") \/ (desk.running /\ desk.phase = "confirming" /\ desk.command = "confirming")
    /\ Desk([desk EXCEPT !.phase = IF desk.stop THEN "closed" ELSE "refused", !.running = FALSE, !.command = "none"])

\* The command is taken; a close that comes now is seen by live() only.
TakeConfirm == Taken("confirm") /\ Desk([desk EXCEPT !.command = "confirming"])

\* confirm_authorization, one hold of the ledger: the row is committed and
\* published, or its fate is told as uncertain.
ConfirmAuthorization ==
    /\ desk.running /\ desk.phase = "confirming" /\ desk.command = "confirming" /\ ~desk.stop
    /\ StillObserved
    /\ LET row == [Consent(desk.review.at, desk.launches) EXCEPT !.baseline = desk.review.baseline]
       IN  \/ Len(log) < MaxRows /\ log' = Append(log, row) /\ Published
              /\ \/ desk' = [desk EXCEPT !.phase = "authorized", !.running = FALSE, !.command = "none"]
                 \/ desk' = [desk EXCEPT !.phase = "uncertain", !.command = "none"]
           \/ Len(log) < MaxRows /\ log' = Append(log, row) /\ NotPublished
              /\ desk' = [desk EXCEPT !.phase = "uncertain", !.command = "none"]
           \/ Fault /\ UNCHANGED <<log, lag>>
              /\ desk' = [desk EXCEPT !.phase = "uncertain", !.command = "none"]
    /\ UNCHANGED <<route, signed, traded, dead, legacy>>

\* authorization_outcome: only a published head decides.
Outcome_Unpublished(d) ==
    IF Authorities(log) = {} THEN "absent"
    ELSE LET a == log[Authority(log)]
         IN  IF a.signed /\ a.route = d.review.route /\ a.baseline = d.review.baseline /\ a.at = d.review.at
                /\ lag = 0
             THEN "committed" ELSE "absent"
Outcome(d) ==
    IF ~Readable \/ lag # 0 \/ ~Verified(log) THEN "unknown"
    ELSE IF Authorities(log) = {} THEN "absent"
    ELSE LET a == log[Authority(log)]
         IN  IF a.signed /\ a.route = d.review.route /\ a.baseline = d.review.baseline /\ a.at = d.review.at
             THEN "committed" ELSE "unknown"

Reconcile ==
    /\ Taken("reconcile")
    /\ CASE Outcome(desk) = "committed" ->
              Desk([desk EXCEPT !.phase = "authorized", !.running = FALSE, !.command = "none"])
         [] Outcome(desk) = "absent" ->
              Desk([desk EXCEPT !.phase = "refused", !.told = "not_committed", !.running = FALSE,
                                !.command = "none"])
         [] Outcome(desk) = "unknown" -> Desk([desk EXCEPT !.phase = "uncertain", !.command = "none"])

\* The loop sees the close first: a queued command is dropped, and the phase it
\* set ("confirming", also for a reconcile) becomes closed.
StopRun ==
    /\ desk.running /\ desk.stop /\ desk.phase \in {"ready", "confirming", "uncertain"}
    /\ desk.command # "confirming"
    /\ Desk([desk EXCEPT !.running = FALSE, !.command = "none",
                         !.phase = IF @ = "uncertain" THEN @ ELSE "closed"])

\* The retained task dies; its observer asks for recovery.
TaskDies == desk.running /\ Fault
            /\ desk' = [desk EXCEPT !.phase = "recovery", !.running = FALSE, !.command = "none"]
            /\ UNCHANGED <<log, lag, route, signed, traded, dead, legacy>>

\* Ingress and authority are drained; a failed drain leaves recovery.
Teardown ==
    /\ ~desk.running /\ ~desk.done
    /\ \/ desk' = [desk EXCEPT !.done = TRUE] /\ UNCHANGED faults
       \/ desk' = [desk EXCEPT !.done = TRUE, !.phase = "recovery"] /\ Fault
    /\ UNCHANGED <<log, lag, route, signed, traded, dead, legacy>>

-----------------------------------------------------------------------------
Next ==
    \/ Authorize \/ ReviewLegacy \/ Adopt \/ Regrant
    \/ \E o \in Orders : Begin(o) \/ Sign(o) \/ Resolve(o) \/ Die(o)
    \/ Trade \/ Deliver \/ DeliverMalformed
    \/ \E kind \in {"policy", "activated", "released"} : OtherRow(kind)
    \/ Launch \/ Refuse \/ ShowExisting \/ Observe \/ ShowReview
    \/ \E command \in {"confirm", "discard", "reconcile"} : Ask(command)
    \/ Close \/ Discard \/ TakeConfirm \/ ConfirmRefused \/ ConfirmAuthorization \/ Reconcile
    \/ StopRun \/ TaskDies \/ Teardown

Spec == Init /\ [][Next]_vars

-----------------------------------------------------------------------------
(* Properties.                                                              *)

\* What the venue may still make of the pilot's orders, at no more than the
\* price they were reserved at.
TradedValue(o) ==
    MapThenSumSet(LAMBDA i : traded[i].sz * (IF traded[i].px < Value[o] THEN traded[i].px ELSE Value[o]),
                  {i \in DOMAIN traded : traded[i].order = o})
Exposed(o) == TradedValue(o) + IF o \in signed \ dead THEN (Size[o] - TradedOf(o)) * Value[o] ELSE 0
PilotOrders == IF Authorities(log) = {} THEN {} ELSE Allocated(log) \cap signed

(* The budget holds at the venue and not only in the ledger: what the       *)
(* pilot's orders executed and could still execute is within its limit,     *)
(* with fills late, repeated, without their cloid or never delivered.       *)
WithinBudget == MapThenSumSet(LAMBDA o : Exposed(o), PilotOrders) <= ExecutedLimit

(* A crossed limit is latched with the fill that crosses it, so that a fill *)
(* that arrives later but traded earlier cannot undo it.                    *)
CrossingIsLatched ==
    Authorities(log) # {} /\ Projects(log) /\ Halt(log) = "exhausted" => Stops(log) # {}

(* No sequence of consents, fills and stops over an account without earlier *)
(* fills, which the desktop's consent demands, leaves rows the replay       *)
(* refuses; every pilot read would then refuse for good.                    *)
HistoryReplays == (\A n \in Authorities(log), k \in Rows(log, {"fill"}) : k > n) => History(log)

(* Under a durable stop nothing is signed, activated or released.           *)
StopHolds ==
    Stops(log) # {} =>
        /\ signed' = signed /\ Stops(log) \subseteq Stops(log')
        /\ Rows(log', {"activated", "released"}) = Rows(log, {"activated", "released"})

MyRows == {n \in Authorities(log) : log[n].by = desk.launches /\ desk.launches > 0}

(* What the operator is told of a consent is so: authorized means the       *)
(* reviewed row, on the reviewed head, is in the chain; refused means none  *)
(* of this owner's ever is.                                                 *)
ConsentIsTold ==
    /\ desk.phase = "authorized" =>
          \E n \in Authorities(log) : /\ log[n].signed /\ log[n].route = desk.review.route
                                      /\ log[n].baseline = desk.review.baseline /\ log[n].at = desk.review.at
    /\ desk.phase = "refused" \/ desk.told = "not_committed" => MyRows = {}
=============================================================================
