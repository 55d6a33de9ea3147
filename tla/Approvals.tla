------------------------------ MODULE Approvals ------------------------------
(***************************************************************************)
(* Operator approvals: the journal of proposals (ledger/approval.rs), the  *)
(* engine's prepare and confirm of a retained review (guardrail/engine.rs, *)
(* cancellation.rs), the gateway and listener admission around them        *)
(* (oppen-mcp tools/operator.rs, server/operator.rs) and the desktop's     *)
(* queue with its single worker task (operator_approvals.rs).              *)
(*                                                                         *)
(* The journal is kept as the rows it writes.  Every operation starts by   *)
(* replaying them, as the code does, and a replay that meets a row it does *)
(* not accept makes every later operation fail.                            *)
(*                                                                         *)
(* A sequence number is an index into rows: a link names a row, a policy   *)
(* revision is the index of the newest policy row and a route the index of *)
(* the newest grant.  Signatures, hashes and MACs are not modelled: a row  *)
(* is what was written.                                                    *)
(*                                                                         *)
(* signed, shown and told are history: what was signed, what a review      *)
(* displayed and which rejections the operator was told of.                *)
(***************************************************************************)
EXTENDS Naturals, Sequences, FiniteSets

CONSTANTS
  Requests,    \* what agents ask for: [kind, id, px]
  Prices,      \* rounded prices, and remaining sizes of a cancelled order
  TTL,         \* APPROVAL_TTL_MS
  MaxAge,      \* how old a clearance may be when it is signed
  MaxNow,      \* bound on the clock
  MaxProposals, \* bound on proposals
  MaxWork,     \* bound on proposals and reviews, together
  MaxMoves     \* bound on disturbances: faults, crashes, new authority, moves

VARIABLES
  journal,  \* the durable rows, and what replaying them gives
  now,      \* the wall clock
  venue,    \* the reference price, and the remaining size of an open order
  moves,    \* disturbances so far
  desk,     \* ApprovalQueueControl.admission
  work,     \* its retained task
  signed,   \* orders and cancels signed under an approval
  shown,    \* what each review displayed
  told      \* rejections reported to the operator

vars == <<journal, now, venue, moves, desk, work, signed, shown, told>>

-----------------------------------------------------------------------------
(* Requests and their identity *)

IsCancel(req) == req.kind = "cancel"

(* An order is identified by its cloid, a cancellation by its exact targets. *)
SameIdentity(a, b) ==
  IF IsCancel(a) THEN a = b ELSE ~IsCancel(b) /\ a.id = b.id

(* review_candidate: a market order or a close is repriced, the rest is fixed *)
Candidate(req, px) == IF req.kind = "market" THEN [req EXCEPT !.px = px] ELSE req

(* check_context: the frozen target is still there and has only shrunk *)
TargetHolds(req, size) == IsCancel(req) => size > 0 /\ size <= req.px

-----------------------------------------------------------------------------
(* Replay *)

Newest(kind) ==
  LET at == {n \in 1..Len(journal.rows) : journal.rows[n].kind = kind}
  IN  CHOOSE n \in at : \A m \in at : m <= n

Policy == Newest("policy")

Route == Newest("grant")

(* The entry a proposal makes, before any transition *)
NewEntry(row, n) ==
  [req |-> row.req, route |-> row.route, policy |-> row.policy,
   minted |-> row.at, lastAt |-> row.at, expires |-> row.expires,
   root |-> n, last |-> n, state |-> "pending", review |-> <<>>]

(* The proposal a mint at time t would repeat: an order cloid is used once, *)
(* a cancellation once while an identical one is still pending.             *)
Repeats(entry, req, route, t) ==
  /\ SameIdentity(req, entry.req)
  /\ IsCancel(req) => /\ entry.route = route
                      /\ entry.state = "pending"
                      /\ t < entry.expires

(* validate_proposed *)
ProposedHolds(row, n) ==
  /\ row.expires = row.at + TTL
  /\ row.route < n /\ journal.rows[row.route].kind = "grant"
  /\ row.policy < n /\ journal.rows[row.policy].kind = "policy"

(* validate_review *)
ReviewHolds(entry, review, t, n) ==
  /\ review.root = entry.root
  /\ review.route = entry.route
  /\ review.at >= entry.minted
  /\ review.at <= t
  /\ review.expires = entry.expires
  /\ t < review.expires
  /\ review.policy < n /\ journal.rows[review.policy].kind = "policy"
  /\ review.candidate = Candidate(entry.req, review.candidate.px)

(* validate_intent_row and validate_refusal_row: the receipt lies between  *)
(* the claim and the disposition and says what was decided.                *)
ReceiptHolds(entry, link, cleared, n) ==
  /\ link > entry.last
  /\ link < n
  /\ journal.rows[link].kind = "receipt"
  /\ journal.rows[link].root = entry.root
  /\ journal.rows[link].cleared = cleared
  /\ cleared /\ entry.review # <<>> =>
       /\ journal.rows[link].policy = entry.review[1].policy
       /\ journal.rows[link].candidate = entry.review[1].candidate

ClaimHolds(entry, row, n) ==
  /\ entry.state = "pending"
  /\ row.at < entry.expires
  /\ IsCancel(entry.req) => row.review # <<>>
  /\ row.review # <<>> => ReviewHolds(entry, row.review[1], row.at, n)

DispositionHolds(entry, row, n) ==
  \/ entry.state = "pending" /\ row.outcome = "rejected" /\ row.at < entry.expires
  \/ entry.state = "pending" /\ row.outcome = "expired" /\ row.at >= entry.expires
  \/ entry.state = "claimed" /\ row.outcome = "refused" /\ ReceiptHolds(entry, row.link, FALSE, n)
  \/ entry.state = "claimed" /\ row.outcome = "approved" /\ ReceiptHolds(entry, row.link, TRUE, n)

(* One row of the replay: ok becomes FALSE when the row is not accepted *)
ReplayRow(j, row) ==
  LET n == Len(j.rows) + 1
      es == j.entries
      linked == row.root \in DOMAIN es /\ row.prev = es[row.root].last
                /\ row.at >= es[row.root].lastAt
      moved(state, review) ==
        [es EXCEPT ![row.root] = [@ EXCEPT !.state = state, !.review = review,
                                          !.last = n, !.lastAt = row.at]]
      replayed(ok, entries) == [rows |-> Append(j.rows, row), ok |-> j.ok /\ ok, entries |-> entries]
  IN  CASE row.kind = "proposed" ->
             replayed(ProposedHolds(row, n) /\ \A r \in DOMAIN es :
                                                 ~Repeats(es[r], row.req, row.route, row.at),
                      [r \in DOMAIN es \cup {n} |-> IF r = n THEN NewEntry(row, n) ELSE es[r]])
        [] row.kind = "claimed" /\ linked ->
             replayed(ClaimHolds(es[row.root], row, n), moved("claimed", row.review))
        [] row.kind = "disposed" /\ linked ->
             replayed(DispositionHolds(es[row.root], row, n), moved(row.outcome, es[row.root].review))
        [] row.kind \in {"claimed", "disposed"} /\ ~linked -> replayed(FALSE, es)
        [] OTHER -> replayed(TRUE, es)

(* Replaying is a fold over the rows: what a call that appends a row       *)
(* leaves behind is one step of it away from what it found.                *)
Append1(row) == journal' = ReplayRow(journal, row)

Entries == journal.entries

Room == Cardinality(DOMAIN Entries) + desk.next <= MaxWork

RoomToMint == Room /\ Cardinality(DOMAIN Entries) < MaxProposals

PendingAt(t) == {r \in DOMAIN Entries : Entries[r].state = "pending" /\ t < Entries[r].expires}

-----------------------------------------------------------------------------
(* Journal operations.  A call at time t appends at most one row. *)

Disposed(root, t, outcome, link) ==
  [kind |-> "disposed", root |-> root, prev |-> Entries[root].last, at |-> t,
   outcome |-> outcome, link |-> link]

(* claim_inner and reject refuse a clock behind the entry's last row *)
ClockHolds(root, t) == t >= Entries[root].lastAt

(* pending: one iteration of its loop, expiring one entry.  The clock may  *)
(* not be behind any mint.                                                 *)
Expirable(t) ==
  {r \in DOMAIN Entries : Entries[r].state = "pending" /\ t >= Entries[r].expires}

ListHolds(t) == \A r \in DOMAIN Entries : t >= Entries[r].minted

(* mint_intent, when the request repeats nothing *)
CanMint_AnyIdentity(req) == RoomToMint

CanMint(req) ==
  /\ RoomToMint
  /\ \A r \in DOMAIN Entries : ~Repeats(Entries[r], req, Route, now)
  /\ IsCancel(req) => \A r \in DOMAIN Entries : now >= Entries[r].lastAt

-----------------------------------------------------------------------------
(* The desktop queue *)

NoWork == [op |-> "none", step |-> "idle", root |-> 0, id |-> 0, at |-> 0,
           review |-> <<>>, ctx |-> [px |-> 0, size |-> 0], cleared |-> FALSE,
           policy |-> 0, claimed |-> 0, receipt |-> 0]

Least(S) == CHOOSE x \in S : \A y \in S : x <= y

Greatest(S) == CHOOSE x \in S : \A y \in S : x >= y

NewDesk == [closed |-> FALSE, recovery |-> FALSE, busy |-> FALSE, pending |-> {},
            view |-> <<>>, review |-> <<>>, next |-> 1]

Init ==
  /\ journal = [rows |-> <<[kind |-> "grant"], [kind |-> "policy"]>>, ok |-> TRUE,
                entries |-> << >>]
  /\ now = 0
  /\ venue = [px |-> Least(Prices), size |-> Greatest(Prices)]
  /\ moves = 0
  /\ desk = NewDesk
  /\ work = NoWork
  /\ signed = {}
  /\ shown = << >>
  /\ told = {}

Idle == ~desk.busy /\ work.op = "none"

(* launch: refresh and reject are refused while a review is retained *)
Launch(op, root) ==
  /\ ~desk.closed
  /\ Idle
  /\ desk.review = <<>>
  /\ desk' = [desk EXCEPT !.busy = TRUE]
  /\ work' = [NoWork EXCEPT !.op = op, !.step = "list", !.root = root, !.at = now]
  /\ UNCHANGED <<journal, now, venue, moves, signed, shown, told>>

Refresh == Launch("refreshing", 0)

(* The operator may reject any id it has ever seen. *)
Reject == \E root \in DOMAIN Entries : Launch("rejecting", root)

(* review_operation, preparing: the proposal is taken from the last list *)
Prepare ==
  /\ ~desk.closed
  /\ Idle
  /\ desk.review = <<>>
  /\ Room
  /\ \E root \in desk.pending :
       /\ now < Entries[root].expires
       /\ work' = [NoWork EXCEPT !.op = "reviewing", !.step = "list", !.root = root,
                                 !.id = desk.next]
  /\ desk' = [desk EXCEPT !.busy = TRUE, !.view = <<>>,
                          !.next = @ + 1]
  /\ UNCHANGED <<journal, now, venue, moves, signed, shown, told>>

(* review_operation, confirming: the id named must be the one displayed; *)
(* the retained review is taken and never restored.                      *)
Confirmable(id) ==
  /\ desk.view # <<>> /\ desk.view[1].id = id /\ now < desk.view[1].expires
  /\ desk.review # <<>>

Confirm ==
  /\ ~desk.closed
  /\ Idle
  /\ \E id \in DOMAIN shown :
       /\ Confirmable(id)
       /\ work' = [NoWork EXCEPT !.op = "confirming", !.step = "admit", !.id = id,
                                 !.root = desk.review[1].root, !.review = desk.review]
  /\ desk' = [desk EXCEPT !.busy = TRUE, !.review = <<>>]
  /\ UNCHANGED <<journal, now, venue, moves, signed, shown, told>>

Discard ==
  /\ ~desk.closed
  /\ Idle
  /\ desk.review # <<>>
  /\ desk' = [desk EXCEPT !.review = <<>>, !.view = <<>>]
  /\ UNCHANGED <<journal, now, venue, moves, work, signed, shown, told>>

(* close also closes the listener's native admission *)
Close ==
  /\ ~desk.closed
  /\ desk' = [desk EXCEPT !.closed = TRUE, !.review = <<>>]
  /\ UNCHANGED <<journal, now, venue, moves, work, signed, shown, told>>

-----------------------------------------------------------------------------
(* The end of a task.  A failure is reported; a panic closes the queue. *)

EndWork(d) == desk' = [d EXCEPT !.busy = FALSE] /\ work' = NoWork

Fail == EndWork(desk)

Disturb == moves < MaxMoves /\ moves' = moves + 1

Panic ==
  /\ desk.busy
  /\ Disturb
  /\ EndWork([desk EXCEPT !.recovery = TRUE, !.closed = TRUE])
  /\ UNCHANGED <<journal, now, venue, signed, shown, told>>

(* A ledger transaction that fails before its commit, or after it when the *)
(* new head could not be noted: the caller sees an error either way.       *)
Tx(row, then) ==
  \/ Append1(row) /\ then /\ UNCHANGED moves
  \/ Disturb /\ Append1(row) /\ Fail
  \/ Disturb /\ UNCHANGED journal /\ Fail

(* perform and operator_prepare list the queue first.  perform samples the *)
(* clock once, when it starts.                                             *)
ListTime == IF work.op = "reviewing" THEN now ELSE work.at

ListFails ==
  /\ work.step = "list"
  /\ ~ListHolds(ListTime)
  /\ Fail
  /\ UNCHANGED <<journal, now, venue, moves, signed, shown, told>>

(* pending sweeps one expired entry per transaction *)
ExpireOne ==
  /\ work.step = "list"
  /\ ListHolds(ListTime)
  /\ \E r \in Expirable(ListTime) :
       /\ \A q \in Expirable(ListTime) : r <= q
       /\ Tx(Disposed(r, ListTime, "expired", 0), UNCHANGED <<desk, work>>)
  /\ UNCHANGED <<now, venue, signed, shown, told>>

(* A refresh keeps the list; a rejection and a review go on if their       *)
(* proposal is in it.                                                      *)
Listed ==
  /\ work.step = "list"
  /\ ListHolds(ListTime)
  /\ Expirable(ListTime) = {}
  /\ LET listed == PendingAt(ListTime) IN
     \/ /\ work.op = "refreshing" \/ (work.op = "rejecting" /\ work.root \notin listed)
        /\ EndWork([desk EXCEPT !.pending = listed])
     \/ /\ work.op # "refreshing" /\ work.root \in listed
        /\ work' = IF work.op = "rejecting" THEN [work EXCEPT !.step = "reject"]
                   ELSE [work EXCEPT !.step = "price", !.ctx = venue]
        /\ UNCHANGED desk
     \/ work.op = "reviewing" /\ work.root \notin listed /\ Fail
  /\ UNCHANGED <<journal, now, venue, moves, signed, shown, told>>

(* reject, then the second list of perform.  The clock of the first list   *)
(* is used again, so the entry cannot have expired in between; it can have *)
(* been swept.                                                             *)
ToldOnError_Rejected == told \cup {work.root}

ToldOnError == told   \* DecisionOutcome::Uncertain

RejectRow ==
  /\ work.step = "reject"
  /\ IF Entries[work.root].state = "pending"
     THEN \/ /\ Append1(Disposed(work.root, work.at, "rejected", 0))
             /\ told' = told \cup {work.root}
             /\ EndWork([desk EXCEPT !.pending = PendingAt(work.at) \ {work.root}])
             /\ UNCHANGED moves
          \/ /\ Disturb
             /\ Append1(Disposed(work.root, work.at, "rejected", 0)) \/ UNCHANGED journal
             /\ Fail
             /\ told' = ToldOnError
     ELSE /\ EndWork([desk EXCEPT !.pending = PendingAt(work.at)])
          /\ UNCHANGED <<journal, moves, told>>
  /\ UNCHANGED <<now, venue, signed, shown>>

-----------------------------------------------------------------------------
(* operator_prepare_proposal: evidence, candidate, commitment.  The market *)
(* and account were read before; the evidence and the evaluation are at    *)
(* one policy or the commitment is refused.                                *)

Commitment(root, t) ==
  LET e == Entries[root] IN
  [root |-> root, route |-> e.route, policy |-> Policy, at |-> t, expires |-> e.expires,
   candidate |-> Candidate(e.req, work.ctx.px)]

Preparable(root, t) ==
  /\ ClockHolds(root, t)
  /\ Entries[root].state = "pending"
  /\ t < Entries[root].expires
  /\ Entries[root].route = Route
  /\ TargetHolds(Entries[root].req, work.ctx.size)

PrepareReview ==
  /\ work.step = "price"
  /\ \/ /\ Preparable(work.root, now)
        /\ work' = [work EXCEPT !.step = "show", !.review = <<Commitment(work.root, now)>>]
        /\ UNCHANGED desk
     \/ Fail   \* not preparable, or a guard refuses
  /\ UNCHANGED <<journal, now, venue, moves, signed, shown, told>>

(* The prepared review reaches the queue, which may have been closed, or   *)
(* expired, meanwhile.                                                     *)
ShowsReview_WhenClosed == now < work.review[1].expires

ShowsReview == ~desk.closed /\ now < work.review[1].expires

ShowReview ==
  /\ work.step = "show"
  /\ \/ /\ ShowsReview
        /\ shown' = [k \in DOMAIN shown \cup {work.id} |->
                        IF k = work.id THEN work.review[1] ELSE shown[k]]
        /\ EndWork([desk EXCEPT !.view = <<[id |-> work.id, expires |-> work.review[1].expires]>>,
                                !.review = work.review])
     \/ /\ ~ShowsReview
        /\ EndWork(desk)
        /\ UNCHANGED shown
  /\ UNCHANGED <<journal, now, venue, moves, signed, told>>

-----------------------------------------------------------------------------
(* operator_confirm, step by step *)

(* admission by the listener, the account's execution queue, fresh context *)
ConfirmAdmit ==
  /\ work.step = "admit"
  /\ \/ ~desk.closed /\ work' = [work EXCEPT !.step = "claim", !.ctx = venue] /\ UNCHANGED desk
     \/ Fail
  /\ UNCHANGED <<journal, now, venue, moves, signed, shown, told>>

(* operator_confirm_review up to its claim: the decision time is sampled   *)
(* here, and nothing is claimed when the candidate would now be different. *)
Unchanged(review, t) ==
  /\ t < review.expires
  /\ t >= review.at
  /\ Candidate(Entries[review.root].req, work.ctx.px) = review.candidate

Claimable(review, t) ==
  /\ ClockHolds(review.root, t)
  /\ Entries[review.root].state = "pending"
  /\ t < Entries[review.root].expires
  /\ review.policy = Policy
  /\ ReviewHolds(Entries[review.root], review, t, Len(journal.rows) + 1)

ClaimReview ==
  /\ work.step = "claim"
  /\ LET review == work.review[1] IN
     \/ /\ Unchanged(review, now)
        /\ Claimable(review, now)
        /\ Tx([kind |-> "claimed", root |-> work.root, prev |-> Entries[work.root].last,
               at |-> now, review |-> work.review],
              work' = [work EXCEPT !.step = "decide", !.at = now, !.claimed = Len(journal.rows) + 1]
              /\ UNCHANGED desk)
     \/ ~(Unchanged(review, now) /\ Claimable(review, now)) /\ Fail /\ UNCHANGED <<journal, moves>>
  /\ UNCHANGED <<now, venue, signed, shown, told>>

(* decide under Mode::Approved, or decide_discretionary_cancel: the policy *)
(* is refreshed, the route compared, every guard evaluated again.          *)
StillCleared(review) ==
  /\ Entries[review.root].route = Route
  /\ TargetHolds(Entries[review.root].req, work.ctx.size)
  /\ review.policy = Policy

DecideApproved ==
  /\ work.step = "decide"
  /\ \/ /\ StillCleared(work.review[1])
        /\ work' = [work EXCEPT !.step = "record", !.cleared = TRUE, !.policy = Policy]
     \/ work' = [work EXCEPT !.step = "record", !.cleared = FALSE, !.policy = Policy]
  /\ UNCHANGED <<journal, now, venue, moves, desk, signed, shown, told>>

AfterRecord_Unfinished == IF work.cleared THEN "sign" ELSE "finish"

AfterRecord == "finish"

(* record: an order that cannot be recorded is refused; either way the     *)
(* claim is not finished then.                                             *)
RecordOutcome ==
  /\ work.step = "record"
  /\ \/ /\ Append1([kind |-> "receipt", root |-> work.root, cleared |-> work.cleared,
                    policy |-> work.policy, candidate |-> work.review[1].candidate])
        /\ work' = [work EXCEPT !.step = AfterRecord, !.receipt = Len(journal.rows) + 1]
        /\ UNCHANGED <<desk, moves>>
     \/ Disturb /\ UNCHANGED journal /\ Fail
  /\ UNCHANGED <<now, venue, signed, shown, told>>

Finishable ==
  /\ Entries[work.root].last = work.claimed
  /\ Entries[work.root].state = "claimed"
  /\ ClockHolds(work.root, work.at)
  /\ ReceiptHolds(Entries[work.root], work.receipt, work.cleared, Len(journal.rows) + 1)

Finish ==
  /\ work.step = "finish"
  /\ \/ /\ Finishable
        /\ Tx(Disposed(work.root, work.at, IF work.cleared THEN "approved" ELSE "refused", work.receipt),
              IF work.cleared
              THEN work' = [work EXCEPT !.step = "sign"] /\ UNCHANGED desk
              ELSE EndWork(desk))
     \/ ~Finishable /\ Fail /\ UNCHANGED <<journal, moves>>
  /\ UNCHANGED <<now, venue, signed, shown, told>>

(* The pre-sign gate for an approved clearance, then dispatch *)
Signable_NoDeadline ==
  /\ ~desk.closed
  /\ work.policy = Policy
  /\ Entries[work.root].route = Route
  /\ now >= work.at /\ now <= work.at + MaxAge

Signable ==
  /\ ~desk.closed
  /\ work.policy = Policy
  /\ Entries[work.root].route = Route
  /\ now < Entries[work.root].expires
  /\ now >= work.at /\ now <= work.at + MaxAge

SignApproved ==
  /\ work.step = "sign"
  /\ \/ /\ Signable
        /\ signed' = signed \cup {[root |-> work.root, id |-> work.id, at |-> now,
                                   policy |-> Policy, candidate |-> work.review[1].candidate]}
        /\ EndWork(desk)
     \/ ~Signable /\ EndWork(desk) /\ UNCHANGED signed
     \/ Fail /\ UNCHANGED signed
  /\ UNCHANGED <<journal, now, venue, moves, shown, told>>

-----------------------------------------------------------------------------
(* Everyone else *)

(* evaluate or evaluate_cancel asks for approval.  The gateway runs one    *)
(* decision at a time: not while a review is being priced or confirmed.    *)
DecisionWorkerFree == work.step \notin {"price", "claim", "decide", "record", "finish"}

Mint ==
  /\ DecisionWorkerFree
  /\ \E req \in Requests :
       /\ CanMint(req)
       /\ TargetHolds(req, venue.size)
       /\ Append1([kind |-> "proposed", at |-> now, req |-> req, route |-> Route,
                   policy |-> Policy, expires |-> now + TTL])
  /\ UNCHANGED <<now, venue, moves, desk, work, signed, shown, told>>

(* get_state lists the queue too *)
Sweep ==
  /\ ListHolds(now)
  /\ \E r \in Expirable(now) :
       /\ \A q \in Expirable(now) : r <= q
       /\ Append1(Disposed(r, now, "expired", 0))
  /\ UNCHANGED <<now, venue, moves, desk, work, signed, shown, told>>

(* A policy is replaced, or the agent's grant *)
ReplaceAuthority ==
  /\ Disturb
  /\ \E kind \in {"policy", "grant"} : Append1([kind |-> kind])
  /\ UNCHANGED <<now, venue, desk, work, signed, shown, told>>

MoveVenue ==
  /\ Disturb
  /\ \/ venue' \in {[venue EXCEPT !.px = p] : p \in Prices \ {venue.px}}
     \/ venue.size > 0 /\ venue' = [venue EXCEPT !.size = @ - 1]
  /\ UNCHANGED <<journal, now, desk, work, signed, shown, told>>

Tick ==
  /\ now < MaxNow
  /\ now' = now + 1
  /\ UNCHANGED <<journal, venue, moves, desk, work, signed, shown, told>>

(* The host clock is corrected backwards. *)
StepBack ==
  /\ Disturb /\ now > 0
  /\ now' = now - 1
  /\ UNCHANGED <<journal, venue, desk, work, signed, shown, told>>

(* The process ends and starts again: the journal is all that is left. *)
Crash ==
  /\ Disturb
  /\ desk' = [NewDesk EXCEPT !.next = desk.next]
  /\ work' = NoWork
  /\ UNCHANGED <<journal, now, venue, signed, shown, told>>

Worker ==
  \/ ListFails \/ ExpireOne \/ Listed \/ RejectRow \/ PrepareReview \/ ShowReview
  \/ ConfirmAdmit \/ ClaimReview \/ DecideApproved \/ RecordOutcome \/ Finish \/ SignApproved

Next ==
  \/ Refresh \/ Reject \/ Prepare \/ Confirm \/ Discard \/ Close
  \/ Worker \/ Panic
  \/ Mint \/ Sweep \/ ReplaceAuthority \/ MoveVenue \/ Tick \/ StepBack \/ Crash

Spec == Init /\ [][Next]_vars

(* The worker task runs on the runtime's blocking pool to its end. *)
FairSpec == Spec /\ WF_vars(Worker)

-----------------------------------------------------------------------------
(* No row the journal ever writes makes a later replay fail: approvals are *)
(* never lost to a journal that can no longer be opened.                   *)
Replayable == journal.ok

(* A proposal is signed at most once, and only after its claim, its intent *)
(* receipt and its Approved disposition are durable - whatever crashed,    *)
(* failed or was clicked twice in between.                                 *)
SignedOnce ==
  /\ \A s, t \in signed : s.root = t.root => s = t
  /\ \A s \in signed : Entries[s.root].state = "approved"

(* What is signed is what the review the operator named displayed: the     *)
(* same price and targets, the same policy, before the shown expiry.       *)
SignedAsShown ==
  \A s \in signed :
    /\ s.id \in DOMAIN shown
    /\ s.root = shown[s.id].root
    /\ s.candidate = shown[s.id].candidate
    /\ s.policy = shown[s.id].policy
    /\ s.at < shown[s.id].expires

(* A proposal the operator was told is rejected never becomes an order. *)
RejectionIsFinal ==
  \A r \in told : Entries[r].state = "rejected" /\ \A s \in signed : s.root # r

(* A closed queue retains no review. *)
ClosedRetainsNothing == desk.closed => desk.review = <<>>

(* Work the queue admitted ends: a queue is busy only for a while. *)
QueueSettles == desk.busy ~> ~desk.busy

(* Only what the operator approved is signed, once and as it was shown. *)
OnlyWhatWasApproved == SignedOnce /\ SignedAsShown /\ RejectionIsFinal

(* The journal can be opened again, and a closed queue is empty. *)
QueueSound == Replayable /\ ClosedRetainsNothing
==============================================================================
