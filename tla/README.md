# Oppen: TLA+ verification project

Oppen is a desktop gateway between trading agents and a perpetuals venue. An
agent talks MCP over loopback HTTP; every order it asks for passes one guardrail
evaluation, is signed by a key the agent never sees, and is posted to the venue.
The operator can stop an agent, or everything, at any moment. What makes the
program correct is therefore a handful of concurrent protocols around one mutex,
one hash-chained SQLite ledger and one OS lock. This project models them.

Source paths below are relative to `crates/oppen-core/src/` unless they start
with another directory.

## 1. Inventory

| Component | State | Operations | What is hard |
|---|---|---|---|
| Guardrail engine (`guardrail/engine.rs`) | `EngineState` under one mutex: cached policy and revision, acknowledgment, activation route, stop generation, emergency overlay, kill incarnations, buckets, proposals | evaluate, sign, dispatch, HALT, release, policy edits, observation and acknowledgment | the mutex is dropped around every ledger access; a second mutex serialises policy changes but not HALT |
| Kill switch (`guardrail/kill.rs`) | set of engaged scopes, part of the policy | engage, release, blocking | first engagement wins |
| Reviewed release (`guardrail/kill_release.rs`, `ledger/policy_release.rs`) | a review in the operator's hand, one `KillReleased` row | review, confirm, reconcile | HALT during the commit; commit whose outcome is unknown |
| Activation (`guardrail/activation.rs`, `ledger/activation.rs`) | observation, review, one acknowledged route | begin, review, confirm | evidence gathered without locks, checked again around the audit row |
| Policy journal (`ledger/policy.rs`) | last complete policy and its sequence number | initialise, compare-and-replace, replay | full-state replacement by a stale writer; two processes |
| Ledger chain and anchor (`ledger/mod.rs`, `hash.rs`, `verify.rs`, `anchor.rs`) | rows with a hash chain; the head remembered outside the database | open, append, verify, note head | crash between commit and anchor; two handles on one file |
| Submission journal (`ledger/submission.rs`, `submission_evidence.rs`) | reservation per account, evidence rows | begin, sign, post result, resolve | a send whose outcome is unknown must not be retried |
| Approvals (`ledger/approval.rs`, `guardrail/cancellation.rs`, `apps/desktop/src-tauri/src/operator_approvals.rs`) | proposals and one-shot decisions | propose, accept, decline, expire, consume | decision racing expiry; replay after restart |
| Pilot (`ledger/pilot.rs`, `ledger/pilot/`) | one authorised budget, its reservations and fills | authorise, reserve, fill, stop | reservation and executed notional are different sums |
| Registry and pairing (`ledger/registry.rs`, `ledger/pairing.rs`) | grants, revocations, bound wallets | grant, revoke, pair, unpair | revocation racing a signature |
| Exposure (`state.rs`, `guardrail/snapshot.rs`, the size rules of `decide`) | positions and working book, as read | stamp, read, decide, send | two reads of a moving account; orders that add up; reductions that free a flip |
| Token bucket (`guardrail/bucket.rs`), charged in `guardrail/engine.rs` | level, remainder and last refill, per agent and one shared | refill, take, peek, retry wait | backward clock, remainders, rate changes, the reserve |
| Breaker, dead-man's switch (`guardrail/breaker.rs`, `guardrail/deadman.rs`) | none (pure) | check, evaluate | boundary values |
| Feed session and pump (`feed.rs`, `feed/pump.rs`) | epoch, staleness, reconcile generation | connect, tick, lag, reconcile done | events of an old connection |
| Reconcile (`reconcile.rs`) | cursors, windows | page, merge, record | full pages, equal timestamps |
| Candle store (`candles.rs`) | candles per interval | ingest, aggregate, gap fill | late candles, partial buckets |
| WebSocket pool (`crates/oppen-hl/src/ws.rs`, `ws/ingress.rs`) | sockets, subscriptions, ingress leases | connect, subscribe, drop, back off | lag, resubscription, leases in flight |
| Exchange client (`crates/oppen-hl/src/exchange.rs`) | nonce per signer | next nonce, post, parse | monotonic nonces, ambiguous answers |
| Signing, wire, metadata, info (`crates/oppen-hl/src/`) | none | encode, hash, sign, round | pure |
| MCP gateway (`crates/oppen-mcp/src/`) | tokens, sessions, tools, execution drain | pair, call tool, revoke, shut down | in-flight calls at revoke and shutdown |
| Desktop runtime (`apps/desktop/src-tauri/src/`) | retained operations, supervision of the gateway | start, stop, halt, approve, release, activate | retained work outliving its observer |
| Account view, alerts, TCA, features, charts | projections | pure folds | - |
| Desktop UI (`apps/desktop/src`) | view state | - | - |

How they interact: an MCP tool call builds an intent, calls `evaluate` (engine
mutex, policy journal read, audit row), `begin` of the submission journal,
`sign_submission` (keychain, ledger permit, engine mutex) and
`post_submission_authorized` (the same gate, then the HTTP request). The desktop
runtime calls the operator side: `begin_operator_kill` and its persist, reviewed
release, activation, approvals. The feed supplies freshness stamps; the ledger
is shared by all of them and by other processes, coordinated by an OS lock.

Correctness in one line each: a HALT is honoured from the moment it is requested
until it is released; a confirmed HALT survives restarts; a policy writer never
undoes what it has not seen; an order is admitted under the policy it was judged
by; a send is never repeated when its outcome is unknown; an approval is used at
most once; a budget is never overspent; a chain head that went out is never lost.
## 2. Plan

Ordered by what the program's correctness rests on.

| Step | Modules | State |
|---|---|---|
| 1. HALT, release, policy journal, acknowledgment, admission | `HaltGate` (abstract), `PolicyEngine` | modelled, checked, proved |
| 2. Reservation and evidence of a send | `Submissions` | modelled, checked, proved |
| 3. What an order may add to an account | `Exposure` | modelled, checked, proved |
| 4. Order rates and the address-wide budget | `TokenBucket`, `RateBudget` | modelled, checked, proved |
| 5. One walk of a window, page by page | `Backfill` | modelled, checked, proved |
| 6. Ledger chain and its witness, crashes between commit and note | `LedgerChain` | modelled, checked, proved |
| 7. Feed session, gaps and reconciliation | `Feed` | modelled, checked, proved |
| 8. Approvals: propose, review, decide, expire, claim once | `Approvals` | modelled, checked, proved |
| 9. Pilot: reservations against executed notional, and its consent | `Pilot` | modelled, checked, proved |
| 10. Registry of routes | `Registry` | modelled, checked, proved |
| 11. Pairings, listener, tasks in flight | `Gateway` | modelled, checked, proved |
| 12. Socket pool and quarantine | `Sockets` | modelled, checked, proved |
| 13. The operator's controls and the drain of their owners | `Supervision` | modelled, checked, proved |
| 14. The desktop's feed ownership, reads, setup and stop | `Desktop` | modelled, checked, proved |
| 15. Nonce source, dead-man's switch, candle merging, key rotation | one module each | left |

The modules `MC...` give the constants their values. Several components share
no state at all; an MC module then bundles them, and its variable `focus` names
the component a behaviour is about while the others keep their initial state.
A bundle has the behaviours of its parts and no others: it is a way to check
several parts in one run, not a composition. The compositions proper are
`PolicyEngine` (engine, journal and both reviews), `Submissions` (gateways,
journal and venue), `Supervision` (engine, sweeps, operator's controls and
runtime) and `Feed` (connection, pump, session and order).

## 3. Modules and the code they model

Each module's header says what its variables stand for. `PROJECT.json` maps
every definition to its lines.

### HaltGate: what a HALT promises

`halted` (scopes stopped by this process and not released since), `durable`
(scopes whose engagement was confirmed to the operator) and `admitted` (no,
signed, sent, per order). An order may be signed or sent only while no scope
that covers its agent is in either set. A crash forgets `halted`, never
`durable`.

### PolicyEngine: the engine around its two mutexes

One action is one critical section of the engine's state mutex or one ledger
transaction. `mut` is the holder of the mutation mutex (persist of a HALT,
breaker trip, policy edit, release, acknowledgment, activation, reviewed
release) and the stage it has reached; `review` is the document in the
operator's hand; `orders` has one evaluate, sign, dispatch pipeline per slot;
`store` is the journal's last policy, its revision and its predecessor's.

Adjacent critical sections are one action where the second commutes with
whatever may run in between: capturing the snapshot and clearing the
acknowledgment, publishing and deciding, publishing and capturing, the permit
and the state check at dispatch, the audit row and the confirmation of an
acknowledgment. `InhibitOnFailure` is dropped by the code after the mutation
mutex; the model inhibits while it is still held.

`LedgerFree` is the exclusion given by the connection mutex and the OS file
lock: the signing permit holds both until the evidence is published, and so do
the confirmation of an activation and the transaction of a reviewed release.

Decisions about price, size, exposure, loss, freshness, approval and rate are
here one nondeterministic refusal (`Exposure`, `Approvals` and `RateBudget` are
about theirs): every property here is about what may still be
admitted, which more refusals cannot break. The initial state is an initialised
journal whose global kill is engaged, as `initialise` leaves it. The exact-retry
branch of `replace_checked` compares engagement times, which are abstracted, so
it may also find the candidate stale. A commit error after the row was committed
is an outcome of its own.

The desktop reaches release and acknowledgment through the reviewed release and
the activation (`SupervisedAlpha`, `"reviewed_release"`); `"release"`, the plain
acknowledgment and `"edit"` are engine operations its tests and fixtures use.
Both deployments are checked.

### Submissions: at most one send per reservation

One account. The lifecycle rows are kept as what replay makes of them: the
sequence numbers of a cloid's start and resolution, the evidence sets `signed`
and `accepted`, and the account's revision. Each `gateway` is one order call
between its awaits: reserve, look up a pending order, resolve it, read the
account, begin, sign, post, record the answer. `GiveUp` is a crash, a dropped
request, a refusal or a fault before a commit at any of them. The venue is
external: it sees, fills, cancels or rejects what was sent, in its own time.

By design an order whose process died between `begin` and the send holds its
account until an operator looks: the code fails closed, and so does the model.

### Feed: which account state may be traded on

One `userFills` scope. The connection announces outages and frames in order on
a queue; the pump handles them, opens and closes gaps, walks the open ones and
records what it finds; the session is reconciled when a walk ends with nothing
left. An order takes a stamp, reads the account, reads the open flag and is
admitted if the stamp is still current. The stamp is one bit: the epoch it was
taken in is still the current one. The three `admit` calls of an order (decide,
sign, dispatch) are one. What a walk still has to do is the set of gaps it listed
and has not left; it takes the oldest first. The venue's snapshot reaches back
arbitrarily far. The five-minute margin of a walk is not modelled, which can only lose more fills.

A stamp taken while a walk is running may be admitted after the walk recorded
fills newer than the account state read under it; the property on stamps is
therefore about stamps taken while the session was caught up, and the race is
part of the hazard list.

### Backfill: one walk of a window

The venue is external: it answers with the oldest rows from the cursor on, up
to its own limit, and may cut a page in the middle of a millisecond. Fills
become visible in the order of their times. That the venue's limit is at least
the code's page limit is an assumption the code rests on (a short page ends
the walk); it is a named assumption of the module.

### TokenBucket and RateBudget: what an order costs

`TokenBucket` is the arithmetic of `bucket.rs`: micro-tokens, the remainder
carried between refills, the caps. `RateBudget` is every place the engine builds,
refills or charges a bucket. One decision is one step, as it runs under the
engine mutex; the checks before the meter are a choice. Buckets are built at an
agent's first decision and rebuilt when its rate changes. The clock moves both
ways. Approved proposals and preflights refill and do not pay. `charged` and
`sparse` are histories for the properties. A restart, which starts with fresh
buckets, is not modelled.

### Exposure: what one order may add

The size rules of `decide` over the exposure the gateway reads for an order.
That exposure is several reads: the feed is stamped, positions are read, open
orders are read, and the stamp is checked when the order is decided and again
before it is sent. Fills, cancels and drops go on between all of these.
`book` holds the open orders of a symbol by side and by `reduce_only`, as
`RestingExposure` does; `worst_position`, the genuine-reduction exemption, the
wind-down rule, the two position caps, the open-exposure cap and the leverage
cap are the code's. Prices and equity do not move, so a leverage cap is a cap on
notional; the policy does not change during a behaviour (an edit is a new start,
and `inherited` is the account as the caps then found it). One call at a time is
what `Submissions` shows.

`LateFeed` says whether a fill that happens during a call may reach the feed
after the call has sent its order. `Symbols` is finite, as the list it stands for.

### LedgerChain: the chain and its witness

Two processes on one database file and one sidecar with the head of the chain.
The commit of a row and the write of the sidecar are two steps under one lock;
`guard` is that lock and what its holder still has to do. A hash is the sequence
of all contents up to its row, which is what a collision-free hash of
length-prefixed preimages amounts to. An operator may put an older copy of the
file in place while no process runs. Each door of the ledger is an action: plain
appends, intents, outcomes that cite a receipt, redactions, gap rows and their
windows, verified journals, published reads, an agent's paging.

### Approvals, Pilot, Registry

`Approvals` keeps the journal as the rows it writes and replays them before
every operation, as the code does. The desktop queue, with its single retained
task, drives review, confirm and reject; prices move and the clock runs
underneath, and a write may fail with its outcome unknown.

`Pilot` keeps the rows the accounting reads: authorization, adoption,
reservations, fills, stops. Fills reach the ledger late, twice, without their
cloid or malformed. The desktop's consent owner reviews, confirms, reconciles
and may be closed at any step. `Required = FALSE` has every behaviour of
`TRUE` and more.

`Registry` has the rows of grants and retirements, the roster table they project
into and that roster operations also write, and the route a clearance carries
until it is verified again in the lock hold that signs.

### Gateway, Sockets

`Gateway`: the token store over the durable pairings, the owner's lease, the
listener's life, registered and native tasks that may start long after they were
authenticated and whose blocking worker may outlive the method, mutations that
fail or unwind between their commit and their publication.

`Sockets`: subscriptions placed on a few sockets, what a reconnect sends again,
acknowledgments, strikes and quarantine, the outage events a consumer gets and
the freshness it concludes from them. The frames of a reconnect and those of a
ping tick are sent one at a time, in key order, with the pool's calls between
them; queued commands and arriving frames wait until they are sent. Waits may
elapse at any time.

### Supervision, Desktop

`Supervision`: one agent, its orders at the venue, the cancellation sweep, HALT,
reviewed release and activation with their workers, and the runtime that closes
its owners in order. The engine is what `PolicyEngine` makes of it for one
agent. `HaltSuperseded` may end earlier than in the code, which adds behaviours.

`Desktop`: the control record under its mutex, the worker that replaces the feed
of a selection, local and remote reads, the agent's server, the policy setup and
the consent that exclude each other, and the one drain that exit, update and
failure share. Status polls are steps of their own; the cleanup task of a review
is immediate; a poisoned lock is not modelled.

## 4. Runs

`tlc -config X.cfg M` in this directory; each passing run ends within a few
minutes. The runs that TLC refutes are the findings of section 7.

| Run | Configuration | What it shows |
|---|---|---|
| `policy_local` (`MCCore`) | one agent and its order, 3 revisions, 2 stop generations, edits, plain release, crashes; beside it two calls on two symbols | An acknowledgment stands for what was reviewed with no stop since; edits computed from a cached policy never undo a confirmed kill; a revision names one policy; no call, and no two calls, take a symbol or the account past its caps while the book fills and is cancelled under the reads. |
| `policy_supervised` (`MCPolicyEngine`) | reviewed release, activation, edits, a failing store, a second process, crashes, 5 generations | The engine implements `HaltGate` and confirmed kills are kept in the production deployment, through commits whose outcome is unknown; an order is signed or sent only under the revision it was judged by. |
| `halt_liveness` | fair, plain release | A requested HALT reaches the journal. |
| `submission_gateways` (`MCSubmissions`) | two gateways, two cloids, store faults; the pilot with two orders; one or two proposals and a review | No cloid is sent twice; the rows written replay; a resolution is true; no order is sent while another that its exposure did not count may still fill. The pilot's budget holds, a crossed limit is latched, consent is what the operator was told. Only what was approved is signed, once and as shown. |
| `meters` (`MCMeters`) | one agent, two rates, reserve 0 or 1, 4 instants; five fills, pages of three, two pages; two fills and two gaps with failing writes and restarts | No window has more orders than its rate; polling is free and the wait a refusal names suffices; a walk that returns has every row, and one that gives up says why; orders are admitted only over a ledger that has every fill this program could know of. |
| `ledger_chain` (`MCLedger`) | two processes, 3 rows, 2 faults or one restored copy; the desktop with three accounts | The chain this code wrote verifies but for two failed notes in a row; acknowledged rows stay witnessed, and a copy that lacks one is reported; outcomes cite intents; no cursor skips a row. A stop of the desktop is complete before the program goes, and nothing of a replaced account is used. |
| `node` (`MCNode`) | three subscriptions on two sockets; two runtimes, two pairings, a task; two agents and containers, four registry rows; one supervised agent | A feed called fresh is served; a pairing's authority ends with its revocation; the registry's history replays and nothing is signed under a retired route; a HALT reported as done has cancelled what was working; what the operator is told of a release is so. |
| `liveness` (`MCLiveness`) | smaller instances of five parts, fair | The account recovers, the pool converges, a listener told to stop returns, a HALT is answered and a runtime told to stop ends, an order the venue shows does not hold its account forever. |
| `feed_dropped_frame`, `ledger_crashes`, `rate_global_retry`, `exposure_late_fill` | small instances of the above | One finding each. |

Bounds, and why they are enough. Every bound is a constant named in its module;
the action that would exceed it is disabled.

- `MaxRevision = 3` allows an initial policy and two writers that meet on it,
  the least in which a stale writer can lose and retry. `MaxGeneration` is
  u64::MAX made small: at 2 saturation follows right after a release and its
  acknowledgment, at 5 a full cycle of stop, release, review and trade comes
  before it. One agent and the global scope are two scopes that cover an order
  differently; the theorems hold for any set of agents.
- Two cloids are one order in doubt and one that waits for it. One review
  reaches every step of a confirmation; a failure, a crash, a moved price or new
  authority can fall at any of them (`MaxDisturbances`, one in a behaviour). Two
  proposals reach the rule on repeated requests.
- The pilot's two orders fit its limits each and not together; a fault is a
  fill that is late, repeated, without its cloid or malformed.
- Two fills and two gaps are a fill before and one after an outage that
  interrupts the walk of the startup gap; `MaxHistory` bounds fills and gap rows
  together. Five fills on pages of three with two pages reach a full page, a tie
  that is cut, a stall and an exhausted budget. The rates leave remainders, one
  of them gains nothing in a millisecond, and the clock spans a whole window.
- Three rows and two faults are two unnoted heads in a row, a redaction with its
  row, a window with its two rows, an outcome after its intent. The theorems
  have no such bound; the inductive invariant was also checked with four faults,
  which allows two restored copies.
- Two sockets of two with two exclusive subscriptions make placement fail;
  `QuarantineAfter = 2` reaches the strike before and the quarantine itself.
- One supervised agent with one order: an order posted, in doubt, working,
  filled or cancelled at every step of HALT, release and drain.

`CHECK_DEADLOCK FALSE` is set where a bound stops a part, or where the part
really ends (a walk that returned, a process that closed, a runtime that
stopped). `MCCore`, the policy runs and the feed and rate findings check
deadlock.

## 5. Fairness

- `PolicyEngine`: weak fairness of the step of whoever holds the mutation mutex
  and of the end of a signature (a thread that holds a lock runs to its
  release); strong fairness of taking the mutation mutex for a persist (a fair
  mutex: others may pass finitely often). Operators, agents and peers are not
  assumed to act.
- `Submissions`: weak fairness of a gateway's steps (the runtime polls its
  tasks); strong fairness of a status query that is answered and of resolving
  what it found, which a later order repeats. Nothing is assumed of crashes or
  of the venue's acceptance.
- `Feed`: weak fairness of the pump's steps, its timer and delivery on a
  connection that stays up; strong fairness of handling a queued event and of a
  page fetch, which the timer retries. The property is conditional on the
  connection staying up and no failure being latched.
- `Sockets`: weak fairness of each socket's task and of the proof that a
  connection is stable; strong fairness of the lapse of a wait that is longer
  than the burst it follows. Waits are timers of the runtime.
- `Gateway`: weak fairness of the supervisor's end once it is told to stop, of
  closing connections and returning, of a mutation's commit and publication, of
  a task's moves, and of a blocking worker whose method ended.
- `Supervision`: weak fairness of each worker's next step, of a sweep that was
  woken, of the server's end and the drain, and of the venue's answer to a
  posted request (a timeout is an answer). Operators are not assumed to act.

## 6. Proofs

Proved with TLAPS, for every value of the constants that the named assumptions
of the modules allow: no bound on agents, orders, gateways, cloids, fills,
rates, rows, processes, faults or restored copies. The check of the proofs
takes some minutes.

**PolicyEngine** (`PolicyEngineProofs`). `TypeCorrect`,
`ConfirmedKillsAreDurable`, `RevisionsNamePolicies`,
`AcknowledgmentsReflectReviews`, `AdmissionsUseEvaluatedPolicy` and
`HaltsAreHonoured`. None of them is
inductive, because the engine drops its mutex around every ledger access and
works with what it read before. `Inductive` says why that is sound:

- `JournalCopies`: each copy of the policy (the cache, the snapshot of an
  operation, the operator's document, the policy an order was judged by) is
  never ahead of the journal and equals it where it names its revision. The
  journal never reuses a revision, so a copy can only become old.
- `PendingCommits`: a candidate computed from a revision keeps the kills of
  that revision. It either commits at that revision, or is refused. A reviewed
  release rewrites what it read in its own transaction.
- `ReviewsPublished` and `GenerationsGuard`: what an operator holds was
  published first, and a stop generation that is still current has seen no stop
  since it was captured. The generation saturates instead of wrapping, and a
  saturated generation is never accepted: without that clause the invariant
  fails.
- `HaltsCovered`: every HALT this process was asked for is in the overlay until
  it is released, or the generation has saturated and everything is refused.

Frame lemmas (which actions touch which variable) keep each part's proof to the
few actions that can disturb it. The refinement maps an order's stage to
HaltGate's `admitted`; every step is then one of its actions or a stutter.

**Submissions** (`OrdersProofs`). `OrdersAreDispatchedOnce`,
`JournalsReplay`, `ResolutionsHold`, `ReservationsExclude`. The inductive
invariant ties each gateway's stage to the rows it has written and to what the
venue can have received: a gateway past `begin` owns its cloid alone, only a
gateway at the post stage can still send, and a resolution excludes any later
send.

**LedgerChain** (`LedgerChainProofs`). `ChainIsSound`, `WitnessIsSound`,
`OutcomesNameIntents`, `CursorIsComplete`, from one invariant `LedgerInv`:

- `Tables`: the rows are a chain of rows this program wrote, the head is the
  last of them, each redacted row has a later row that says so and is not
  redacted itself, and windows follow each other. It is a statement about
  prefixes, so that it also holds of a restored copy: lemmas show it for one
  more row (`Grown...`) and for fewer (`Cut...`, `Copy...`).
- `Held`: whoever holds the lock between commit and note has the current head
  in its hand, and one that verified before has a head not behind the last
  acknowledged row. Without the second part a published read could move the
  sidecar back after a restored copy.
- `Witnessed`: the sidecar is behind the chain by no more than the failed notes
  and the one still pending, names a row of it, and is not behind the last
  acknowledged row. `HonestChainVerifies` needs the count, `AckedIsWitnessed`
  the rest.
- `Receipted`: a receipt carries the hash of an intent of its agent. After a
  restored copy the sequence number of a receipt may belong to another row; that
  the hashes agree then makes it the same content, as the last element of a hash
  is the content of its row.
- `Read`: the paging argument. A page is downward closed among the rows after
  the cursor, so a full page may stop at its last row; a page that is not full
  has everything (`PageSkipsNothing`, by counting).
- `Reported`: while nobody has appended to a copy that lacks an acknowledged
  row, the sidecar is ahead of it, and whoever takes the lock to publish
  verified first and was refused.

The first attempt at `Reported` failed for a good reason: the history variable
`lost` was true forever once a copy had lost a row, although a second copy,
taken after the loss, lacks nothing that was acknowledged last. `lost` now
speaks of the copy restored last.

**RateBudget** (`RateBudgetProofs`). `OrdersWithinRate` and `RefillsExact`. The
bound on every window cannot be carried step by step on its own: the proof uses
a potential. For every charge i of a bucket's history, the tokens it holds times
the window, its remainder, and the charges since i do not exceed a full bucket,
what the time since i allows, and one unit less than the window. A refill adds
to both sides, a take moves from the first term to the third, a clock that goes
back adds nothing. That asking is free rests on `RefillComposes` (two refills
leave the tokens one would: a refill leaves the lesser of the capacity and what
was there and gained, and quotients with their remainders add up), that a named
wait suffices on `WaitSuffices` (rounding up).

**Backfill** (`FeedProofs`, at its end). `WalkComplete`: everything booked before the
cursor is in hand, and nothing can be booked behind it any more; a page shorter
than the limit is then the last. `WalkGivesUpForCause`: the rows in hand are not
newer than the cursor, so a page that moves it brings a row the walk did not
have, and a full page that does not move it lies within one millisecond.

**Sums** (`Sums`). Nothing in the library speaks of sums, and the caps of the
account and the pilot's budget are about them. The module shows by induction
over the subsets of a finite set, in the order of the fold (`SubsetsByPick`),
that the fold has a solution, is an integer, grows with its terms
(`TotalGrows`), moves by what one term moves (`TotalMoves`), may take any term
first (`TotalTakes`), splits over disjoint sets and over the values of a key
(`TotalJoins`, `TotalByKey`), and is at most another sum in which each of its
positive terms has a larger one of its own (`TotalWithin`).

**Exposure** (`ExposureProofs`). `PositionCap`, for every account, set of
symbols and caps. The invariant says of each symbol and direction that what is
held and what works in that direction stay within what was inherited or the
caps, and of a call under way that what it read still bounds what is there, as
fills and cancels only move or remove size. `AccountCaps` says the same of the
account's sums, for every finite allowlist: `AccountBounded` bounds the sum of
what each symbol may reach and the sum of its marked notionals, for the books
there are (with the order on its way), the books a call has read and the books
its cleared order would make. Both caps assume `~LateFeed`: with a late fill they are false (section 7).

**Approvals and the pilot's consent** (`OrdersProofs`, over the composition
`MCSubmissions`). `OnlyApprovedIsSigned`, `QueueIsSound`, `ConsentIsToldTruly`
and `DurableStopHolds`; no assumption on any constant is used. The approval
invariant `ApprovalInv` says:

- `JournalInv`: the journal replays, there is a newest policy and a newest
  grant in it, an entry is filed under its first row, and a pending entry has
  no row but that one. `Grows` says what a step can do to an entry that
  is there: it keeps its lifetime, and no decision is undone. What a task
  read before it lost the ledger's lock is therefore still true of the journal.
- `DeskInv`: a review is retained only while the queue is open and idle, and it
  is the review its id displays: a review is in one hand at a time, which is why
  a second click finds nothing to confirm.
- `Preparing`, `Rejecting`, `Confirming`: what a task at each step knows. At
  `sign` the approval is durable and nothing was signed under it yet.

For the consent, `ConsentInv` ties what the owner is told to what the chain
holds: as long as nothing was written no row carries this launch, and an outcome
is told only when nothing is under way. For the durable stop, `StopInv` says
that a stop names its cause and that only a pilot's ledger has one; the halt
state that signing, activation and release each compute is then the stop's.

**The pilot's budget** (`OrdersProofs`). `BudgetInvariant`, then `PilotIsSound`:
all of `PilotSound`, for every set of orders, every size, value, price, limit and
net result of a fill. `PilotAssumption` says that sizes, values, prices and limits
are amounts and that 0, which stands for an order that is not the pilot's, is not
an order. `WithinBudget` is not inductive: an order is admitted by what the
*ledger* has recorded and reserved, the property speaks of what the *venue* has
traded. `BudgetInv`, which TLC checked on the run's instance before it was
proved, ties the two:

- `MarketHolds`, `FillsHold`: the venue trades what was signed, up to its size; a
  fill row is one trade, of its order and at its price, recorded once and behind
  the start of that order.
- `OrdersHold`: what is signed was started, and what a resolution released has
  not traded and will not. A release that were given to an order still alive at
  the venue would free a budget it can yet use.
- `Consistent`, `LegacyHolds`, `StopsHold`: at most one authority and one
  adoption, the baseline of an authority is the row before it, and a stop is
  latched in or behind the fill that caused it. From these `HistoryReplays` follows (`Replays`).
- `OpenHolds`: without a stop every fill since the authority is a fair one and
  none of them crosses a limit. From this `CrossingIsLatched` follows.

The step that needs all of it is the signature (`PermittedIsWithin`): there is no
stop, so every recorded fill is counted; each order's trades that are not
recorded yet are within its size and so within its reservation
(`TradedWithinRecorded`); and the check at admission bounds recorded and reserved
together. Trades and fill rows are matched one to one (`TotalWithin`), which is
why a repeated fill must not be recorded twice and one whose order is unknown
must stop the pilot. Every other step moves value from reserved to traded within
one order (`TradeStep`) or only adds rows.

**Feed** (`FeedProofs`). `LedgerCatchesUp`, `AdmissionsCoverLedger` and the types
they rest on (`FeedTypes`). A fill is on its way to the ledger along one of three
paths: a frame of the connection, the walk that is recording, a gap that is not
reconciled yet. `Settled` is what is in the ledger or will be without another
frame: everything up to the newest fill while a gap is open or the pump starts
up, what a recording walk found together with what lies before its anchor,
otherwise what is recorded. The invariant `FeedInv`:

- `RowsHold`: an undone gap reaches back to where the ledger is complete, or no
  gap is undone and the ledger has no hole. `WalkHolds`: a walk lists every
  undone gap that it has not left, and a session is reconciled only when there
  is none.
- `AnswersHold` and `StreamHolds`: a reconnect is told only after its outage,
  and until the next outage is told of, the frames on the wire and in the queue
  leave no hole behind what is settled.
- `KnownHolds`: what this program could know of is settled.
- `StampHolds`: a current stamp over a calm session was taken after the last
  change of the ledger.

`Settled` never shrinks (`Advances`, one lemma per step of the pump), which
carries the rest from one step to the next. Two conditions of `LedgerCatchesUp`
are hypotheses, because without them it is false of this code: every frame is
readable (`feed_dropped_frame`), and a session that failed is not started again
over the ledger it went on writing to (a remark in section 7).
`AdmissionsCoverLedger` has neither.

**Supervision** (`NodeProofs`). `AckIsTrue`, `CleanStops` and `ReleasesAreTold`
from one invariant, `SupInv`, which TLC checked on the run's instance before it
was proved. The only assumption is that the bound on requests is a number.

- `KillHolds`: the kill a HALT set stays until a release commits for it. A
  release that settles must find its record of the stop generation current; the
  record is cleared by every later HALT, so it can only lift the HALT it was
  reviewed for.
- `QueueHolds`, `NumbersHold`, `CancelHolds`: the argument of the
  acknowledgment. A sweep whose number is above the HALT's baseline started
  after the kill; it takes the account's queue, so no order is being posted when
  it reads; what rests is then among its targets, and while the kill holds the
  set of working orders only shrinks (`WorkingShrinks`). The numbers are needed:
  a sweep that was under way when the HALT came has the baseline's number or a
  lower one and says nothing.
- `OpsHold`: a review is confirmed once, an operation that is terminal has no
  worker, and only terminal ones are reported absent.
- `DurableHolds`, `DrainHolds`: a HALT is called persisted only over a durable
  kill, and an owner the drain has passed is closed, idle and, unless the drain
  failed, has nothing open.

One lemma per variable says which actions write it (`EngineFrame` and the like);
the step lemmas then treat those actions only.

**Registry** (`NodeProofs`). `RegistryHolds`: the state and the action part of
`RegistrySound`, with no assumption. The invariant is `Replays` itself, with
types and with `RoutesHold`. It is inductive only with its roster part: that a
grant's agent lives at no other row (`LiveRow`) is what keeps a provisioning or
an observation from giving it a second one, and that recording never stops for
a managed row is what keeps `opt_out` harmless.

**Gateway** (`NodeProofs`). `GatewayInvariant`, then `AuthorityIsBounded`: all of
`AuthorityHolds`, with no assumption on runtimes, tasks, bindings or bounds. Its
parts are not inductive. What carries
them: at most one runtime holds the owner's lease, and every task is of the one
that does (`OneOwner`); a mutation runs in an open store while nothing reads
(`WriterAlone`), so a revocation commits when nothing signs, and what starts to
sign afterwards reads the flags; a flag that is down is right unless its
revocation is committed and not published (`FlagsRight`), and then the writer
still excludes every reader, or the abandoned mutation has raised every flag; an
open store knows the pairing of every task and signature, because it was opened
from all of them by the one owner (`StoreKnows`); and a listener that is not up
has only tasks that have not entered (`IdleBelow`).

**Sockets** (`NodeProofs`). `PoolInvariant`, then `PoolIsSound`: all of
`PoolSound`. The assumption `PoolAssumption` says that subscriptions are numbered
(the key order), and that the numbers of sockets and of strikes are numbers;
which subscriptions are exclusive or refused, the capacity and the bounds are
arbitrary. The invariant was checked by TLC on three pools larger than the run's
before it was proved. It is a statement about one socket at a time
(`SocketHolds`), which a step on another socket does not disturb (`Elsewhere`):

- `CommandsHold`: the last command queued for a subscription says what the
  registry says. `ServiceHolds` is about the subscriptions for which none is
  queued: the venue serves what the registry holds, or its frame is still to be
  sent, or the close is on the wire; and it serves nothing else.
- `AcksHold`, `WireHolds`: an acknowledgment is recorded only beyond the burst
  and only of what the venue accepts. A frame of an earlier session cannot be
  read in a later one, as the wire goes with the socket.
- `GapsHold`, `OutageHolds`: what lost service and was not told of it is on a
  socket whose outage was announced, and is among what the next connect sends;
  so the reconnect tells of it before it counts as fresh.
- `ChargesHold`: a strike still to come on a healthy subscription has its cause
  already. A subscription that a close cannot charge is `Spared`: it is
  acknowledged or about to be, or quarantined, or a refused one comes before it
  in key order, or it will be sent before any refused one. A strike needs that
  none of this holds, which a drop or a call to the pool must have brought about.

The causes are counted together (`Cause`), as either may come first. What was
stated before, that a healthy feed is quarantined only after network drops, was
false: TLC had confirmed it only because the run's bound on calls was too low for
the counterexample (section 7). `StrikesHaveCause` is what the code does.

**Desktop** (`LedgerChainProofs`, over `MCLedger`, which bundles the two).
`DesktopInvariant`, then `DesktopIsSound`: all of `DesktopHolds`, state and
action part. The one assumption is `ContextsAreNamed`: a context (a network and
an account) is not the absence of one. The invariant was first checked by TLC
with every combination of commands, failures and three contexts, then proved,
action by action.

- `DrainHolds`: the stages of the drain are passed in order and what a stage
  joined is gone, so a stop that is reported, an installed update and an exit
  all find nothing left. It needs `SetupHolds`: a job's phase tells of it, and
  only a retry leaves an outcome open, which is also why the outcome of a
  policy write is kept until it settles.
- `WatchesOrdered`, `FeedHolds`: a pending watch is the newest; the slot's feed
  is the last one started, of the selection's context, and the only one that can
  carry the binding. So a failure that was read from a slot that has since been
  replaced names no feed of this runtime, and stops nothing.
- `OpenIsSettled`, `OneNetwork`, `OneAccount`: while admission is open nothing is
  being replaced, so no read is admitted on one network while the feed moves to
  another, and no MCP owner is launched for another account than the watches'.
  These three hold while admission was never opened under a newer watch
  (`reopened`): after a chart failure the code does just that, which is a finding
  below, and `DesktopHolds` says nothing of network and account from then on.

The operators `BeginStop` and `Failed`, from which every stop is made, are
described once (`StopOf`, `StopsTaken`); the large steps have a lemma that says
what they do field by field.

Only model-checked: the liveness properties, which are outside the prover's logic
here. Every safety and action property of a passing run is stated by a theorem.

## 7. What the project found

Each is a run that TLC refutes, with the lines quoted in `PROJECT.json`.

1. `feed_dropped_frame`: a `userFills` frame that cannot be read is dropped
   without telling the session, which goes on admitting orders over a ledger
   that lacks the fill (`feed.rs:505`).
2. `ledger_crashes`: two crashes or failed sidecar writes in a row leave a chain
   two rows ahead of its witness, which the verifier reports as not a crash
   (`ledger/mod.rs:1244`, `ledger/verify.rs:15`).
3. `rate_global_retry`: an order refused at the reserve is told to retry after
   0 ms (`guardrail/engine.rs:4014`).
4. `exposure_late_fill`: an order that fills between the read of the positions
   and the read of the open orders is in neither; if the fill reaches the feed
   late, the next order passes the open-exposure cap
   (`crates/oppen-mcp/src/tools.rs:2597`).

Remarks made while modelling, without a run of their own:

- Feed: a failed local write latches the session until a restart, but the failed
  session goes on recording later fills, and the restart anchors its walk at the
  newest of them, behind the missing one (`feed/pump.rs:578`).
- Rates: an order that the shared budget refuses has already cost the agent a
  token of its own (`guardrail/engine.rs:2912`). The reserve is compared with
  the tokens before the take (`guardrail/engine.rs:4010`), so an order may leave
  the shared budget less than a token below the reserve, which the comment at
  `guardrail/engine.rs:3984` excludes. A full bucket keeps a remainder when a
  refill gains nothing, which the comment at `guardrail/bucket.rs:119` excludes;
  `RateBound` has the corresponding slack.
- Submissions: the result of a post is not recorded if another gateway observed
  the order at the venue first.
- Ledger: a restored older copy is reported only until some process appends
  without verifying, and the cursor of an agent may skip rows whose sequence
  numbers were issued again.
- Sockets: the comment at `crates/oppen-hl/src/ws.rs:1100` says that a healthy
  feed behind a refused one is never quarantined with it. A consumer that
  unsubscribes the refused one while its close is on the wire leaves the healthy
  one as the first without an acknowledgment; done as often as the quarantine
  takes, without any network failure, the healthy feed is quarantined
  (two subscriptions on one socket, five calls).
- Sockets: the account of an `orderUpdates` frame is read when the frame
  arrives (`crates/oppen-hl/src/ws.rs:1147`), not when it was subscribed; the
  quarantine of a subscription is an event the core ignores (`feed.rs:505`); a
  resubscription that fails while the outage was already announced leaves the
  consumer's flag up.
- Supervision: an order whose post timed out may surface after an acknowledged
  HALT, and the next sweep takes it; reconciling an operation id nobody knows, or
  a review worker that died, leaves the release owner in need of a restart.
- Pilot: a sell that fills above its valuation counts at its own price only once
  recorded; a fill stored first without its cloid and delivered again with it
  before the order is observed latches the pilot as unavailable; `authorize` over
  an account with earlier fills can leave a stop that replay refuses
  (`ledger/pilot.rs:704`; the desktop's consent excludes it); a close after a
  queued reconcile of an uncertain consent ends as closed.
- Desktop: after a chart failure the replacement ends as running without looking
  for a newer selection (`runtime.rs:2994`, against the comment at 3074), so an
  agent of the first account may start while the feed moves to the second; the
  properties that depend on it exclude that case (`reopened`). A HALT is refused
  as busy while a feed is being replaced.
- Exposure: the comment at `guardrail/engine.rs:2788` says that what a reducing
  order frees is what the producer added; the code multiplies the size by
  today's reference price.

## 8. Not modelled

Within the modelled parts: the legacy `operator_approve_proposal`, owner and
binding scoping and display phases (Approvals); corrupted payloads, snapshots,
network binding, export and migration (LedgerChain); lengths of back-off,
staleness budgets and payload parsing (Sockets); `upsert_sub_account`, names,
validity dates and MACs (Registry); header checks and streaming (Gateway);
superseded receipts and the checks of `Prepared::open` (Supervision); breaker,
slippage, freshness, volatility, venue rounding, the operator's own trades and
liquidations (Exposure); cancels, order settlement and attribution of fills, the
`orderUpdates` scope, and `pending_effects`, the cancels a breaker trip queues
for its caller.

Planned and not begun: the nonce source, the dead-man's switch, candle merging,
key rotation (section 2).

Left out for good: key storage and file I/O, encodings and hashes, HTTP,
projections for display, the user interface. They hold no authority over an
order, or are pure functions of large data that unit tests cover better.
