----------------------------- MODULE RateBudget -----------------------------
(***************************************************************************)
(* How the guardrail engine meters requests (guardrail/engine.rs): every   *)
(* agent has an order bucket, built on its first decision and rebuilt when *)
(* the operator changed its rate, and all agents of the master account     *)
(* share one address-wide bucket with a reserve kept for risk-reducing     *)
(* requests.  A decision charges the agent's bucket and then the shared    *)
(* one; a cancel or a dead-man schedule charges only the shared one and is *)
(* never refused by it.  The engine's state mutex makes each decision one  *)
(* step.  Everything else a decision checks comes before the buckets and   *)
(* leaves them alone.                                                      *)
(***************************************************************************)
EXTENDS TokenBucket, Sequences

CONSTANTS
    Agents,         \* agents under the one master account
    Reserves,       \* the reserves an operator may configure
    MaxTime         \* bound on the millisecond clock

\* The key of the shared bucket in `charged`.
Shared == "shared"

ASSUME BudgetAssumption ==
    Reserves \subseteq Nat /\ MaxTime \in Nat /\ Shared \notin Agents

VARIABLES
    now,            \* the wall clock a decision is handed; it may step back
    rate,           \* each agent's configured order_rate
    buckets,        \* EngineState.buckets, of the agents that have decided
    budget,         \* EngineState.global_budget [rate, reserve]
    global,         \* EngineState.global_bucket
    charged,        \* history: when each bucket paid for an order, since built
    sparse          \* history: each agent's bucket as its last take left it

vars == <<now, rate, buckets, budget, global, charged, sparse>>

\* A map with one entry inserted or replaced.
With(f, a, b) == [x \in DOMAIN f \cup {a} |-> IF x = a THEN b ELSE f[x]]

\* GlobalRateBudget::validate.
Budgets == {b \in [rate : Rates, reserve : Reserves] : b.reserve < b.rate.count}

Times == 0 .. MaxTime

Init ==
    /\ now \in Times
    /\ rate \in [Agents -> Rates]
    /\ budget \in Budgets
    /\ global = NewBucket(budget.rate, 0)
    /\ buckets = [a \in {} |-> global]
    /\ charged = [k \in Agents \cup {Shared} |-> << >>]
    /\ sparse = [a \in {} |-> global]

-----------------------------------------------------------------------------
(* Decisions.                                                              *)

\* Does the agent still have the bucket its configured rate asks for?
Kept(a) == a \in DOMAIN buckets /\ buckets[a].rate = rate[a]

\* bucket_mut: the agent's bucket, built or rebuilt full when it must be.
BucketMut(a) == IF Kept(a) THEN buckets[a] ELSE NewBucket(rate[a], now)

\* The decision reaches the agent's bucket and leaves it as b; a rebuilt
\* bucket starts its history afresh.
SetBucket(a, b) ==
    /\ buckets' = With(buckets, a, b)
    /\ sparse' = IF Kept(a) THEN sparse
                 ELSE With(sparse, a, NewBucket(rate[a], now))

\* The history of an agent's charges after a decision that reached its bucket.
Since(a) == IF Kept(a) THEN charged[a] ELSE << >>

\* Refused before or at the agent's bucket: the feed does not admit the
\* decision, or the clock moved backwards (nothing is refilled), ...
RefusedUnmetered(a) ==
    /\ SetBucket(a, BucketMut(a))
    /\ charged' = [charged EXCEPT ![a] = Since(a)]
    /\ UNCHANGED <<now, rate, budget, global>>

\* ... or it is empty: try_take refilled it and took nothing (a preflight that
\* peeks at an empty bucket leaves the same state).
OrderRate(a) ==
    /\ ClockAdvances(BucketMut(a), now)
    /\ ~HasToken(Refill(BucketMut(a), now))
    /\ SetBucket(a, Refill(BucketMut(a), now))
    /\ charged' = [charged EXCEPT ![a] = Since(a)]
    /\ UNCHANGED <<now, rate, budget, global>>

\* An approved proposal paid when it was minted and a preflight pays nothing:
\* both refill the two buckets and take from neither.
DecideUncharged(a) ==
    /\ ClockAdvances(BucketMut(a), now)
    /\ SetBucket(a, Refill(BucketMut(a), now))
    /\ global' = IF ClockAdvances(global, now) THEN Refill(global, now) ELSE global
    /\ charged' = [charged EXCEPT ![a] = Since(a)]
    /\ UNCHANGED <<now, rate, budget>>

\* spend_global refuses a fresh order.
GlobalRefuses(g) == g.tokens <= budget.reserve * MICRO \/ ~HasToken(g)

\* The agent's bucket paid, then the shared one refuses: its clock moved
\* backwards, or the remainder is at the reserve.
GlobalRateBudget(a) ==
    LET paid == Take(Refill(BucketMut(a), now))
    IN /\ ClockAdvances(BucketMut(a), now)
       /\ HasToken(Refill(BucketMut(a), now))
       /\ ClockAdvances(global, now) => GlobalRefuses(Refill(global, now))
       /\ buckets' = With(buckets, a, paid)
       /\ sparse' = With(sparse, a, paid)
       /\ global' = IF ClockAdvances(global, now) THEN Refill(global, now) ELSE global
       /\ charged' = [charged EXCEPT ![a] = Since(a)]
       /\ UNCHANGED <<now, rate, budget>>

\* Both buckets pay for a fresh order (or for the proposal minted for it).
Clear(a) ==
    LET paid == Take(Refill(BucketMut(a), now))
    IN /\ ClockAdvances(BucketMut(a), now)
       /\ HasToken(Refill(BucketMut(a), now))
       /\ ClockAdvances(global, now)
       /\ ~GlobalRefuses(Refill(global, now))
       /\ buckets' = With(buckets, a, paid)
       /\ sparse' = With(sparse, a, paid)
       /\ global' = Take(Refill(global, now))
       /\ charged' = [charged EXCEPT ![a] = Append(Since(a), now),
                                     ![Shared] = Append(@, now)]
       /\ UNCHANGED <<now, rate, budget>>

\* draw_global_reserve: a cancel or a dead-man schedule is charged if there is
\* a token to charge, and goes ahead either way.
DrawGlobalReserve ==
    /\ global' = IF ~ClockAdvances(global, now) THEN global
                 ELSE IF HasToken(Refill(global, now)) THEN Take(Refill(global, now))
                 ELSE Refill(global, now)
    /\ UNCHANGED <<now, rate, buckets, budget, charged, sparse>>

\* operator_set_global_rate_budget: a new rate starts a full bucket, a new
\* reserve keeps the old one.
SetGlobalRateBudget(b) ==
    /\ budget' = b
    /\ IF global.rate = b.rate
       THEN UNCHANGED <<global, charged>>
       ELSE /\ global' = NewBucket(b.rate, now)
            /\ charged' = [charged EXCEPT ![Shared] = << >>]
    /\ UNCHANGED <<now, rate, buckets, sparse>>

\* operator_set_guardrails: the bucket follows at the agent's next decision.
SetOrderRate(a, r) ==
    /\ rate' = [rate EXCEPT ![a] = r]
    /\ UNCHANGED <<now, buckets, budget, global, charged, sparse>>

\* The wall clock moves, either way.
Clock ==
    /\ now' \in Times
    /\ UNCHANGED <<rate, buckets, budget, global, charged, sparse>>

Next ==
    \/ \E a \in Agents : RefusedUnmetered(a) \/ OrderRate(a) \/ DecideUncharged(a)
                         \/ GlobalRateBudget(a) \/ Clear(a)
    \/ DrawGlobalReserve
    \/ \E b \in Budgets : SetGlobalRateBudget(b)
    \/ \E a \in Agents, r \in Rates : SetOrderRate(a, r)
    \/ Clock

Spec == Init /\ [][Next]_vars

-----------------------------------------------------------------------------
(* Properties.                                                             *)

Bucket == {b \in [rate : Rates, tokens : Nat, last : Times, carry : Nat] :
              b.tokens <= Capacity(b.rate) /\ b.carry < b.rate.perMs}

\* The type invariant; a bucket never holds more than its capacity and its
\* remainder stays below the window (bucket.rs, the doc of `carry`).
TypeOK ==
    /\ now \in Times
    /\ rate \in [Agents -> Rates]
    /\ DOMAIN buckets \subseteq Agents /\ buckets \in [DOMAIN buckets -> Bucket]
    /\ budget \in Budgets
    /\ global \in Bucket /\ global.rate = budget.rate
    /\ charged \in [Agents \cup {Shared} -> Seq(Times)]
    /\ sparse \in [DOMAIN buckets -> Bucket]

\* The charges in s, paid by a bucket of rate r: between any two of them no
\* more orders than a full bucket and the refill of the time between them
\* (short of one fraction more, the remainder a full bucket may keep).
WithinRate(s, r) ==
    \A i, j \in DOMAIN s :
        i <= j => (j - i + 1 - r.count) * MICRO * r.perMs
                      <= (s[j] - s[i]) * Capacity(r) + r.perMs - 1

\* The rate is what caps an agent's orders, and the shared budget what caps
\* all of them, over every window and not only aligned ones, however often
\* the buckets are asked, whatever the clock does (bucket.rs, module docs:
\* "A fixed window would let an agent send 2 x count orders across a window
\* boundary").
RateBound ==
    /\ \A a \in DOMAIN buckets : WithinRate(charged[a], buckets[a].rate)
    /\ WithinRate(charged[Shared], global.rate)

\* Refused orders, preflights and approved proposals refill a bucket between
\* two charges and change nothing an agent can see: at every later time the
\* bucket holds what it would hold had nobody asked (TokenBucket::refill,
\* "tokens(t) depends only on t, never on how often it was asked").
PollingIsFree ==
    \A a \in DOMAIN buckets : \A t \in buckets[a].last .. MaxTime :
        Refill(buckets[a], t).tokens = Refill(sparse[a], t).tokens

\* The wait an order_rate refusal names is long enough: an agent that sends
\* the same order again after retry_after_ms finds a token
\* (BucketError::Empty, "the wait until one full token has accrued").
RetrySuffices ==
    \A a \in DOMAIN buckets :
        /\ ~HasToken(buckets[a])
        /\ RetryAfterMs(buckets[a]) # Never
        => HasToken(Refill(buckets[a], buckets[a].last + RetryAfterMs(buckets[a])))

\* The wait a GlobalRateBudget refusal names is long enough as well
\* (docs/decisions.md C2: both rate refusals carry "the exact wait until a
\* token refills", "back off for 10 s and re-send the identical order").
GlobalRetrySuffices ==
    GlobalRefuses(global) =>
        ~GlobalRefuses(Refill(global, global.last + RetryAfterMs(global)))

\* Refills are exact: asking changes nothing, and the named wait suffices.
RefillsAreExact == TypeOK /\ PollingIsFree /\ RetrySuffices
=============================================================================
