---------------------------- MODULE TokenBucket ----------------------------
(***************************************************************************)
(* The order-rate token bucket of crates/oppen-core/src/guardrail/         *)
(* bucket.rs: integer arithmetic in fractions of a token, refilled         *)
(* continuously, with the remainder of each refill kept as a numerator.    *)
(* A bucket is a record [rate, tokens, last, carry]; a rate is             *)
(* [count, perMs].  MICRO, the fractions in one token, is 10^6 in the      *)
(* code and a parameter here.  The code's products fit the u128 it         *)
(* computes them in, so no width is modelled.                              *)
(***************************************************************************)
EXTENDS Integers

CONSTANTS
    MICRO,      \* fractions of a token in one token
    Rates       \* the rates an operator may configure

ASSUME MicroAssumption == MICRO \in Nat \ {0}

\* OrderRate after validation: AgentGuardrails::validate and
\* GlobalRateBudget::validate refuse a zero window.
ASSUME RatesAssumption == Rates \subseteq [count : Nat, perMs : Nat \ {0}]

Capacity(rate) == rate.count * MICRO

\* Constructed full.
NewBucket(rate, now) ==
    [rate |-> rate, tokens |-> Capacity(rate), last |-> now, carry |-> 0]

\* A clock that moved backwards refuses instead of refilling.
ClockAdvances(b, now) == b.last <= now

Numerator(b, now) == (now - b.last) * Capacity(b.rate) + b.carry

Gained(b, now) == b.tokens + Numerator(b, now) \div b.rate.perMs

\* Mutant of Fills: the bucket is not capped.
Fills_Never(b, now) == FALSE

\* A refill that fills the bucket drops the remainder; one too short to gain
\* anything keeps it, even in a full bucket.
Fills(b, now) ==
    /\ Numerator(b, now) >= b.rate.perMs
    /\ Gained(b, now) >= Capacity(b.rate)

\* Mutant of Refill: the remainder is thrown away.
Refill_NoCarry(b, now) ==
    [b EXCEPT !.last   = now,
              !.tokens = IF Fills(b, now) THEN Capacity(b.rate) ELSE Gained(b, now)]

\* Mutant of Refill: the clock is rewound by the time the remainder stands
\* for, which is then charged again.
Refill_Rewind(b, now) ==
    [b EXCEPT !.last   = IF Numerator(b, now) < b.rate.perMs THEN @ ELSE now,
              !.tokens = IF Fills(b, now) THEN Capacity(b.rate) ELSE Gained(b, now),
              !.carry  = IF Fills(b, now) THEN 0
                         ELSE Numerator(b, now) % b.rate.perMs]

Refill(b, now) ==
    [rate   |-> b.rate,
     tokens |-> IF Fills(b, now) THEN Capacity(b.rate) ELSE Gained(b, now),
     last   |-> now,
     carry  |-> IF Fills(b, now) THEN 0 ELSE Numerator(b, now) % b.rate.perMs]

\* peek: is there a whole token?
HasToken(b) == b.tokens >= MICRO

\* The spend of try_take, after its refill and peek.
Take(b) == [b EXCEPT !.tokens = @ - MICRO]

\* u64::MAX: no wait ever produces a token.
Never == -1

\* Mutant of RetryAfterMs: rounded down.
RetryAfterMs_Floor(b) ==
    IF Capacity(b.rate) = 0 THEN Never
    ELSE LET missing == IF HasToken(b) THEN 0 ELSE MICRO - b.tokens
         IN (missing * b.rate.perMs) \div Capacity(b.rate)

\* Milliseconds until one whole token exists, rounded up.
RetryAfterMs(b) ==
    IF Capacity(b.rate) = 0 THEN Never
    ELSE LET missing == IF HasToken(b) THEN 0 ELSE MICRO - b.tokens
         IN (missing * b.rate.perMs + Capacity(b.rate) - 1) \div Capacity(b.rate)
=============================================================================
