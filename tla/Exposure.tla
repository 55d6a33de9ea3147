------------------------------ MODULE Exposure ------------------------------
(***************************************************************************)
(* What one order may add to an account: the size rules of                 *)
(* GuardrailEngine::decide (guardrail/engine.rs) over the exposure that    *)
(* the gateway reads for it (oppen-mcp/src/tools.rs, evaluation_context;   *)
(* state.rs, exposure_from), and what the venue then does with the book.   *)
(*                                                                         *)
(* An exposure is several reads.  The feed is stamped first, positions and *)
(* open orders are then read one after the other, and the stamp is checked *)
(* when the order is decided and again before it is sent.  Fills and       *)
(* cancels go on between all of these steps.                               *)
(*                                                                         *)
(* Sizes are whole units of notional at a reference price that does not    *)
(* move, so equity does not move either and a leverage cap is a cap on     *)
(* notional.  An account has one submission at a time (Submissions,        *)
(* NoOrderEscapesReservation), so there is one call.                       *)
(***************************************************************************)
EXTENDS Integers, FiniteSets, FiniteSetsExt

CONSTANTS
    Symbols,        \* the agent's allowlist
    MaxOrderUsd,    \* config.max_order_usd
    MaxPositionUsd, \* config.max_position_usd
    VolCapUsd,      \* the cap that config.risk.max_risk_usd buys at this volatility
    MaxOpenUsd,     \* config.risk.max_open_exposure_usd
    MaxGrossUsd,    \* the leverage cap times equity
    Accounts,       \* the positions and books the caps may find
    LateFeed,       \* a fill during a call may reach the feed late
    MaxCalls        \* bound: calls of place and close_position

ASSUME ExposureAssumption ==
    /\ IsFiniteSet(Symbols)
    /\ MaxOrderUsd \in Nat /\ MaxPositionUsd \in Nat /\ VolCapUsd \in Nat
    /\ MaxOpenUsd \in Nat /\ MaxGrossUsd \in Nat
    /\ Accounts \subseteq [position : [Symbols -> Int],
                          book : [Symbols -> [{"buys", "sells", "reduce_buys", "reduce_sells"} -> Nat]]]
    /\ LateFeed \in BOOLEAN
    /\ MaxCalls \in Nat

VARIABLES
    position,   \* the venue's signed size of each symbol
    book,       \* the venue's open orders, summed by side and by reduce_only
    winding,    \* config.reduce_only
    call,       \* the call that is being answered
    unseen,     \* some fill has not reached the feed yet
    calls,      \* calls so far
    inherited   \* history: the account as the caps found it

bookVars == <<position, book, winding, call, unseen, calls, inherited>>

-----------------------------------------------------------------------------
(* Books and positions *)

Sides == {"buys", "sells", "reduce_buys", "reduce_sells"}

Book == [Sides -> Nat]

EmptyBook == [side \in Sides |-> 0]

Order == [symbol : Symbols, side : Sides, size : Nat \ {0}]

IsBuy(o) == o.side \in {"buys", "reduce_buys"}

ReduceOnly(o) == o.side \in {"reduce_buys", "reduce_sells"}

Abs(n) == IF n < 0 THEN -n ELSE n

Least(a, b) == IF a <= b THEN a ELSE b

Greatest(a, b) == IF a >= b THEN a ELSE b

(* The working book with one more order in it. *)
With(b, o) == [b EXCEPT ![o.side] = @ + o.size]

(* The farthest the fills can take the position either way: reductions     *)
(* first, as far as they are clipped, then every opening order.            *)
Long(p, b) == p + Least(b["reduce_buys"], Greatest(-p, 0)) + b["buys"]

Short(p, b) == p - Least(b["reduce_sells"], Greatest(p, 0)) - b["sells"]

WorstPosition(p, b) == Greatest(Abs(Long(p, b)), Abs(Short(p, b)))

(* exposure_from: the marked positions and the marked opening orders.      *)
Opening(b) == b["buys"] + b["sells"]

SymbolNotional(p, b) == Abs(p) + Opening(b)

AccountNotional(ps, bs) == MapThenSumSet(LAMBDA s : SymbolNotional(ps[s], bs[s]), Symbols)

-----------------------------------------------------------------------------
(* The size rules of decide, for order o on positions ps and books bs.     *)

Before(o, ps, bs) == WorstPosition(ps[o.symbol], bs[o.symbol])

After_Netted(o, ps, bs) == Abs(ps[o.symbol] + (IF IsBuy(o) THEN o.size ELSE -o.size))

After(o, ps, bs) == WorstPosition(ps[o.symbol], With(bs[o.symbol], o))

OppositeSide(o, p) == p # 0 /\ IsBuy(o) = (p < 0)

GenuineReduction_Flag(o, ps, bs) == ReduceOnly(o)

GenuineReduction(o, ps, bs) ==
    /\ ReduceOnly(o)
    /\ OppositeSide(o, ps[o.symbol])
    /\ After(o, ps, bs) <= Before(o, ps, bs)

Filled(o, p) == IF IsBuy(o) THEN p + o.size ELSE p - o.size

ReducesPosition(o, ps, bs) ==
    \/ GenuineReduction(o, ps, bs)
    \/ /\ ~ReduceOnly(o)
       /\ After(o, ps, bs) <= Before(o, ps, bs)
       /\ Abs(Filled(o, ps[o.symbol])) < Abs(ps[o.symbol])

(* check_reduce_only *)
WindsDown(o, p) == ReduceOnly(o) /\ OppositeSide(o, p) /\ o.size <= Abs(p)

OpeningSize(o) == IF ReduceOnly(o) THEN 0 ELSE o.size

WithinOpenExposure_Filled(o, ps, bs) ==
    GenuineReduction(o, ps, bs)
    \/ MapThenSumSet(LAMBDA s : Abs(ps[s]), Symbols) + OpeningSize(o) <= MaxOpenUsd

WithinOpenExposure(o, ps, bs) ==
    GenuineReduction(o, ps, bs) \/ AccountNotional(ps, bs) + OpeningSize(o) <= MaxOpenUsd

(* This symbol's contribution is replaced by what its book may become;     *)
(* the other symbols stay in.                                              *)
WithinLeverage(o, ps, bs) ==
    \/ GenuineReduction(o, ps, bs)
    \/ AccountNotional(ps, bs) - SymbolNotional(ps[o.symbol], bs[o.symbol]) + After(o, ps, bs) <= MaxGrossUsd

Clears(o, ps, bs) ==
    /\ winding => WindsDown(o, ps[o.symbol])
    /\ o.size <= MaxOrderUsd
    /\ GenuineReduction(o, ps, bs) \/ After(o, ps, bs) <= MaxPositionUsd
    /\ ReducesPosition(o, ps, bs) \/ After(o, ps, bs) <= VolCapUsd
    /\ WithinOpenExposure(o, ps, bs)
    /\ WithinLeverage(o, ps, bs)

-----------------------------------------------------------------------------
(* The call: place, close_position *)

Idle == [step |-> "idle"]

(* The order of the call that the venue may still execute. *)
InFlight == call.step = "sent"

CommittedBook(s) == IF InFlight /\ call.order.symbol = s THEN With(book[s], call.order) ELSE book[s]

BookInit ==
    /\ \E account \in Accounts : position = account.position /\ book = account.book
    /\ winding \in BOOLEAN
    /\ call = Idle
    /\ unseen = FALSE
    /\ calls = 0
    /\ inherited = [worst |-> [s \in Symbols |-> WorstPosition(position[s], book[s])],
                    open |-> AccountNotional(position, book),
                    gross |-> MapThenSumSet(LAMBDA s : WorstPosition(position[s], book[s]), Symbols)]

(* The account is reserved and the feed stamped. *)
Stamp ==
    /\ call = Idle
    /\ calls < MaxCalls
    /\ call' = [step |-> "stamped", moved |-> FALSE]
    /\ calls' = calls + 1
    /\ UNCHANGED <<position, book, winding, unseen, inherited>>

(* read_state, clearinghouse_state *)
ReadPositions ==
    /\ call.step = "stamped"
    /\ call' = [step |-> "positions", moved |-> call.moved, position |-> position]
    /\ UNCHANGED <<position, book, winding, unseen, calls, inherited>>

(* read_state, frontend_open_orders *)
ReadOrders ==
    /\ call.step = "positions"
    /\ call' = [step |-> "read", moved |-> call.moved, position |-> call.position, book |-> book]
    /\ UNCHANGED <<position, book, winding, unseen, calls, inherited>>

(* The engine's feed admits the stamp. *)
Admits_Always == TRUE

Admits == ~call.moved

(* close_intent: the position's own size, against it. *)
CloseOrder(s, p) ==
    [symbol |-> s, side |-> IF p < 0 THEN "reduce_buys" ELSE "reduce_sells", size |-> Abs(p)]

Requests ==
    [symbol : Symbols, side : Sides, size : 1..MaxOrderUsd]
        \cup {CloseOrder(s, call.position[s]) : s \in {t \in Symbols : call.position[t] # 0}}

Clear(o) ==
    /\ call.step = "read"
    /\ Admits
    /\ Clears(o, call.position, call.book)
    /\ call' = [step |-> "cleared", moved |-> FALSE, order |-> o]
    /\ UNCHANGED <<position, book, winding, unseen, calls, inherited>>

(* Refused, answered without an order, or a read failed: nothing is left.  *)
GiveUp ==
    /\ call.step \in {"stamped", "positions", "read", "cleared"}
    /\ call' = Idle
    /\ UNCHANGED <<position, book, winding, unseen, calls, inherited>>

(* Signed and posted, the stamp admitted once more. *)
Send ==
    /\ call.step = "cleared"
    /\ Admits
    /\ call' = [step |-> "sent", moved |-> FALSE, order |-> call.order]
    /\ UNCHANGED <<position, book, winding, unseen, calls, inherited>>

(* The venue takes the order, or it does not; the submission is resolved.  *)
Arrive ==
    /\ call.step = "sent"
    /\ book' \in {book, [book EXCEPT ![call.order.symbol] = With(@, call.order)]}
    /\ call' = Idle
    /\ UNCHANGED <<position, winding, unseen, calls, inherited>>

-----------------------------------------------------------------------------
(* The venue and the feed *)

Noted == IF call = Idle THEN call ELSE [call EXCEPT !.moved = TRUE]

Fillable(s, side) ==
    CASE side = "reduce_buys"  -> Least(book[s][side], Greatest(-position[s], 0))
      [] side = "reduce_sells" -> Least(book[s][side], Greatest(position[s], 0))
      [] OTHER                 -> book[s][side]

(* Part of a side fills; a reduction never beyond flat. *)
Fill(s, side, n) ==
    /\ n \in 1..Fillable(s, side)
    /\ position' = [position EXCEPT ![s] = IF side \in {"buys", "reduce_buys"} THEN @ + n ELSE @ - n]
    /\ book' = [book EXCEPT ![s][side] = @ - n]
    /\ \/ call' = Noted /\ unseen' = unseen
       \/ (LateFeed \/ call = Idle) /\ unseen' = TRUE /\ call' = call
    /\ UNCHANGED <<winding, calls, inherited>>

(* The feed records the fills it had not seen, which moves its revision.   *)
Deliver ==
    /\ unseen
    /\ unseen' = FALSE
    /\ call' = Noted
    /\ UNCHANGED <<position, book, winding, calls, inherited>>

Shrunk(s, side, n) == [book EXCEPT ![s][side] = @ - n]

(* cancel: one order, the account's execution queue held. *)
Cancel(s, side, n) ==
    /\ call = Idle
    /\ n \in 1..book[s][side]
    /\ book' = Shrunk(s, side, n)
    /\ UNCHANGED <<position, winding, call, unseen, calls, inherited>>

(* cancel_all: every order, or every one on a symbol. *)
CancelAll(targets) ==
    /\ call = Idle
    /\ book' = [s \in Symbols |-> IF s \in targets THEN EmptyBook ELSE book[s]]
    /\ UNCHANGED <<position, winding, call, unseen, calls, inherited>>

(* The venue drops an order: expired, refused on arrival, a reduction with *)
(* nothing left to reduce, or a cancel whose answer was lost.              *)
VenueDrops(s, side, n) ==
    /\ n \in 1..book[s][side]
    /\ book' = Shrunk(s, side, n)
    /\ UNCHANGED <<position, winding, call, unseen, calls, inherited>>

BookNext ==
    \/ Stamp \/ ReadPositions \/ ReadOrders \/ GiveUp \/ Send \/ Arrive \/ Deliver
    \/ call.step = "read" /\ \E o \in Requests : Clear(o)
    \/ \E s \in Symbols, side \in Sides :
          \/ \E n \in 1..book[s][side] : Fill(s, side, n)
          \/ \E n \in 1..book[s][side] : Cancel(s, side, n)
          \/ \E n \in 1..book[s][side] : VenueDrops(s, side, n)
    \/ \E s \in Symbols : CancelAll({s})
    \/ CancelAll(Symbols)

BookSpec == BookInit /\ [][BookNext]_bookVars

-----------------------------------------------------------------------------
(* Properties *)

(* However the working orders fill, and in whatever order, no position     *)
(* passes the tighter of its two caps, unless the account's own book could *)
(* when the caps were set: several orders that are each within the cap do  *)
(* not add up, and a reduction does not let an opening order flip the      *)
(* position beyond it (RestingExposure; "bypassable by splitting").        *)
PositionCapHolds ==
    \A s \in Symbols :
        Abs(position[s]) <= Greatest(Least(MaxPositionUsd, VolCapUsd), inherited.worst[s])

(* The gross open exposure of the account, the order on its way included,  *)
(* and its positions taken together stay within their limits, unless they  *)
(* were, or could be, above when those were set.                           *)
AccountCapsHold ==
    /\ MapThenSumSet(LAMBDA s : SymbolNotional(position[s], CommittedBook(s)), Symbols)
           <= Greatest(MaxOpenUsd, inherited.open)
    /\ MapThenSumSet(LAMBDA s : Abs(position[s]), Symbols) <= Greatest(MaxGrossUsd, inherited.gross)

=============================================================================
