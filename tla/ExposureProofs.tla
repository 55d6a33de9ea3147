--------------------------- MODULE ExposureProofs ---------------------------
(***************************************************************************)
(* The position cap and the caps of the account, for any finite allowlist, *)
(* caps, starting books and number of calls, when a fill is in the feed as *)
(* soon as it has happened.                                                *)
(***************************************************************************)
EXTENDS Exposure, Sums, FiniteSetTheorems, TLAPS

Call ==
    {Idle}
        \cup [step : {"stamped"}, moved : BOOLEAN]
        \cup [step : {"positions"}, moved : BOOLEAN, position : [Symbols -> Int]]
        \cup [step : {"read"}, moved : BOOLEAN, position : [Symbols -> Int], book : [Symbols -> Book]]
        \cup [step : {"cleared", "sent"}, moved : BOOLEAN, order : Order]

BookTypeOK ==
    /\ position \in [Symbols -> Int]
    /\ book \in [Symbols -> Book]
    /\ winding \in BOOLEAN
    /\ call \in Call
    /\ inherited.worst \in [Symbols -> Int]

Bound(s) == Greatest(Least(MaxPositionUsd, VolCapUsd), inherited.worst[s])

Smaller(b, c) == \A side \in Sides : b[side] <= c[side]

(* What the working orders can still do is bounded. *)
BookBounded == \A s \in Symbols : WorstPosition(position[s], CommittedBook(s)) <= Bound(s)

(* What was read is what there is, but for cancels, until the feed moves. *)
ReadHolds ==
    /\ call.step = "positions" /\ ~call.moved => call.position = position
    /\ call.step = "read" /\ ~call.moved =>
          /\ call.position = position
          /\ \A s \in Symbols : /\ Smaller(book[s], call.book[s])
                                /\ WorstPosition(position[s], call.book[s]) <= Bound(s)

(* The cleared order fits the book it was cleared for, until the feed moves. *)
ClearedFits ==
    call.step = "cleared" /\ ~call.moved =>
        WorstPosition(position[call.order.symbol], With(book[call.order.symbol], call.order))
            <= Bound(call.order.symbol)

BookInv == BookTypeOK /\ BookBounded /\ ReadHolds /\ ClearedFits

-----------------------------------------------------------------------------
(* Books *)

(* The extremes lie on either side of the position, and the worst position *)
(* is within a bound exactly when both of them are.                        *)
LEMMA WorstIsExtreme ==
    ASSUME NEW p \in Int, NEW b \in Book, NEW m \in Int
    PROVE  /\ Long(p, b) \in Int /\ Short(p, b) \in Int /\ WorstPosition(p, b) \in Int
           /\ Short(p, b) <= p /\ p <= Long(p, b)
           /\ WorstPosition(p, b) <= m <=> Long(p, b) <= m /\ -m <= Short(p, b)
    <1>1. /\ b["buys"] \in Nat /\ b["sells"] \in Nat
          /\ b["reduce_buys"] \in Nat /\ b["reduce_sells"] \in Nat
        BY DEF Book, Sides
    <1>2. /\ Least(b["reduce_buys"], Greatest(-p, 0)) \in Nat
          /\ Least(b["reduce_sells"], Greatest(p, 0)) \in Nat
        BY <1>1 DEF Least, Greatest
    <1>3. /\ Long(p, b) \in Int /\ Short(p, b) \in Int
          /\ Short(p, b) <= p /\ p <= Long(p, b)
        BY <1>1, <1>2 DEF Long, Short
    <1>4. WorstPosition(p, b) \in Int
        BY <1>3 DEF WorstPosition, Greatest, Abs
    <1>5. WorstPosition(p, b) <= m <=> Long(p, b) <= m /\ -m <= Short(p, b)
        BY <1>3 DEF WorstPosition, Greatest, Abs
    <1> QED BY <1>3, <1>4, <1>5

(* A smaller book reaches no farther (cancels). *)
LEMMA SmallerReachesLess ==
    ASSUME NEW p \in Int, NEW b \in Book, NEW c \in Book, Smaller(b, c)
    PROVE  WorstPosition(p, b) <= WorstPosition(p, c)
    <1>1. /\ b["buys"] \in Nat /\ b["sells"] \in Nat
          /\ b["reduce_buys"] \in Nat /\ b["reduce_sells"] \in Nat
          /\ c["buys"] \in Nat /\ c["sells"] \in Nat
          /\ c["reduce_buys"] \in Nat /\ c["reduce_sells"] \in Nat
        BY DEF Book, Sides
    <1>2. /\ b["buys"] <= c["buys"] /\ b["sells"] <= c["sells"]
          /\ b["reduce_buys"] <= c["reduce_buys"] /\ b["reduce_sells"] <= c["reduce_sells"]
        BY DEF Smaller, Sides
    <1>3. Long(p, b) <= Long(p, c) /\ Short(p, c) <= Short(p, b)
        BY <1>1, <1>2 DEF Long, Short, Least, Greatest
    <1>4. WorstPosition(p, c) \in Int
        BY WorstIsExtreme
    <1>5. Long(p, c) <= WorstPosition(p, c) /\ -WorstPosition(p, c) <= Short(p, c)
        BY <1>4, WorstIsExtreme
    <1>6. Long(p, b) <= WorstPosition(p, c) /\ -WorstPosition(p, c) <= Short(p, b)
        BY <1>3, <1>4, <1>5, WorstIsExtreme
    <1> QED BY <1>4, <1>6, WorstIsExtreme

(* A position is one of the positions its book can reach. *)
LEMMA PositionIsReached ==
    ASSUME NEW p \in Int, NEW b \in Book
    PROVE  Abs(p) <= WorstPosition(p, b)
    <1>1. WorstPosition(p, b) \in Int
        BY WorstIsExtreme
    <1>2. Long(p, b) <= WorstPosition(p, b) /\ -WorstPosition(p, b) <= Short(p, b)
        BY <1>1, WorstIsExtreme
    <1> QED BY <1>1, <1>2, WorstIsExtreme DEF Abs

(* What a side may fill: an order, a reduction no farther than flat.       *)
MayFill(p, b, side) ==
    CASE side = "reduce_buys"  -> Least(b[side], Greatest(-p, 0))
      [] side = "reduce_sells" -> Least(b[side], Greatest(p, 0))
      [] OTHER                 -> b[side]

Moved(p, side, n) == IF side \in {"buys", "reduce_buys"} THEN p + n ELSE p - n

(* A fill takes the position nowhere its book could not. *)
LEMMA FillReachesLess ==
    ASSUME NEW p \in Int, NEW b \in Book, NEW side \in Sides, NEW n \in Nat, n <= MayFill(p, b, side)
    PROVE  /\ Moved(p, side, n) \in Int
           /\ [b EXCEPT ![side] = @ - n] \in Book
           /\ WorstPosition(Moved(p, side, n), [b EXCEPT ![side] = @ - n]) <= WorstPosition(p, b)
    <1> DEFINE q == Moved(p, side, n)
               c == [b EXCEPT ![side] = @ - n]
    <1>1. /\ b["buys"] \in Nat /\ b["sells"] \in Nat
          /\ b["reduce_buys"] \in Nat /\ b["reduce_sells"] \in Nat
        BY DEF Book, Sides
    <1>2. q \in Int
        BY DEF Moved
    <1>3. b[side] \in Nat /\ n <= b[side]
        BY <1>1 DEF MayFill, Least, Greatest, Book, Sides
    <1>4. c \in Book
        BY <1>3 DEF Book
    <1>5. Long(q, c) <= Long(p, b) /\ Short(p, b) <= Short(q, c)
        <2>1. CASE side = "buys"
            <3>1. /\ c["buys"] = b["buys"] - n /\ c["sells"] = b["sells"]
                  /\ c["reduce_buys"] = b["reduce_buys"] /\ c["reduce_sells"] = b["reduce_sells"]
                  /\ q = p + n /\ n <= b["buys"]
                BY <2>1, <1>3 DEF Book, Sides, Moved
            <3> HIDE DEF q, c
            <3> QED BY <3>1, <1>1, <1>2 DEF Long, Short, Least, Greatest
        <2>2. CASE side = "sells"
            <3>1. /\ c["buys"] = b["buys"] /\ c["sells"] = b["sells"] - n
                  /\ c["reduce_buys"] = b["reduce_buys"] /\ c["reduce_sells"] = b["reduce_sells"]
                  /\ q = p - n /\ n <= b["sells"]
                BY <2>2, <1>3 DEF Book, Sides, Moved
            <3> HIDE DEF q, c
            <3> QED BY <3>1, <1>1, <1>2 DEF Long, Short, Least, Greatest
        <2>3. CASE side = "reduce_buys"
            <3>1. /\ c["buys"] = b["buys"] /\ c["sells"] = b["sells"]
                  /\ c["reduce_buys"] = b["reduce_buys"] - n /\ c["reduce_sells"] = b["reduce_sells"]
                  /\ q = p + n
                BY <2>3, <1>3 DEF Book, Sides, Moved
            <3>2. n <= b["reduce_buys"] /\ n <= Greatest(-p, 0)
                BY <2>3, <1>1 DEF MayFill, Least, Greatest
            <3> HIDE DEF q, c
            <3> QED BY <3>1, <3>2, <1>1, <1>2 DEF Long, Short, Least, Greatest
        <2>4. CASE side = "reduce_sells"
            <3>1. /\ c["buys"] = b["buys"] /\ c["sells"] = b["sells"]
                  /\ c["reduce_buys"] = b["reduce_buys"] /\ c["reduce_sells"] = b["reduce_sells"] - n
                  /\ q = p - n
                BY <2>4, <1>3 DEF Book, Sides, Moved
            <3>2. n <= b["reduce_sells"] /\ n <= Greatest(p, 0)
                BY <2>4, <1>1 DEF MayFill, Least, Greatest
            <3> HIDE DEF q, c
            <3> QED BY <3>1, <3>2, <1>1, <1>2 DEF Long, Short, Least, Greatest
        <2> QED BY <2>1, <2>2, <2>3, <2>4 DEF Sides
    <1>6. WorstPosition(p, b) \in Int
        BY WorstIsExtreme
    <1>7. Long(p, b) <= WorstPosition(p, b) /\ -WorstPosition(p, b) <= Short(p, b)
        BY <1>6, WorstIsExtreme
    <1>8. Long(q, c) <= WorstPosition(p, b) /\ -WorstPosition(p, b) <= Short(q, c)
        <2>1. /\ Long(q, c) \in Int /\ Short(q, c) \in Int
              /\ Long(p, b) \in Int /\ Short(p, b) \in Int
            BY <1>2, <1>4, WorstIsExtreme
        <2> QED BY <2>1, <1>5, <1>6, <1>7
    <1>9. WorstPosition(q, c) <= WorstPosition(p, b)
        BY <1>2, <1>4, <1>6, <1>8, WorstIsExtreme
    <1> QED BY <1>2, <1>4, <1>9

(* One more order in the book keeps it a book, and keeps the comparison.   *)
LEMMA WithGrows ==
    ASSUME NEW b \in Book, NEW c \in Book, Smaller(b, c), NEW o \in Order
    PROVE  /\ With(b, o) \in Book /\ With(c, o) \in Book
           /\ Smaller(b, With(b, o)) /\ Smaller(With(b, o), With(c, o))
    <1>1. o.side \in Sides /\ o.size \in Nat
        BY DEF Order
    <1>2. \A side \in Sides : b[side] \in Nat /\ c[side] \in Nat /\ b[side] <= c[side]
        BY DEF Book, Smaller
    <1> QED BY <1>1, <1>2 DEF With, Book, Smaller

-----------------------------------------------------------------------------
(* The invariant *)

LEMMA CallShape ==
    ASSUME BookTypeOK
    PROVE  /\ call.step \in {"stamped", "positions", "read", "cleared", "sent"} => call.moved \in BOOLEAN
           /\ call.step = "positions" => call.position \in [Symbols -> Int]
           /\ call.step = "read" => call.position \in [Symbols -> Int] /\ call.book \in [Symbols -> Book]
           /\ call.step \in {"cleared", "sent"} => call.order \in Order
           /\ call.step \in {"idle", "stamped", "positions", "read", "cleared", "sent"}
           /\ call.step = "idle" <=> call = Idle
    BY DEF BookTypeOK, Call, Idle

LEMMA BoundIsInt ==
    ASSUME BookTypeOK, NEW s \in Symbols
    PROVE  Bound(s) \in Int
    BY ExposureAssumption DEF BookTypeOK, Bound, Greatest, Least

LEMMA OrderShape ==
    ASSUME NEW o \in Order
    PROVE  o.symbol \in Symbols /\ o.side \in Sides /\ o.size \in Nat
    BY DEF Order

(* The steps that read, give up or send leave the account alone.           *)
LEMMA CallSteps ==
    ASSUME BookInv, Stamp \/ ReadPositions \/ ReadOrders \/ GiveUp \/ Send
    PROVE  BookInv'
    <1> USE DEF BookInv
    <1>0. /\ UNCHANGED <<position, book, winding, inherited>>
          /\ \A s \in Symbols : Bound(s)' = Bound(s)
        BY DEF Stamp, ReadPositions, ReadOrders, GiveUp, Send, Bound
    <1>1. CASE Stamp
        <2>1. call' = [step |-> "stamped", moved |-> FALSE] /\ ~InFlight
            BY <1>1 DEF Stamp, InFlight, Idle
        <2>2. BookTypeOK'
            BY <2>1, <1>0 DEF BookTypeOK, Call
        <2>3. BookBounded'
            BY <2>1, <1>0 DEF BookBounded, CommittedBook, InFlight
        <2>4. ReadHolds' /\ ClearedFits'
            BY <2>1 DEF ReadHolds, ClearedFits
        <2> QED BY <2>2, <2>3, <2>4
    <1>2. CASE ReadPositions
        <2>1. /\ call' = [step |-> "positions", moved |-> call.moved, position |-> position]
              /\ call.moved \in BOOLEAN /\ ~InFlight
            BY <1>2, CallShape DEF ReadPositions, InFlight
        <2>2. BookTypeOK'
            BY <2>1, <1>0 DEF BookTypeOK, Call
        <2>3. BookBounded'
            BY <2>1, <1>0 DEF BookBounded, CommittedBook, InFlight
        <2>4. ReadHolds' /\ ClearedFits'
            BY <2>1, <1>0 DEF ReadHolds, ClearedFits
        <2> QED BY <2>2, <2>3, <2>4
    <1>3. CASE ReadOrders
        <2>1. /\ call' = [step |-> "read", moved |-> call.moved, position |-> call.position, book |-> book]
              /\ call.step = "positions" /\ call.moved \in BOOLEAN /\ ~InFlight
              /\ call.position \in [Symbols -> Int]
            BY <1>3, CallShape DEF ReadOrders, InFlight
        <2>2. BookTypeOK'
            BY <2>1, <1>0 DEF BookTypeOK, Call
        <2>3. BookBounded'
            BY <2>1, <1>0 DEF BookBounded, CommittedBook, InFlight
        <2>4. \A s \in Symbols : Smaller(book[s], book[s])
            BY DEF Smaller, BookTypeOK, Book
        <2>5. \A s \in Symbols : WorstPosition(position[s], book[s]) <= Bound(s)
            BY <2>1 DEF BookBounded, CommittedBook
        <2>6. ReadHolds'
            BY <2>1, <2>4, <2>5, <1>0 DEF ReadHolds
        <2>7. ClearedFits'
            BY <2>1 DEF ClearedFits
        <2> QED BY <2>2, <2>3, <2>6, <2>7
    <1>4. CASE GiveUp
        <2>1. call' = [step |-> "idle"] /\ ~InFlight
            BY <1>4 DEF GiveUp, InFlight, Idle
        <2>2. BookTypeOK'
            BY <2>1, <1>0 DEF BookTypeOK, Call, Idle
        <2>3. BookBounded'
            BY <2>1, <1>0 DEF BookBounded, CommittedBook, InFlight
        <2>4. ReadHolds' /\ ClearedFits'
            BY <2>1 DEF ReadHolds, ClearedFits
        <2> QED BY <2>2, <2>3, <2>4
    <1>5. CASE Send
        <2>1. /\ call' = [step |-> "sent", moved |-> FALSE, order |-> call.order]
              /\ call.step = "cleared" /\ ~call.moved /\ call.order \in Order
            BY <1>5, CallShape DEF Send, Admits
        <2>2. BookTypeOK'
            BY <2>1, <1>0 DEF BookTypeOK, Call
        <2>3. ASSUME NEW s \in Symbols
              PROVE  (WorstPosition(position[s], CommittedBook(s)) <= Bound(s))'
            <3>1. CASE s = call.order.symbol
                BY <3>1, <2>1, <1>0 DEF ClearedFits, CommittedBook, InFlight
            <3>2. CASE s # call.order.symbol
                BY <3>2, <2>1, <1>0 DEF BookBounded, CommittedBook, InFlight
            <3> QED BY <3>1, <3>2
        <2>4. BookBounded'
            BY <2>3 DEF BookBounded
        <2>5. ReadHolds' /\ ClearedFits'
            BY <2>1 DEF ReadHolds, ClearedFits
        <2> QED BY <2>2, <2>4, <2>5
    <1> QED BY <1>1, <1>2, <1>3, <1>4, <1>5

(* What a call asks for is an order: close_position takes its own from the *)
(* position it has read.                                                   *)
LEMMA RequestIsOrder ==
    ASSUME call.position = position, position \in [Symbols -> Int], NEW o \in Requests
    PROVE  o \in Order
    <1>1. CASE o \in [symbol : Symbols, side : Sides, size : 1..MaxOrderUsd]
        BY <1>1, ExposureAssumption DEF Order
    <1>2. CASE o \in {CloseOrder(s, call.position[s]) : s \in {t \in Symbols : call.position[t] # 0}}
        <2>1. PICK s \in Symbols : position[s] # 0 /\ o = CloseOrder(s, position[s])
            BY <1>2
        <2>2. position[s] \in Int
            OBVIOUS
        <2>3. Abs(position[s]) \in Nat \ {0}
            BY <2>1, <2>2 DEF Abs
        <2> QED BY <2>1, <2>3 DEF CloseOrder, Order, Sides
    <1> QED BY <1>1, <1>2 DEF Requests

(* An order that decide clears fits the book that was read, and so the     *)
(* book there is.                                                          *)
LEMMA ClearStep ==
    ASSUME BookInv, NEW o \in Requests, Clear(o)
    PROVE  BookInv'
    <1> USE DEF BookInv
    <1>0. /\ UNCHANGED <<position, book, winding, inherited>>
          /\ \A s \in Symbols : Bound(s)' = Bound(s)
          /\ call.step = "read" /\ ~call.moved /\ ~InFlight
          /\ call' = [step |-> "cleared", moved |-> FALSE, order |-> o]
        BY DEF Clear, Bound, Admits, InFlight
    <1>1. /\ call.position = position /\ call.book \in [Symbols -> Book]
          /\ \A s \in Symbols : /\ Smaller(book[s], call.book[s])
                                /\ WorstPosition(position[s], call.book[s]) <= Bound(s)
        BY <1>0, CallShape DEF ReadHolds
    <1>2. o \in Order
        BY <1>1, RequestIsOrder DEF BookTypeOK
    <1> DEFINE s == o.symbol
               p == position[s]
               was == WorstPosition(p, call.book[s])
               is == WorstPosition(p, With(call.book[s], o))
    <1>3. s \in Symbols /\ p \in Int /\ book[s] \in Book /\ call.book[s] \in Book
        BY <1>1, <1>2, OrderShape DEF BookTypeOK
    <1>4. With(call.book[s], o) \in Book /\ With(book[s], o) \in Book
          /\ Smaller(With(book[s], o), With(call.book[s], o))
        BY <1>1, <1>2, <1>3, WithGrows
    <1>5. was \in Int /\ is \in Int /\ Bound(s) \in Int /\ was <= Bound(s)
        BY <1>1, <1>3, <1>4, WorstIsExtreme, BoundIsInt
    <1>6. After(o, call.position, call.book) = is /\ Before(o, call.position, call.book) = was
        BY <1>1 DEF After, Before
    <1>7. \/ is <= was
          \/ is <= MaxPositionUsd /\ is <= VolCapUsd
        BY <1>6 DEF Clear, Clears, GenuineReduction, ReducesPosition
    <1>8. is <= Bound(s)
        <2>1. CASE is <= was
            BY <2>1, <1>5
        <2>2. CASE is <= MaxPositionUsd /\ is <= VolCapUsd
            <3>1. inherited.worst[s] \in Int
                BY <1>3 DEF BookTypeOK
            <3> HIDE DEF is, s
            <3> QED BY <2>2, <3>1, <1>5, ExposureAssumption DEF Bound, Greatest, Least
        <2> QED BY <1>7, <2>1, <2>2
    <1>9. WorstPosition(p, With(book[s], o)) <= Bound(s)
        <2>1. WorstPosition(p, With(book[s], o)) <= is
            BY <1>3, <1>4, SmallerReachesLess
        <2>2. WorstPosition(p, With(book[s], o)) \in Int
            BY <1>3, <1>4, WorstIsExtreme
        <2> QED BY <2>1, <2>2, <1>5, <1>8
    <1>10. ClearedFits'
        BY <1>0, <1>3, <1>9 DEF ClearedFits
    <1>11. BookTypeOK'
        BY <1>0, <1>2 DEF BookTypeOK, Call
    <1>12. BookBounded'
        BY <1>0 DEF BookBounded, CommittedBook, InFlight
    <1>13. ReadHolds'
        BY <1>0 DEF ReadHolds
    <1> QED BY <1>10, <1>11, <1>12, <1>13

(* The order that arrives was counted since it was sent.                   *)
LEMMA ArriveStep ==
    ASSUME BookInv, Arrive
    PROVE  BookInv'
    <1> USE DEF BookInv
    <1>0. /\ UNCHANGED <<position, winding, inherited>>
          /\ \A s \in Symbols : Bound(s)' = Bound(s)
          /\ InFlight /\ call' = [step |-> "idle"]
          /\ book' \in {book, [book EXCEPT ![call.order.symbol] = With(@, call.order)]}
        BY DEF Arrive, Bound, InFlight, Idle
    <1>1. call.order \in Order /\ call.order.symbol \in Symbols
        BY <1>0, CallShape, OrderShape DEF InFlight
    <1>2. ASSUME NEW s \in Symbols
          PROVE  /\ book'[s] \in Book
                 /\ WorstPosition(position[s], book'[s]) <= Bound(s)
        <2>1. position[s] \in Int /\ book[s] \in Book /\ Bound(s) \in Int
            BY BoundIsInt DEF BookTypeOK
        <2>2. Smaller(book[s], book[s])
            BY <2>1 DEF Smaller, Book
        <2>3. /\ CommittedBook(s) \in Book /\ Smaller(book[s], CommittedBook(s))
              /\ WorstPosition(position[s], CommittedBook(s)) <= Bound(s)
            BY <2>1, <2>2, <1>0, <1>1, WithGrows DEF CommittedBook, BookBounded
        <2>4. book'[s] = book[s] \/ book'[s] = CommittedBook(s)
            BY <1>0, <1>1 DEF CommittedBook, BookTypeOK
        <2>5. WorstPosition(position[s], book[s]) <= WorstPosition(position[s], CommittedBook(s))
            BY <2>1, <2>3, SmallerReachesLess
        <2>6. /\ WorstPosition(position[s], book[s]) \in Int
              /\ WorstPosition(position[s], CommittedBook(s)) \in Int
            BY <2>1, <2>3, WorstIsExtreme
        <2>7. WorstPosition(position[s], book[s]) <= Bound(s)
            BY <2>1, <2>3, <2>5, <2>6
        <2> QED BY <2>1, <2>3, <2>4, <2>7
    <1>3. book' \in [Symbols -> Book]
        <2>1. book' \in {book, [book EXCEPT ![call.order.symbol] = With(@, call.order)]}
            BY <1>0
        <2> QED BY <2>1, <1>2 DEF BookTypeOK
    <1>4. BookTypeOK'
        BY <1>0, <1>3 DEF BookTypeOK, Call, Idle
    <1>5. BookBounded'
        BY <1>0, <1>2 DEF BookBounded, CommittedBook, InFlight
    <1>6. ReadHolds' /\ ClearedFits'
        BY <1>0 DEF ReadHolds, ClearedFits
    <1> QED BY <1>4, <1>5, <1>6

(* A call that the feed has moved under keeps its shape and claims nothing. *)
LEMMA NotedCall ==
    ASSUME BookTypeOK
    PROVE  /\ Noted \in Call
           /\ Noted.step = call.step
           /\ call # Idle => Noted.moved
           /\ call.step \in {"cleared", "sent"} => Noted.order = call.order
    <1>1. CASE call = Idle
        BY <1>1 DEF Noted, Call, Idle
    <1>2. CASE call # Idle
        <2>1. Noted = [call EXCEPT !.moved = TRUE]
            BY <1>2 DEF Noted
        <2> QED BY <2>1, <1>2 DEF BookTypeOK, Call, Idle
    <1> QED BY <1>1, <1>2

(* A fill takes no position farther than its book could, and voids what a  *)
(* call has read.                                                          *)
LEMMA FillStep ==
    ASSUME BookInv, ~LateFeed, NEW s \in Symbols, NEW side \in Sides, NEW n \in Nat, Fill(s, side, n)
    PROVE  BookInv'
    <1> USE DEF BookInv
    <1> DEFINE p == position[s]
               b == book[s]
               q == Moved(p, side, n)
               c == [b EXCEPT ![side] = @ - n]
    <1>0. /\ UNCHANGED <<winding, inherited>>
          /\ \A t \in Symbols : Bound(t)' = Bound(t)
          /\ n <= MayFill(p, b, side)
          /\ call' = Noted
        BY DEF Fill, Bound, MayFill, Fillable, Noted
    <1>1. p \in Int /\ b \in Book
        BY DEF BookTypeOK
    <1>2. q \in Int /\ c \in Book /\ n <= b[side] /\ b[side] \in Nat
        <2>1. n <= b[side] /\ b[side] \in Nat
            BY <1>0, <1>1 DEF MayFill, Least, Greatest, Book, Sides
        <2> QED BY <2>1, <1>0, <1>1, FillReachesLess
    <1>3. position' = [position EXCEPT ![s] = q] /\ book' = [book EXCEPT ![s] = c]
        BY DEF Fill, Moved, BookTypeOK
    <1>4. /\ call' \in Call /\ call'.step = call.step
          /\ call # Idle => call'.moved
          /\ call.step \in {"cleared", "sent"} => call'.order = call.order
        BY <1>0, NotedCall
    <1>5. BookTypeOK'
        <2>1. position' \in [Symbols -> Int] /\ book' \in [Symbols -> Book]
            <3> HIDE DEF q, c
            <3> QED BY <1>2, <1>3 DEF BookTypeOK
        <2>2. winding' \in BOOLEAN /\ inherited'.worst \in [Symbols -> Int]
            BY <1>0 DEF BookTypeOK
        <2> QED BY <2>1, <2>2, <1>4 DEF BookTypeOK
    <1>6. (InFlight' <=> InFlight) /\ (InFlight => call'.order = call.order /\ call.order \in Order)
        <2>1. InFlight' <=> InFlight
            BY <1>4 DEF InFlight
        <2>2. InFlight => call'.order = call.order /\ call.order \in Order
            BY <1>4, CallShape DEF InFlight
        <2> QED BY <2>1, <2>2
    <1>7. ASSUME NEW t \in Symbols
          PROVE  WorstPosition(position'[t], CommittedBook(t)') <= Bound(t)
        <2>1. CASE t # s
            <3>1. position'[t] = position[t] /\ book'[t] = book[t]
                BY <2>1, <1>3 DEF BookTypeOK
            <3>2. CommittedBook(t)' = CommittedBook(t)
                BY <3>1, <1>6 DEF CommittedBook
            <3> QED BY <3>1, <3>2 DEF BookBounded
        <2>2. CASE t = s
            <3> DEFINE d == CommittedBook(s)
                       e == [d EXCEPT ![side] = @ - n]
            <3>1. position'[s] = q /\ book'[s] = c
                BY <1>3 DEF BookTypeOK
            <3>2. Smaller(b, b)
                BY <1>1 DEF Smaller, Book
            <3>3. d \in Book /\ Smaller(b, d)
                BY <3>2, <1>1, <1>6, WithGrows DEF CommittedBook
            <3>4. n <= MayFill(p, d, side)
                <4>1. b[side] <= d[side] /\ d[side] \in Nat
                    BY <3>3 DEF Smaller, Book
                <4> HIDE DEF b, d, p
                <4> QED BY <4>1, <1>0, <1>1, <1>2 DEF MayFill, Least, Greatest
            <3>5. WorstPosition(q, e) <= WorstPosition(p, d) /\ e \in Book
                BY <3>3, <3>4, <1>1, FillReachesLess
            <3>6. CommittedBook(s)' = e
                <4>1. CASE InFlight /\ call.order.symbol = s
                    <5>1. d = With(b, call.order) /\ CommittedBook(s)' = With(c, call.order)
                        BY <4>1, <1>6, <3>1 DEF CommittedBook
                    <5>2. call.order.side \in Sides /\ call.order.size \in Nat
                        BY <4>1, <1>6, OrderShape
                    <5>3. With(c, call.order) = [With(b, call.order) EXCEPT ![side] = @ - n]
                        BY <5>2, <1>1, <1>2 DEF With, Book
                    <5> QED BY <5>1, <5>3
                <4>2. CASE ~(InFlight /\ call.order.symbol = s)
                    BY <4>2, <1>6, <3>1 DEF CommittedBook
                <4> QED BY <4>1, <4>2
            <3>7. WorstPosition(p, d) <= Bound(s) /\ Bound(s) \in Int
                BY BoundIsInt DEF BookBounded
            <3>8. WorstPosition(q, e) \in Int /\ WorstPosition(p, d) \in Int
                BY <3>3, <3>5, <1>1, <1>2, WorstIsExtreme
            <3>9. WorstPosition(q, e) <= Bound(s)
                BY <3>5, <3>7, <3>8
            <3> QED BY <3>1, <3>6, <3>9, <2>2
        <2> QED BY <2>1, <2>2
    <1>8. BookBounded'
        BY <1>0, <1>7 DEF BookBounded
    <1>9. ReadHolds' /\ ClearedFits'
        <2>1. call.step \in {"positions", "read", "cleared"} => call # Idle
            BY CallShape
        <2>2. call'.step \in {"positions", "read", "cleared"} => call'.moved
            BY <2>1, <1>4
        <2> QED BY <2>2 DEF ReadHolds, ClearedFits
    <1> QED BY <1>5, <1>8, <1>9

(* A book that only shrinks keeps what a call has read.                    *)
LEMMA BookShrinks ==
    ASSUME BookInv, UNCHANGED <<position, winding, call, inherited>>,
           book' \in [Symbols -> Book], \A t \in Symbols : Smaller(book'[t], book[t])
    PROVE  BookInv'
    <1> USE DEF BookInv
    <1>0. \A t \in Symbols : Bound(t)' = Bound(t)
        BY DEF Bound
    <1>5. BookTypeOK'
        BY DEF BookTypeOK
    <1>6. \A t \in Symbols : book[t] \in Book /\ book'[t] \in Book /\ Smaller(book'[t], book[t])
        BY DEF BookTypeOK
    <1>7. ASSUME NEW t \in Symbols, NEW o \in Order
          PROVE  /\ With(book[t], o) \in Book /\ With(book'[t], o) \in Book
                 /\ Smaller(With(book'[t], o), With(book[t], o))
        BY <1>6, WithGrows
    <1>8. ASSUME NEW t \in Symbols, NEW a \in Book, NEW b \in Book, Smaller(a, b),
                 WorstPosition(position[t], b) <= Bound(t)
          PROVE  WorstPosition(position[t], a) <= Bound(t)
        <2>1. position[t] \in Int /\ Bound(t) \in Int
            BY BoundIsInt DEF BookTypeOK
        <2>2. WorstPosition(position[t], a) \in Int /\ WorstPosition(position[t], b) \in Int
            BY <2>1, WorstIsExtreme
        <2>3. WorstPosition(position[t], a) <= WorstPosition(position[t], b)
            BY <2>1, <1>8, SmallerReachesLess
        <2> QED BY <2>1, <2>2, <2>3, <1>8
    <1>9. BookBounded'
        <2> SUFFICES ASSUME NEW t \in Symbols
                     PROVE  (WorstPosition(position[t], CommittedBook(t)) <= Bound(t))'
            BY DEF BookBounded
        <2>1. WorstPosition(position[t], CommittedBook(t)) <= Bound(t)
            BY DEF BookBounded
        <2>2. CASE InFlight /\ call.order.symbol = t
            <3>1. call.order \in Order
                BY <2>2, CallShape DEF InFlight
            <3>2. CommittedBook(t) = With(book[t], call.order) /\ CommittedBook(t)' = With(book'[t], call.order)
                BY <2>2, <1>0 DEF CommittedBook, InFlight
            <3>3. WorstPosition(position[t], With(book'[t], call.order)) <= Bound(t)
                BY <3>1, <3>2, <2>1, <1>7, <1>8
            <3> QED BY <3>2, <3>3, <1>0
        <2>3. CASE ~(InFlight /\ call.order.symbol = t)
            <3>1. CommittedBook(t) = book[t] /\ CommittedBook(t)' = book'[t]
                BY <2>3, <1>0 DEF CommittedBook, InFlight
            <3>2. WorstPosition(position[t], book'[t]) <= Bound(t)
                BY <3>1, <2>1, <1>6, <1>8
            <3> QED BY <3>1, <3>2, <1>0
        <2> QED BY <2>2, <2>3
    <1>10. ReadHolds'
        <2>1. ASSUME call.step = "read", ~call.moved, NEW t \in Symbols
              PROVE  Smaller(book'[t], call.book[t])
            <3>1. Smaller(book[t], call.book[t]) /\ call.book[t] \in Book
                BY <2>1, CallShape DEF ReadHolds
            <3> QED BY <3>1, <1>6 DEF Smaller, Book
        <2> QED BY <2>1, <1>0 DEF ReadHolds
    <1>11. ClearedFits'
        <2> SUFFICES ASSUME call.step = "cleared", ~call.moved
                     PROVE  WorstPosition(position[call.order.symbol],
                                          With(book'[call.order.symbol], call.order))
                                <= Bound(call.order.symbol)
            <3>1. call.step = "cleared" => call.order.symbol \in Symbols
                BY CallShape, OrderShape
            <3> QED BY <3>1, <1>0 DEF ClearedFits
        <2>1. call.order \in Order /\ call.order.symbol \in Symbols
            BY CallShape, OrderShape
        <2>2. WorstPosition(position[call.order.symbol], With(book[call.order.symbol], call.order))
                 <= Bound(call.order.symbol)
            BY DEF ClearedFits
        <2> QED BY <2>1, <2>2, <1>7, <1>8
    <1> QED BY <1>5, <1>9, <1>10, <1>11

(* Cancels and dropped orders only shrink the book.                        *)
LEMMA CancelsShrink ==
    ASSUME BookInv,
           \/ \E s \in Symbols, side \in Sides : \E n \in 1..book[s][side] :
                  Cancel(s, side, n) \/ VenueDrops(s, side, n)
           \/ \E targets \in SUBSET Symbols : CancelAll(targets)
    PROVE  /\ UNCHANGED <<position, winding, call, inherited>>
           /\ book' \in [Symbols -> Book] /\ \A t \in Symbols : Smaller(book'[t], book[t])
    <1>1. \A t \in Symbols : book[t] \in Book /\ Smaller(book[t], book[t])
        BY DEF BookInv, BookTypeOK, Book, Smaller
    <1>2. CASE \E s \in Symbols, side \in Sides : \E n \in 1..book[s][side] :
                  Cancel(s, side, n) \/ VenueDrops(s, side, n)
        <2>1. PICK s \in Symbols, side \in Sides, n \in Nat :
                  /\ n <= book[s][side]
                  /\ book' = Shrunk(s, side, n)
                  /\ UNCHANGED <<position, winding, call, inherited>>
            BY <1>2 DEF Cancel, VenueDrops
        <2> DEFINE c == [book[s] EXCEPT ![side] = @ - n]
        <2>2. book[s][side] \in Nat
            BY <1>1 DEF Book
        <2>3. c \in Book /\ Smaller(c, book[s])
            BY <1>1, <2>1, <2>2 DEF Book, Smaller
        <2>4. book' = [book EXCEPT ![s] = c]
            BY <2>1 DEF Shrunk
        <2> HIDE DEF c
        <2>5. /\ book' \in [Symbols -> Book]
              /\ \A t \in Symbols : Smaller(book'[t], book[t])
            BY <1>1, <2>3, <2>4 DEF BookInv, BookTypeOK
        <2> QED BY <2>1, <2>5
    <1>3. CASE \E targets \in SUBSET Symbols : CancelAll(targets)
        <2>1. PICK targets \in SUBSET Symbols :
                  /\ book' = [s \in Symbols |-> IF s \in targets THEN EmptyBook ELSE book[s]]
                  /\ UNCHANGED <<position, winding, call, inherited>>
            BY <1>3 DEF CancelAll
        <2>2. EmptyBook \in Book /\ \A b \in Book : Smaller(EmptyBook, b)
            BY DEF EmptyBook, Book, Smaller
        <2>3. /\ book' \in [Symbols -> Book]
              /\ \A t \in Symbols : Smaller(book'[t], book[t])
            BY <1>1, <2>1, <2>2
        <2> QED BY <2>1, <2>3
    <1> QED BY <1>2, <1>3

LEMMA CancelSteps ==
    ASSUME BookInv,
           \/ \E s \in Symbols, side \in Sides : \E n \in 1..book[s][side] :
                  Cancel(s, side, n) \/ VenueDrops(s, side, n)
           \/ \E targets \in SUBSET Symbols : CancelAll(targets)
    PROVE  BookInv'
    BY CancelsShrink, BookShrinks

(* What the feed learns late voids what a call has read, and nothing else. *)
LEMMA DeliverStep ==
    ASSUME BookInv, Deliver
    PROVE  BookInv'
    <1> USE DEF BookInv
    <1>0. /\ UNCHANGED <<position, book, winding, inherited>>
          /\ \A t \in Symbols : Bound(t)' = Bound(t)
          /\ call' = Noted
        BY DEF Deliver, Bound
    <1>1. /\ call' \in Call /\ call'.step = call.step
          /\ call # Idle => call'.moved
          /\ call.step \in {"cleared", "sent"} => call'.order = call.order
        BY <1>0, NotedCall
    <1>2. BookTypeOK'
        BY <1>0, <1>1 DEF BookTypeOK
    <1>3. \A t \in Symbols : CommittedBook(t)' = CommittedBook(t)
        <2>1. (InFlight' <=> InFlight) /\ (InFlight => call'.order = call.order)
            BY <1>1 DEF InFlight
        <2> QED BY <2>1, <1>0 DEF CommittedBook
    <1>4. BookBounded'
        BY <1>0, <1>3 DEF BookBounded
    <1>5. ReadHolds' /\ ClearedFits'
        <2>1. call.step \in {"positions", "read", "cleared"} => call # Idle
            BY CallShape
        <2>2. call'.step \in {"positions", "read", "cleared"} => call'.moved
            BY <2>1, <1>1
        <2> QED BY <2>2 DEF ReadHolds, ClearedFits
    <1> QED BY <1>2, <1>4, <1>5

(* The caps take over the account as they find it. *)
LEMMA BookStarts == BookInit => BookInv
    <1> SUFFICES ASSUME BookInit PROVE BookInv
        OBVIOUS
    <1>1. /\ position \in [Symbols -> Int] /\ book \in [Symbols -> Book]
          /\ winding \in BOOLEAN /\ call = [step |-> "idle"]
        BY ExposureAssumption DEF BookInit, Book, Sides, Idle
    <1>2. \A s \in Symbols : WorstPosition(position[s], book[s]) \in Int
        BY <1>1, WorstIsExtreme
    <1>3. inherited.worst = [s \in Symbols |-> WorstPosition(position[s], book[s])]
        BY DEF BookInit
    <1>4. BookTypeOK
        BY <1>1, <1>2, <1>3 DEF BookTypeOK, Call, Idle
    <1>5. ASSUME NEW s \in Symbols
          PROVE  WorstPosition(position[s], CommittedBook(s)) <= Bound(s)
        <2>1. CommittedBook(s) = book[s] /\ inherited.worst[s] = WorstPosition(position[s], book[s])
            BY <1>1, <1>3 DEF CommittedBook, InFlight
        <2>2. inherited.worst[s] \in Int
            BY <2>1, <1>2
        <2>3. inherited.worst[s] <= Bound(s)
            BY <2>2, ExposureAssumption DEF Bound, Greatest, Least
        <2> QED BY <2>1, <2>3
    <1>6. ReadHolds /\ ClearedFits
        BY <1>1 DEF ReadHolds, ClearedFits
    <1> QED BY <1>4, <1>5, <1>6 DEF BookInv, BookBounded

(* Every step of the account keeps the invariant, when fills are in the    *)
(* feed as they happen.                                                    *)
LEMMA BookSteps ==
    ASSUME ~LateFeed
    PROVE  BookInv /\ [BookNext]_bookVars => BookInv'
    <1> SUFFICES ASSUME BookInv, [BookNext]_bookVars PROVE BookInv'
        OBVIOUS
    <1>1. CASE Stamp \/ ReadPositions \/ ReadOrders \/ GiveUp \/ Send
        BY <1>1, CallSteps
    <1>2. CASE Arrive
        BY <1>2, ArriveStep
    <1>3. CASE Deliver
        BY <1>3, DeliverStep
    <1>4. ASSUME NEW o \in Requests, Clear(o) PROVE BookInv'
        BY <1>4, ClearStep
    <1>5. ASSUME NEW s \in Symbols, NEW side \in Sides,
                 NEW n \in 1..book[s][side], Fill(s, side, n)
          PROVE  BookInv'
        <2>1. n \in Nat
            OBVIOUS
        <2> QED BY <2>1, <1>5, FillStep
    <1>7. CASE \/ \E s \in Symbols, side \in Sides : \E n \in 1..book[s][side] :
                      Cancel(s, side, n) \/ VenueDrops(s, side, n)
               \/ \E targets \in SUBSET Symbols : CancelAll(targets)
        BY <1>7, CancelSteps
    <1>6. CASE UNCHANGED bookVars
        <2>1. \A t \in Symbols : Bound(t)' = Bound(t) /\ CommittedBook(t)' = CommittedBook(t)
            BY <1>6 DEF bookVars, Bound, CommittedBook, InFlight
        <2>2. BookTypeOK' /\ BookBounded'
            BY <1>6, <2>1 DEF BookInv, BookTypeOK, BookBounded, bookVars
        <2>3. ReadHolds'
            BY <1>6, <2>1 DEF BookInv, ReadHolds, bookVars
        <2>4. ClearedFits'
            BY <1>6 DEF BookInv, ClearedFits, Bound, bookVars
        <2> QED BY <2>2, <2>3, <2>4 DEF BookInv
    <1> QED BY <1>1, <1>2, <1>3, <1>4, <1>5, <1>6, <1>7 DEF BookNext

(* Whatever the working orders do and whatever the agent asks for, no      *)
(* position passes its caps or what its book could reach when the caps     *)
(* were set: decide's worst position is the worst there is, and each of    *)
(* its exemptions only ever lets a book through that reaches no farther.   *)
THEOREM PositionCap ==
    ASSUME ~LateFeed
    PROVE  BookSpec => []PositionCapHolds
    <1>1. BookInv => PositionCapHolds
        <2> SUFFICES ASSUME BookInv, NEW s \in Symbols PROVE Abs(position[s]) <= Bound(s)
            BY DEF PositionCapHolds, Bound
        <2>1. position[s] \in Int /\ book[s] \in Book /\ Bound(s) \in Int
            BY BoundIsInt DEF BookInv, BookTypeOK
        <2>2. CommittedBook(s) \in Book
            <3>1. Smaller(book[s], book[s])
                BY <2>1 DEF Smaller, Book
            <3>2. InFlight => call.order \in Order
                BY CallShape DEF BookInv, InFlight
            <3> QED BY <3>1, <3>2, <2>1, WithGrows DEF CommittedBook
        <2>3. /\ Abs(position[s]) <= WorstPosition(position[s], CommittedBook(s))
              /\ WorstPosition(position[s], CommittedBook(s)) \in Int
            BY <2>1, <2>2, PositionIsReached, WorstIsExtreme
        <2>4. WorstPosition(position[s], CommittedBook(s)) <= Bound(s)
            BY DEF BookInv, BookBounded
        <2>5. Abs(position[s]) \in Int
            BY <2>1 DEF Abs
        <2> QED BY <2>1, <2>3, <2>4, <2>5
    <1> QED BY <1>1, BookStarts, BookSteps, PTL DEF BookSpec

-----------------------------------------------------------------------------
(* The caps of the account: sums over its symbols                          *)

Notional(ps, bs) == [s \in Symbols |-> SymbolNotional(ps[s], bs[s])]

Worst(ps, bs) == [s \in Symbols |-> WorstPosition(ps[s], bs[s])]

OpenLimit == Greatest(MaxOpenUsd, inherited.open)

GrossLimit == Greatest(MaxGrossUsd, inherited.gross)

(* An account whose symbols stay within both limits, however it fills.     *)
Within(ps, bs) ==
    /\ Total(Notional(ps, bs), Symbols) <= OpenLimit
    /\ Total(Worst(ps, bs), Symbols) <= GrossLimit

Committed == [s \in Symbols |-> CommittedBook(s)]

Placed(bs, o) == [bs EXCEPT ![o.symbol] = With(bs[o.symbol], o)]

LimitsTyped == inherited.open \in Int /\ inherited.gross \in Int

(* The account is within its limits; so is the one a call has read, and    *)
(* the one it will be with the order it has cleared, until the feed moves. *)
AccountBounded ==
    /\ Within(position, Committed)
    /\ call.step = "read" /\ ~call.moved => Within(position, call.book)
    /\ call.step = "cleared" /\ ~call.moved => Within(position, Placed(book, call.order))

Held == [s \in Symbols |-> Abs(position[s])]

AccountInv == BookInv /\ LimitsTyped /\ AccountBounded

(* The sums of the model are totals: of what the size rules add up, of what *)
(* the caps found, of what the properties bound.                           *)
LEMMA NotionalIsTotal ==
    ASSUME NEW ps, NEW bs
    PROVE  AccountNotional(ps, bs) = Total(Notional(ps, bs), Symbols)
    <1> DEFINE Term(s) == SymbolNotional(ps[s], bs[s])
               Sum(it) == it = [T \in SUBSET Symbols |->
                                   IF T = {} THEN 0 ELSE Term(Pick(T)) + it[T \ {Pick(T)}]]
    <1>1. AccountNotional(ps, bs) = (CHOOSE it : Sum(it))[Symbols]
        BY DEF AccountNotional, MapThenSumSet, MapThenFoldSet, Pick
    <1>2. ASSUME NEW it PROVE Sum(it) <=> Unrolls(it, Notional(ps, bs), Symbols)
        <2>1. \A T \in SUBSET Symbols : T # {} => Pick(T) \in Symbols
            BY DEF Pick
        <2>2. \A T \in SUBSET Symbols : T # {} => Notional(ps, bs)[Pick(T)] = Term(Pick(T))
            BY <2>1 DEF Notional
        <2> HIDE DEF Term
        <2> QED BY <2>2 DEF Unrolls
    <1> HIDE DEF Sum
    <1> QED BY <1>1, <1>2 DEF Total, Sums

LEMMA ReachIsTotal ==
    MapThenSumSet(LAMBDA s : WorstPosition(position[s], book[s]), Symbols) = Total(Worst(position, book), Symbols)
    <1> DEFINE Term(s) == WorstPosition(position[s], book[s])
               Sum(it) == it = [T \in SUBSET Symbols |->
                                   IF T = {} THEN 0 ELSE Term(Pick(T)) + it[T \ {Pick(T)}]]
    <1>1. MapThenSumSet(LAMBDA s : WorstPosition(position[s], book[s]), Symbols)
              = (CHOOSE it : Sum(it))[Symbols]
        BY DEF MapThenSumSet, MapThenFoldSet, Pick
    <1>2. ASSUME NEW it PROVE Sum(it) <=> Unrolls(it, Worst(position, book), Symbols)
        <2>1. \A T \in SUBSET Symbols : T # {} => Pick(T) \in Symbols
            BY DEF Pick
        <2>2. \A T \in SUBSET Symbols : T # {} => Worst(position, book)[Pick(T)] = Term(Pick(T))
            BY <2>1 DEF Worst
        <2> HIDE DEF Term
        <2> QED BY <2>2 DEF Unrolls
    <1> HIDE DEF Sum
    <1> QED BY <1>1, <1>2 DEF Total, Sums

LEMMA CommittedIsTotal ==
    MapThenSumSet(LAMBDA s : SymbolNotional(position[s], CommittedBook(s)), Symbols) = Total(Notional(position, Committed), Symbols)
    <1> DEFINE Term(s) == SymbolNotional(position[s], CommittedBook(s))
               Sum(it) == it = [T \in SUBSET Symbols |->
                                   IF T = {} THEN 0 ELSE Term(Pick(T)) + it[T \ {Pick(T)}]]
    <1>1. MapThenSumSet(LAMBDA s : SymbolNotional(position[s], CommittedBook(s)), Symbols)
              = (CHOOSE it : Sum(it))[Symbols]
        BY DEF MapThenSumSet, MapThenFoldSet, Pick
    <1>2. ASSUME NEW it PROVE Sum(it) <=> Unrolls(it, Notional(position, Committed), Symbols)
        <2>1. \A T \in SUBSET Symbols : T # {} => Pick(T) \in Symbols
            BY DEF Pick
        <2>2. \A T \in SUBSET Symbols : T # {} => Notional(position, Committed)[Pick(T)] = Term(Pick(T))
            BY <2>1 DEF Notional, Committed
        <2> HIDE DEF Term
        <2> QED BY <2>2 DEF Unrolls
    <1> HIDE DEF Sum
    <1> QED BY <1>1, <1>2 DEF Total, Sums

LEMMA HeldIsTotal ==
    MapThenSumSet(LAMBDA s : Abs(position[s]), Symbols) = Total(Held, Symbols)
    <1> DEFINE Term(s) == Abs(position[s])
               Sum(it) == it = [T \in SUBSET Symbols |->
                                   IF T = {} THEN 0 ELSE Term(Pick(T)) + it[T \ {Pick(T)}]]
    <1>1. MapThenSumSet(LAMBDA s : Abs(position[s]), Symbols)
              = (CHOOSE it : Sum(it))[Symbols]
        BY DEF MapThenSumSet, MapThenFoldSet, Pick
    <1>2. ASSUME NEW it PROVE Sum(it) <=> Unrolls(it, Held, Symbols)
        <2>1. \A T \in SUBSET Symbols : T # {} => Pick(T) \in Symbols
            BY DEF Pick
        <2>2. \A T \in SUBSET Symbols : T # {} => Held[Pick(T)] = Term(Pick(T))
            BY <2>1 DEF Held
        <2> HIDE DEF Term
        <2> QED BY <2>2 DEF Unrolls
    <1> HIDE DEF Sum
    <1> QED BY <1>1, <1>2 DEF Total, Sums

-----------------------------------------------------------------------------
(* The terms *)

(* What one book may do to one term.                                       *)
LEMMA NotionalShrinks ==
    ASSUME NEW p \in Int, NEW b \in Book, NEW c \in Book, Smaller(b, c)
    PROVE  SymbolNotional(p, b) <= SymbolNotional(p, c)
    <1>1. /\ b["buys"] \in Nat /\ b["sells"] \in Nat
          /\ c["buys"] \in Nat /\ c["sells"] \in Nat
          /\ b["buys"] <= c["buys"] /\ b["sells"] <= c["sells"]
        BY DEF Book, Sides, Smaller
    <1> QED BY <1>1 DEF SymbolNotional, Opening, Abs

(* A fill turns an opening order into as much position at most, and a      *)
(* reduction only takes position away.                                     *)
LEMMA FillAddsNothing ==
    ASSUME NEW p \in Int, NEW b \in Book, NEW side \in Sides, NEW n \in Nat, n <= MayFill(p, b, side)
    PROVE  SymbolNotional(Moved(p, side, n), [b EXCEPT ![side] = @ - n]) <= SymbolNotional(p, b)
    <1> DEFINE q == Moved(p, side, n)
               c == [b EXCEPT ![side] = @ - n]
    <1>1. b["buys"] \in Nat /\ b["sells"] \in Nat
        BY DEF Book, Sides
    <1>2. SymbolNotional(q, c) <= SymbolNotional(p, b)
        <2>1. CASE side = "buys"
            <3>1. c["buys"] = b["buys"] - n /\ c["sells"] = b["sells"] /\ q = p + n
                BY <2>1 DEF Book, Sides, Moved
            <3> HIDE DEF q, c
            <3> QED BY <3>1, <1>1 DEF SymbolNotional, Opening, Abs
        <2>2. CASE side = "sells"
            <3>1. c["buys"] = b["buys"] /\ c["sells"] = b["sells"] - n /\ q = p - n
                BY <2>2 DEF Book, Sides, Moved
            <3> HIDE DEF q, c
            <3> QED BY <3>1, <1>1 DEF SymbolNotional, Opening, Abs
        <2>3. CASE side = "reduce_buys"
            <3>1. c["buys"] = b["buys"] /\ c["sells"] = b["sells"] /\ q = p + n
                BY <2>3 DEF Book, Sides, Moved
            <3>2. n <= Greatest(-p, 0)
                <4>1. b["reduce_buys"] \in Nat
                    BY DEF Book, Sides
                <4> QED BY <2>3, <4>1 DEF MayFill, Least, Greatest
            <3> HIDE DEF q, c
            <3> QED BY <3>1, <3>2, <1>1 DEF SymbolNotional, Opening, Abs, Greatest
        <2>4. CASE side = "reduce_sells"
            <3>1. c["buys"] = b["buys"] /\ c["sells"] = b["sells"] /\ q = p - n
                BY <2>4 DEF Book, Sides, Moved
            <3>2. n <= Greatest(p, 0)
                <4>1. b["reduce_sells"] \in Nat
                    BY DEF Book, Sides
                <4> QED BY <2>4, <4>1 DEF MayFill, Least, Greatest
            <3> HIDE DEF q, c
            <3> QED BY <3>1, <3>2, <1>1 DEF SymbolNotional, Opening, Abs, Greatest
        <2> QED BY <2>1, <2>2, <2>3, <2>4 DEF Sides
    <1> QED BY <1>2

(* A book reaches no farther than the position and its opening orders.     *)
LEMMA WorstIsWithinNotional ==
    ASSUME NEW p \in Int, NEW b \in Book
    PROVE  WorstPosition(p, b) <= SymbolNotional(p, b) /\ SymbolNotional(p, b) \in Int
    <1>1. /\ b["buys"] \in Nat /\ b["sells"] \in Nat
          /\ b["reduce_buys"] \in Nat /\ b["reduce_sells"] \in Nat
        BY DEF Book, Sides
    <1>2. SymbolNotional(p, b) \in Int
        BY <1>1 DEF SymbolNotional, Opening, Abs
    <1>3. Long(p, b) <= SymbolNotional(p, b) /\ -SymbolNotional(p, b) <= Short(p, b)
        BY <1>1 DEF Long, Short, Least, Greatest, SymbolNotional, Opening, Abs
    <1> QED BY <1>2, <1>3, WorstIsExtreme

(* An order adds its opening size to the notional of its symbol.           *)
LEMMA OrderAddsItsSize ==
    ASSUME NEW p \in Int, NEW b \in Book, NEW o \in Order
    PROVE  SymbolNotional(p, With(b, o)) = SymbolNotional(p, b) + OpeningSize(o)
    <1> DEFINE c == With(b, o)
    <1>1. b["buys"] \in Nat /\ b["sells"] \in Nat /\ o.size \in Nat /\ o.side \in Sides
        BY OrderShape DEF Book, Sides
    <1>2. c["buys"] + c["sells"] = b["buys"] + b["sells"] + OpeningSize(o)
        BY <1>1 DEF With, Book, Sides, OpeningSize, ReduceOnly
    <1>3. c["buys"] \in Nat /\ c["sells"] \in Nat /\ OpeningSize(o) \in Nat
        BY <1>1 DEF With, Book, Sides, OpeningSize
    <1> HIDE DEF c
    <1>4. Abs(p) \in Int
        BY DEF Abs
    <1>5. SymbolNotional(p, c) = SymbolNotional(p, b) + OpeningSize(o)
        BY <1>1, <1>2, <1>3, <1>4 DEF SymbolNotional, Opening
    <1> QED BY <1>5 DEF c

(* The sums are of integers.                                               *)
LEMMA AccountTyped ==
    ASSUME NEW ps \in [Symbols -> Int], NEW bs \in [Symbols -> Book]
    PROVE  /\ Notional(ps, bs) \in [Symbols -> Int] /\ Worst(ps, bs) \in [Symbols -> Int]
           /\ Total(Notional(ps, bs), Symbols) \in Int /\ Total(Worst(ps, bs), Symbols) \in Int
    <1>1. /\ \A s \in Symbols : SymbolNotional(ps[s], bs[s]) \in Int
          /\ \A s \in Symbols : WorstPosition(ps[s], bs[s]) \in Int
        BY WorstIsExtreme, WorstIsWithinNotional
    <1>2. Notional(ps, bs) \in [Symbols -> Int] /\ Worst(ps, bs) \in [Symbols -> Int]
        BY <1>1 DEF Notional, Worst
    <1>3. \A s \in Symbols : /\ Notional(ps, bs)[s] <= Notional(ps, bs)[s]
                             /\ Worst(ps, bs)[s] <= Worst(ps, bs)[s]
        BY <1>2
    <1> QED BY <1>2, <1>3, TotalGrows, ExposureAssumption

LEMMA LimitsAreIntegers ==
    ASSUME LimitsTyped
    PROVE  OpenLimit \in Int /\ GrossLimit \in Int /\ MaxOpenUsd <= OpenLimit /\ MaxGrossUsd <= GrossLimit
    BY ExposureAssumption DEF LimitsTyped, OpenLimit, GrossLimit, Greatest

(* An account that reaches no farther in any symbol stays within.          *)
LEMMA LessIsWithin ==
    ASSUME LimitsTyped,
           NEW ps \in [Symbols -> Int], NEW bs \in [Symbols -> Book],
           NEW qs \in [Symbols -> Int], NEW cs \in [Symbols -> Book],
           \A s \in Symbols : /\ SymbolNotional(qs[s], cs[s]) <= SymbolNotional(ps[s], bs[s])
                              /\ WorstPosition(qs[s], cs[s]) <= WorstPosition(ps[s], bs[s]),
           Within(ps, bs)
    PROVE  Within(qs, cs)
    <1>1. /\ Notional(ps, bs) \in [Symbols -> Int] /\ Worst(ps, bs) \in [Symbols -> Int]
          /\ Notional(qs, cs) \in [Symbols -> Int] /\ Worst(qs, cs) \in [Symbols -> Int]
        BY AccountTyped
    <1>2. \A s \in Symbols : /\ Notional(qs, cs)[s] <= Notional(ps, bs)[s]
                             /\ Worst(qs, cs)[s] <= Worst(ps, bs)[s]
        BY DEF Notional, Worst
    <1>3. IsFiniteSet(Symbols)
        BY ExposureAssumption
    <1>4. /\ Total(Notional(qs, cs), Symbols) <= Total(Notional(ps, bs), Symbols)
          /\ Total(Worst(qs, cs), Symbols) <= Total(Worst(ps, bs), Symbols)
        BY <1>1, <1>2, <1>3, TotalGrows
    <1>5. /\ Total(Notional(qs, cs), Symbols) \in Int /\ Total(Notional(ps, bs), Symbols) \in Int
          /\ Total(Worst(qs, cs), Symbols) \in Int /\ Total(Worst(ps, bs), Symbols) \in Int
        BY AccountTyped
    <1> QED BY <1>4, <1>5, LimitsAreIntegers DEF Within

(* In particular one whose books are smaller.                              *)
LEMMA SmallerIsWithin ==
    ASSUME LimitsTyped, NEW ps \in [Symbols -> Int],
           NEW bs \in [Symbols -> Book], NEW cs \in [Symbols -> Book],
           \A s \in Symbols : Smaller(cs[s], bs[s]), Within(ps, bs)
    PROVE  Within(ps, cs)
    <1>1. \A s \in Symbols : /\ SymbolNotional(ps[s], cs[s]) <= SymbolNotional(ps[s], bs[s])
                             /\ WorstPosition(ps[s], cs[s]) <= WorstPosition(ps[s], bs[s])
        BY NotionalShrinks, SmallerReachesLess
    <1> QED BY <1>1, LessIsWithin

-----------------------------------------------------------------------------
(* The steps *)

(* The book with the order on its way is a book, and no smaller one.       *)
LEMMA CommittedTyped ==
    ASSUME BookTypeOK
    PROVE  /\ position \in [Symbols -> Int] /\ book \in [Symbols -> Book]
           /\ Committed \in [Symbols -> Book]
           /\ \A s \in Symbols : Smaller(book[s], Committed[s])
           /\ ~InFlight => Committed = book
           /\ InFlight => /\ call.order \in Order /\ call.order.symbol \in Symbols
                          /\ Committed = Placed(book, call.order)
    <1>1. position \in [Symbols -> Int] /\ book \in [Symbols -> Book]
        BY DEF BookTypeOK
    <1>2. \A s \in Symbols : book[s] \in Book /\ Smaller(book[s], book[s])
        BY <1>1 DEF Smaller, Book
    <1>3. CASE ~InFlight
        <2>1. Committed = book
            BY <1>1, <1>3 DEF Committed, CommittedBook
        <2> QED BY <2>1, <1>1, <1>2, <1>3
    <1>4. CASE InFlight
        <2>1. call.order \in Order /\ call.order.symbol \in Symbols
            BY <1>4, CallShape, OrderShape DEF InFlight
        <2>2. Committed = Placed(book, call.order)
            BY <1>1, <1>4, <2>1 DEF Committed, CommittedBook, Placed
        <2>3. \A s \in Symbols : CommittedBook(s) \in Book /\ Smaller(book[s], CommittedBook(s))
            BY <1>2, <1>4, <2>1, WithGrows DEF CommittedBook
        <2>4. Committed \in [Symbols -> Book] /\ \A s \in Symbols : Smaller(book[s], Committed[s])
            BY <2>3 DEF Committed
        <2> QED BY <1>1, <1>4, <2>1, <2>2, <2>4
    <1> QED BY <1>3, <1>4

(* An order in the book of its symbol.                                     *)
LEMMA PlacedTyped ==
    ASSUME NEW bs \in [Symbols -> Book], NEW o \in Order
    PROVE  Placed(bs, o) \in [Symbols -> Book]
    <1>1. o.symbol \in Symbols /\ bs[o.symbol] \in Book
        BY OrderShape
    <1>2. Smaller(bs[o.symbol], bs[o.symbol])
        BY <1>1 DEF Smaller, Book
    <1>3. With(bs[o.symbol], o) \in Book
        BY <1>1, <1>2, WithGrows
    <1> QED BY <1>1, <1>3 DEF Placed

(* It adds as much to a smaller book.                                      *)
LEMMA PlacedGrows ==
    ASSUME NEW bs \in [Symbols -> Book], NEW cs \in [Symbols -> Book], NEW o \in Order,
           \A s \in Symbols : Smaller(bs[s], cs[s])
    PROVE  \A s \in Symbols : Smaller(Placed(bs, o)[s], Placed(cs, o)[s])
    <1>1. o.symbol \in Symbols
        BY OrderShape
    <1>2. \A s \in Symbols : Smaller(With(bs[s], o), With(cs[s], o))
        BY WithGrows
    <1> QED BY <1>1, <1>2 DEF Placed

(* An order that clears the exposure and the leverage rule keeps the       *)
(* account they were put to within its limits.                             *)
LEMMA ClearedIsWithin ==
    ASSUME LimitsTyped, NEW ps \in [Symbols -> Int], NEW bs \in [Symbols -> Book], NEW o \in Order,
           Within(ps, bs), WithinOpenExposure(o, ps, bs), WithinLeverage(o, ps, bs)
    PROVE  Within(ps, Placed(bs, o))
    <1> DEFINE x == o.symbol
               cs == Placed(bs, o)
    <1>0. x \in Symbols /\ ps[x] \in Int /\ bs[x] \in Book /\ cs \in [Symbols -> Book]
          /\ IsFiniteSet(Symbols)
        BY OrderShape, PlacedTyped, ExposureAssumption
    <1>1. /\ \A s \in Symbols : s # x => cs[s] = bs[s]
          /\ cs[x] = With(bs[x], o)
        BY <1>0 DEF Placed
    <1>2. /\ Notional(ps, bs) \in [Symbols -> Int] /\ Worst(ps, bs) \in [Symbols -> Int]
          /\ Notional(ps, cs) \in [Symbols -> Int] /\ Worst(ps, cs) \in [Symbols -> Int]
          /\ Total(Notional(ps, bs), Symbols) \in Int /\ Total(Worst(ps, bs), Symbols) \in Int
          /\ Total(Notional(ps, cs), Symbols) \in Int /\ Total(Worst(ps, cs), Symbols) \in Int
        BY <1>0, AccountTyped
    <1>3. /\ OpenLimit \in Int /\ GrossLimit \in Int
          /\ MaxOpenUsd <= OpenLimit /\ MaxGrossUsd <= GrossLimit
          /\ MaxOpenUsd \in Int /\ MaxGrossUsd \in Int
        BY LimitsAreIntegers, ExposureAssumption
    <1>4. /\ After(o, ps, bs) = Worst(ps, cs)[x] /\ Before(o, ps, bs) = Worst(ps, bs)[x]
          /\ Notional(ps, cs)[x] = Notional(ps, bs)[x] + OpeningSize(o)
        BY <1>0, <1>1, OrderAddsItsSize DEF After, Before, Worst, Notional
    <1>5. OpeningSize(o) \in Int /\ (GenuineReduction(o, ps, bs) => OpeningSize(o) = 0)
        BY OrderShape DEF OpeningSize, GenuineReduction
    <1> HIDE DEF cs
    <1>6. Total(Notional(ps, cs), Symbols)
              = Total(Notional(ps, bs), Symbols) - Notional(ps, bs)[x] + Notional(ps, cs)[x]
        <2>1. \A s \in Symbols : s # x => Notional(ps, cs)[s] = Notional(ps, bs)[s]
            BY <1>1 DEF Notional
        <2> QED BY <2>1, <1>0, <1>2, TotalMoves
    <1>7. Notional(ps, bs)[x] \in Int /\ Worst(ps, bs)[x] \in Int /\ Worst(ps, cs)[x] \in Int
        BY <1>0, <1>2
    <1>8. Total(Notional(ps, cs), Symbols) = Total(Notional(ps, bs), Symbols) + OpeningSize(o)
        BY <1>2, <1>4, <1>5, <1>6, <1>7
    <1>9. Total(Notional(ps, cs), Symbols) <= OpenLimit
        <2>1. CASE GenuineReduction(o, ps, bs)
            BY <2>1, <1>2, <1>3, <1>5, <1>8 DEF Within
        <2>2. CASE ~GenuineReduction(o, ps, bs)
            <3>1. Total(Notional(ps, bs), Symbols) + OpeningSize(o) <= MaxOpenUsd
                BY <2>2, NotionalIsTotal DEF WithinOpenExposure
            <3> QED BY <3>1, <1>2, <1>3, <1>5, <1>8
        <2> QED BY <2>1, <2>2
    <1>10. Total(Worst(ps, cs), Symbols) <= GrossLimit
        <2>1. CASE GenuineReduction(o, ps, bs)
            <3>1. Total(Worst(ps, cs), Symbols)
                      = Total(Worst(ps, bs), Symbols) - Worst(ps, bs)[x] + Worst(ps, cs)[x]
                <4>1. \A s \in Symbols : s # x => Worst(ps, cs)[s] = Worst(ps, bs)[s]
                    BY <1>1 DEF Worst
                <4> QED BY <4>1, <1>0, <1>2, TotalMoves
            <3>2. Worst(ps, cs)[x] <= Worst(ps, bs)[x]
                BY <2>1, <1>4 DEF GenuineReduction
            <3>3. Total(Worst(ps, bs), Symbols) <= GrossLimit
                BY DEF Within
            <3> QED BY <3>1, <3>2, <3>3, <1>2, <1>3, <1>7
        <2>2. CASE ~GenuineReduction(o, ps, bs)
            <3> DEFINE g == [s \in Symbols |-> IF s = x THEN Worst(ps, cs)[x] ELSE Notional(ps, bs)[s]]
            <3>1. g \in [Symbols -> Int]
                BY <1>2, <1>7
            <3>2. \A s \in Symbols : Worst(ps, cs)[s] <= g[s]
                <4>1. ASSUME NEW s \in Symbols, s # x PROVE Worst(ps, cs)[s] <= Notional(ps, bs)[s]
                    <5>1. WorstPosition(ps[s], bs[s]) <= SymbolNotional(ps[s], bs[s])
                        BY WorstIsWithinNotional
                    <5> QED BY <5>1, <4>1, <1>1 DEF Worst, Notional
                <4> QED BY <4>1, <1>7
            <3>3. g[x] = Worst(ps, cs)[x] /\ \A s \in Symbols : s # x => g[s] = Notional(ps, bs)[s]
                BY <1>0
            <3> HIDE DEF g
            <3>4. Total(g, Symbols)
                      = Total(Notional(ps, bs), Symbols) - Notional(ps, bs)[x] + g[x]
                BY <3>1, <3>3, <1>0, <1>2, TotalMoves
            <3>5. Total(Worst(ps, cs), Symbols) <= Total(g, Symbols)
                BY <3>1, <3>2, <1>0, <1>2, TotalGrows
            <3>6. Total(Notional(ps, bs), Symbols) - Notional(ps, bs)[x] + Worst(ps, cs)[x] <= MaxGrossUsd
                <4>1. Notional(ps, bs)[x] = SymbolNotional(ps[o.symbol], bs[o.symbol])
                    BY <1>0 DEF Notional
                <4> QED BY <4>1, <2>2, <1>4, NotionalIsTotal DEF WithinLeverage
            <3> QED BY <3>3, <3>4, <3>5, <3>6, <1>2, <1>3, <1>7
        <2> QED BY <2>1, <2>2
    <1>11. Within(ps, cs)
        BY <1>9, <1>10 DEF Within
    <1> QED BY <1>11 DEF cs

(* The limits are those the caps were set with.                            *)
LEMMA LimitsStay ==
    ASSUME LimitsTyped, inherited' = inherited,
           Within(position', Committed'),
           call'.step = "read" /\ ~call'.moved => Within(position', call'.book),
           call'.step = "cleared" /\ ~call'.moved => Within(position', Placed(book', call'.order))
    PROVE  LimitsTyped' /\ AccountBounded'
    BY DEF LimitsTyped, AccountBounded, Within, OpenLimit, GrossLimit

(* The steps of a call that leave the account alone.                       *)
LEMMA AccountCallSteps ==
    ASSUME AccountInv, Stamp \/ ReadPositions \/ ReadOrders \/ GiveUp \/ Send
    PROVE  LimitsTyped' /\ AccountBounded'
    <1>1. /\ UNCHANGED <<position, book, inherited>> /\ LimitsTyped /\ BookTypeOK
          /\ Within(position, Committed)
        BY DEF Stamp, ReadPositions, ReadOrders, GiveUp, Send, AccountInv, AccountBounded, BookInv
    <1>2. CASE Stamp \/ ReadPositions \/ ReadOrders \/ GiveUp
        <2>1. /\ ~InFlight /\ call'.step \in {"idle", "stamped", "positions", "read"}
              /\ call'.step = "read" => call'.book = book
            BY <1>2 DEF Stamp, ReadPositions, ReadOrders, GiveUp, Idle, InFlight
        <2>2. Committed' = Committed /\ Committed = book
            <3>1. ~InFlight'
                BY <2>1 DEF InFlight
            <3>2. Committed = book
                BY <1>1, <2>1, CommittedTyped
            <3>3. Committed' = book'
                BY <1>1, <3>1 DEF Committed, CommittedBook, BookTypeOK
            <3> QED BY <3>2, <3>3, <1>1
        <2> QED BY <1>1, <2>1, <2>2, LimitsStay
    <1>3. CASE Send
        <2>1. /\ call' = [step |-> "sent", moved |-> FALSE, order |-> call.order]
              /\ call.step = "cleared" /\ ~call.moved /\ call.order \in Order
            BY <1>1, <1>3, CallShape DEF Send, Admits
        <2>2. call.order.symbol \in Symbols
            BY <2>1, OrderShape
        <2>3. Committed' = Placed(book, call.order)
            BY <1>1, <2>1, <2>2 DEF Committed, CommittedBook, InFlight, Placed, BookTypeOK
        <2>4. Within(position, Placed(book, call.order))
            BY <2>1 DEF AccountInv, AccountBounded
        <2> QED BY <1>1, <2>1, <2>3, <2>4, LimitsStay
    <1> QED BY <1>2, <1>3

(* The order that is cleared fits the account it is cleared for.           *)
LEMMA AccountClearStep ==
    ASSUME AccountInv, NEW o \in Requests, Clear(o)
    PROVE  LimitsTyped' /\ AccountBounded'
    <1>1. /\ UNCHANGED <<position, book, inherited>> /\ LimitsTyped /\ BookTypeOK
          /\ Within(position, Committed)
          /\ call.step = "read" /\ ~call.moved /\ ~InFlight
          /\ call' = [step |-> "cleared", moved |-> FALSE, order |-> o]
          /\ WithinOpenExposure(o, call.position, call.book)
          /\ WithinLeverage(o, call.position, call.book)
        BY DEF Clear, Clears, Admits, InFlight, AccountInv, AccountBounded, BookInv
    <1>2. /\ call.position = position /\ call.book \in [Symbols -> Book]
          /\ \A s \in Symbols : Smaller(book[s], call.book[s])
          /\ position \in [Symbols -> Int] /\ book \in [Symbols -> Book]
        BY <1>1, CallShape DEF AccountInv, BookInv, ReadHolds, BookTypeOK
    <1>3. o \in Order
        BY <1>1, <1>2, RequestIsOrder
    <1>4. Within(position, call.book)
        BY <1>1 DEF AccountInv, AccountBounded
    <1>5. Within(position, Placed(call.book, o))
        BY <1>1, <1>2, <1>3, <1>4, ClearedIsWithin
    <1>6. Within(position, Placed(book, o))
        <2>1. Placed(book, o) \in [Symbols -> Book] /\ Placed(call.book, o) \in [Symbols -> Book]
            BY <1>2, <1>3, PlacedTyped
        <2>2. \A s \in Symbols : Smaller(Placed(book, o)[s], Placed(call.book, o)[s])
            BY <1>2, <1>3, PlacedGrows
        <2> QED BY <2>1, <2>2, <1>1, <1>2, <1>5, SmallerIsWithin
    <1>7. Committed' = Committed
        BY <1>1 DEF Committed, CommittedBook, InFlight
    <1> QED BY <1>1, <1>6, <1>7, LimitsStay

(* The order that arrives was counted since it was sent.                   *)
LEMMA AccountArriveStep ==
    ASSUME AccountInv, Arrive
    PROVE  LimitsTyped' /\ AccountBounded'
    <1>1. /\ UNCHANGED <<position, inherited>> /\ LimitsTyped /\ BookTypeOK
          /\ Within(position, Committed) /\ InFlight
          /\ call' = [step |-> "idle"]
          /\ book' \in {book, [book EXCEPT ![call.order.symbol] = With(@, call.order)]}
        BY DEF Arrive, AccountInv, AccountBounded, BookInv, InFlight, Idle
    <1>2. /\ position \in [Symbols -> Int] /\ book \in [Symbols -> Book]
          /\ Committed \in [Symbols -> Book] /\ Committed = Placed(book, call.order)
          /\ \A s \in Symbols : Smaller(book[s], Committed[s])
        BY <1>1, CommittedTyped
    <1>3. book' = book \/ book' = Committed
        BY <1>1, <1>2 DEF Placed
    <1>4. Committed' = book'
        BY <1>1, <1>2, <1>3 DEF Committed, CommittedBook, InFlight
    <1>5. Within(position, book)
        BY <1>1, <1>2, SmallerIsWithin
    <1>6. Within(position', Committed')
        BY <1>1, <1>3, <1>4, <1>5
    <1> QED BY <1>1, <1>6, LimitsStay

(* A fill reaches no farther than its order did, and voids what a call has *)
(* read.                                                                   *)
LEMMA AccountFillStep ==
    ASSUME AccountInv, ~LateFeed, NEW s \in Symbols, NEW side \in Sides, NEW n \in Nat, Fill(s, side, n)
    PROVE  LimitsTyped' /\ AccountBounded'
    <1> DEFINE p == position[s]
               b == book[s]
               q == Moved(p, side, n)
               c == [b EXCEPT ![side] = @ - n]
               d == Committed[s]
               e == [d EXCEPT ![side] = @ - n]
    <1>0. /\ inherited' = inherited /\ LimitsTyped /\ BookTypeOK
          /\ Within(position, Committed)
          /\ n <= MayFill(p, b, side)
          /\ call' = Noted
        BY DEF Fill, MayFill, Fillable, Noted, AccountInv, AccountBounded, BookInv
    <1>1. /\ position \in [Symbols -> Int] /\ book \in [Symbols -> Book]
          /\ Committed \in [Symbols -> Book]
          /\ \A t \in Symbols : Smaller(book[t], Committed[t])
        BY <1>0, CommittedTyped
    <1>2. p \in Int /\ b \in Book /\ d \in Book /\ Smaller(b, d)
        BY <1>1
    <1>3. n <= MayFill(p, d, side) /\ n <= b[side] /\ b[side] \in Nat
        <2>1. b[side] <= d[side] /\ d[side] \in Nat /\ b[side] \in Nat
            BY <1>2 DEF Smaller, Book
        <2> HIDE DEF b, d, p
        <2> QED BY <2>1, <1>0, <1>2 DEF MayFill, Least, Greatest
    <1>4. /\ q \in Int /\ e \in Book
          /\ WorstPosition(q, e) <= WorstPosition(p, d)
          /\ SymbolNotional(q, e) <= SymbolNotional(p, d)
        BY <1>2, <1>3, FillReachesLess, FillAddsNothing
    <1>5. position' = [position EXCEPT ![s] = q] /\ book' = [book EXCEPT ![s] = c]
        BY <1>1 DEF Fill, Moved
    <1>6. /\ call'.step = call.step
          /\ call # Idle => call'.moved
          /\ call.step \in {"cleared", "sent"} => call'.order = call.order
        BY <1>0, NotedCall
    <1>7. (InFlight' <=> InFlight) /\ (InFlight => call'.order = call.order /\ call.order \in Order)
        <2>1. InFlight' <=> InFlight
            BY <1>6 DEF InFlight
        <2>2. InFlight => call'.order = call.order /\ call.order \in Order
            BY <1>0, <1>6, CallShape DEF InFlight
        <2> QED BY <2>1, <2>2
    <1>8. Committed' = [Committed EXCEPT ![s] = e]
        <2>1. ASSUME NEW t \in Symbols, t # s PROVE CommittedBook(t)' = Committed[t]
            <3>1. book'[t] = book[t]
                BY <2>1, <1>1, <1>5
            <3>2. CommittedBook(t)' = CommittedBook(t)
                BY <3>1, <1>7 DEF CommittedBook
            <3> QED BY <3>2 DEF Committed
        <2>2. CommittedBook(s)' = e
            <3>1. book'[s] = c /\ d = CommittedBook(s)
                BY <1>1, <1>5 DEF Committed
            <3>2. CASE InFlight /\ call.order.symbol = s
                <4>1. d = With(b, call.order) /\ CommittedBook(s)' = With(c, call.order)
                    BY <3>1, <3>2, <1>7 DEF CommittedBook
                <4>2. call.order.side \in Sides /\ call.order.size \in Nat
                    BY <3>2, <1>7, OrderShape
                <4>3. With(c, call.order) = [With(b, call.order) EXCEPT ![side] = @ - n]
                    BY <4>2, <1>2, <1>3 DEF With, Book
                <4> QED BY <4>1, <4>3
            <3>3. CASE ~(InFlight /\ call.order.symbol = s)
                BY <3>1, <3>3, <1>7 DEF CommittedBook
            <3> QED BY <3>2, <3>3
        <2>3. Committed' = [t \in Symbols |-> CommittedBook(t)']
            BY DEF Committed
        <2>4. \A t \in Symbols : CommittedBook(t)' = IF t = s THEN e ELSE Committed[t]
            BY <2>1, <2>2
        <2> HIDE DEF e
        <2> QED BY <2>3, <2>4, <1>1
    <1> HIDE DEF q, e
    <1>9. /\ position' \in [Symbols -> Int] /\ Committed' \in [Symbols -> Book]
          /\ position'[s] = q /\ Committed'[s] = e
          /\ \A t \in Symbols : t # s => position'[t] = position[t] /\ Committed'[t] = Committed[t]
        BY <1>1, <1>4, <1>5, <1>8
    <1>10. \A t \in Symbols :
              /\ SymbolNotional(position'[t], Committed'[t]) <= SymbolNotional(position[t], Committed[t])
              /\ WorstPosition(position'[t], Committed'[t]) <= WorstPosition(position[t], Committed[t])
        <2>1. ASSUME NEW t \in Symbols
              PROVE  SymbolNotional(position[t], Committed[t]) \in Int
                     /\ WorstPosition(position[t], Committed[t]) \in Int
            BY <1>1, WorstIsExtreme, WorstIsWithinNotional
        <2> QED BY <2>1, <1>4, <1>9
    <1>11. Within(position', Committed')
        BY <1>0, <1>1, <1>9, <1>10, LessIsWithin
    <1>12. call'.step \in {"read", "cleared"} => call'.moved
        BY <1>6 DEF Idle
    <1> QED BY <1>0, <1>11, <1>12, LimitsStay

(* A book that only shrinks keeps the account within its limits.           *)
LEMMA AccountShrinks ==
    ASSUME AccountInv, UNCHANGED <<position, winding, call, inherited>>,
           book' \in [Symbols -> Book], \A t \in Symbols : Smaller(book'[t], book[t])
    PROVE  LimitsTyped' /\ AccountBounded'
    <1>0. LimitsTyped /\ BookTypeOK /\ Within(position, Committed)
        BY DEF AccountInv, AccountBounded, BookInv
    <1>1. /\ position \in [Symbols -> Int] /\ book \in [Symbols -> Book]
          /\ Committed \in [Symbols -> Book]
        BY <1>0, CommittedTyped
    <1>2. Within(position, Committed')
        <2>1. CASE InFlight
            <3>1. call.order \in Order /\ Committed = Placed(book, call.order)
                BY <1>0, <2>1, CommittedTyped
            <3>2. Committed' = Placed(book', call.order)
                BY <2>1, <3>1, OrderShape DEF Committed, CommittedBook, InFlight, Placed
            <3>3. Placed(book', call.order) \in [Symbols -> Book]
                BY <3>1, PlacedTyped
            <3>4. \A t \in Symbols : Smaller(Placed(book', call.order)[t], Placed(book, call.order)[t])
                BY <1>1, <3>1, PlacedGrows
            <3> QED BY <1>0, <1>1, <3>1, <3>2, <3>3, <3>4, SmallerIsWithin
        <2>2. CASE ~InFlight
            <3>1. Committed = book
                BY <1>0, <2>2, CommittedTyped
            <3>2. Committed' = book'
                BY <2>2 DEF Committed, CommittedBook, InFlight
            <3> QED BY <1>0, <1>1, <3>1, <3>2, SmallerIsWithin
        <2> QED BY <2>1, <2>2
    <1>3. ASSUME call.step = "cleared", ~call.moved PROVE Within(position, Placed(book', call.order))
        <2>1. call.order \in Order /\ Within(position, Placed(book, call.order))
            BY <1>0, <1>3, CallShape DEF AccountInv, AccountBounded
        <2>2. Placed(book', call.order) \in [Symbols -> Book] /\ Placed(book, call.order) \in [Symbols -> Book]
            BY <1>1, <2>1, PlacedTyped
        <2>3. \A t \in Symbols : Smaller(Placed(book', call.order)[t], Placed(book, call.order)[t])
            BY <1>1, <2>1, PlacedGrows
        <2> QED BY <1>0, <1>1, <2>1, <2>2, <2>3, SmallerIsWithin
    <1>4. call.step = "read" /\ ~call.moved => Within(position, call.book)
        BY DEF AccountInv, AccountBounded
    <1> QED BY <1>0, <1>2, <1>3, <1>4, LimitsStay

(* Cancels and dropped orders.                                             *)
LEMMA AccountCancelSteps ==
    ASSUME AccountInv,
           \/ \E s \in Symbols, side \in Sides : \E n \in 1..book[s][side] :
                  Cancel(s, side, n) \/ VenueDrops(s, side, n)
           \/ \E targets \in SUBSET Symbols : CancelAll(targets)
    PROVE  LimitsTyped' /\ AccountBounded'
    <1>1. BookInv
        BY DEF AccountInv
    <1>2. /\ UNCHANGED <<position, winding, call, inherited>>
          /\ book' \in [Symbols -> Book] /\ \A t \in Symbols : Smaller(book'[t], book[t])
        BY <1>1, CancelsShrink
    <1> QED BY <1>2, AccountShrinks

(* What the feed learns late voids what a call has read, and nothing else. *)
LEMMA AccountDeliverStep ==
    ASSUME AccountInv, Deliver
    PROVE  LimitsTyped' /\ AccountBounded'
    <1>0. /\ UNCHANGED <<position, book, inherited>> /\ LimitsTyped /\ BookTypeOK
          /\ Within(position, Committed)
          /\ call' = Noted
        BY DEF Deliver, AccountInv, AccountBounded, BookInv
    <1>1. /\ call'.step = call.step
          /\ call # Idle => call'.moved
          /\ call.step \in {"cleared", "sent"} => call'.order = call.order
        BY <1>0, NotedCall
    <1>2. Committed' = Committed
        BY <1>0, <1>1 DEF InFlight, Committed, CommittedBook
    <1>3. call'.step \in {"read", "cleared"} => call'.moved
        BY <1>1 DEF Idle
    <1> QED BY <1>0, <1>2, <1>3, LimitsStay

(* The limits are at least what the caps found.                            *)
LEMMA AccountStarts == BookInit => AccountInv
    <1> SUFFICES ASSUME BookInit PROVE AccountInv
        OBVIOUS
    <1>1. BookInv /\ BookTypeOK
        BY BookStarts DEF BookInv
    <1>2. call = [step |-> "idle"] /\ ~InFlight
        BY DEF BookInit, Idle, InFlight
    <1>3. Committed = book /\ position \in [Symbols -> Int] /\ book \in [Symbols -> Book]
        BY <1>1, <1>2, CommittedTyped
    <1>4. /\ inherited.open = Total(Notional(position, book), Symbols)
          /\ inherited.gross = Total(Worst(position, book), Symbols)
        <2>1. inherited.open = AccountNotional(position, book)
            BY DEF BookInit
        <2>2. inherited.gross = MapThenSumSet(LAMBDA s : WorstPosition(position[s], book[s]), Symbols)
            BY DEF BookInit
        <2> QED BY <2>1, <2>2, NotionalIsTotal, ReachIsTotal
    <1>5. LimitsTyped
        BY <1>3, <1>4, AccountTyped DEF LimitsTyped
    <1>6. Within(position, Committed)
        BY <1>3, <1>4, <1>5, ExposureAssumption DEF Within, OpenLimit, GrossLimit, Greatest, LimitsTyped
    <1> QED BY <1>1, <1>2, <1>5, <1>6 DEF AccountInv, AccountBounded

(* Every step keeps the account within its limits.                         *)
LEMMA AccountSteps ==
    ASSUME ~LateFeed
    PROVE  AccountInv /\ [BookNext]_bookVars => AccountInv'
    <1> SUFFICES ASSUME AccountInv, [BookNext]_bookVars PROVE AccountInv'
        OBVIOUS
    <1>0. BookInv'
        BY BookSteps DEF AccountInv
    <1> SUFFICES LimitsTyped' /\ AccountBounded'
        BY <1>0 DEF AccountInv
    <1>1. CASE Stamp \/ ReadPositions \/ ReadOrders \/ GiveUp \/ Send
        BY <1>1, AccountCallSteps
    <1>2. CASE Arrive
        BY <1>2, AccountArriveStep
    <1>3. CASE Deliver
        BY <1>3, AccountDeliverStep
    <1>4. ASSUME NEW o \in Requests, Clear(o) PROVE LimitsTyped' /\ AccountBounded'
        BY <1>4, AccountClearStep
    <1>5. ASSUME NEW s \in Symbols, NEW side \in Sides,
                 NEW n \in 1..book[s][side], Fill(s, side, n)
          PROVE  LimitsTyped' /\ AccountBounded'
        <2>1. n \in Nat
            OBVIOUS
        <2> QED BY <2>1, <1>5, AccountFillStep
    <1>6. CASE \/ \E s \in Symbols, side \in Sides : \E n \in 1..book[s][side] :
                      Cancel(s, side, n) \/ VenueDrops(s, side, n)
               \/ \E targets \in SUBSET Symbols : CancelAll(targets)
        BY <1>6, AccountCancelSteps
    <1>7. CASE UNCHANGED bookVars
        <2>1. Committed' = Committed
            BY <1>7 DEF bookVars, Committed, CommittedBook, InFlight
        <2> QED BY <1>7, <2>1, LimitsStay DEF AccountInv, AccountBounded, bookVars
    <1> QED BY <1>1, <1>2, <1>3, <1>4, <1>5, <1>6, <1>7 DEF BookNext

(* Whatever the working orders do and whatever the agent asks for, the     *)
(* account's gross open exposure, the order on its way included, and its   *)
(* positions together pass neither their limits nor what the account could *)
(* reach when the limits were set: decide judges the sums it has read, and *)
(* until the feed moves no sum there is exceeds the one that was judged.   *)
THEOREM AccountCaps ==
    ASSUME ~LateFeed
    PROVE  BookSpec => []AccountCapsHold
    <1>1. AccountInv => AccountCapsHold
        <2> SUFFICES ASSUME AccountInv PROVE AccountCapsHold
            OBVIOUS
        <2>1. /\ BookTypeOK /\ LimitsTyped /\ Within(position, Committed)
              /\ position \in [Symbols -> Int] /\ Committed \in [Symbols -> Book]
            BY CommittedTyped DEF AccountInv, AccountBounded, BookInv
        <2>2. Held \in [Symbols -> Int] /\ Worst(position, Committed) \in [Symbols -> Int]
            BY <2>1, AccountTyped DEF Held, Abs
        <2>3. \A s \in Symbols : Held[s] <= Worst(position, Committed)[s]
            BY <2>1, PositionIsReached DEF Held, Worst
        <2>4. /\ Total(Held, Symbols) <= Total(Worst(position, Committed), Symbols)
              /\ Total(Held, Symbols) \in Int /\ Total(Worst(position, Committed), Symbols) \in Int
            BY <2>2, <2>3, TotalGrows, ExposureAssumption
        <2>5. Total(Held, Symbols) <= GrossLimit
            BY <2>1, <2>4, LimitsAreIntegers DEF Within
        <2>6. Total(Notional(position, Committed), Symbols) <= OpenLimit
            BY <2>1 DEF Within
        <2> QED BY <2>5, <2>6, CommittedIsTotal, HeldIsTotal DEF AccountCapsHold, OpenLimit, GrossLimit
    <1> QED BY <1>1, AccountStarts, AccountSteps, PTL DEF BookSpec

=============================================================================
