------------------------------ MODULE Backfill ------------------------------
(***************************************************************************)
(* The paged walk that reads an account's fills back from the venue        *)
(* (backfill_fills of crates/oppen-core/src/reconcile.rs), against a venue *)
(* that goes on filling orders while it is walked.  The venue answers a    *)
(* request with the oldest rows at or after the cursor, at most VenueLimit *)
(* of them and with no cursor of its own, so a page can end in the middle  *)
(* of a millisecond.  USER_FILLS_PAGE_LIMIT is the measured VenueLimit; a  *)
(* venue that served fewer rows would make every page look like the last,  *)
(* so the assumption below is one the code rests on.                       *)
(***************************************************************************)
EXTENDS Integers, FiniteSets

CONSTANTS
    Trades,          \* trade ids
    Start,          \* start_ms, the millisecond the walk begins at
    PageLimit,      \* page_limit, the rows that make a page a full one
    VenueLimit,     \* rows the venue puts in one answer
    MaxPages,       \* the page budget of one walk
    MaxClock         \* bound on the venue's clock

ASSUME BackfillAssumption ==
    /\ IsFiniteSet(Trades)
    /\ Start \in Nat /\ MaxClock \in Nat
    /\ PageLimit \in Nat \ {0}
    /\ VenueLimit \in Nat /\ VenueLimit >= PageLimit
    /\ MaxPages \in Nat \ {0}

Stamps == 0 .. MaxClock

VARIABLES
    clock,          \* the venue's clock
    made,           \* the fills the venue has booked
    time,           \* the millisecond the venue stamped on each of them
    cursor, out, pages,     \* the locals of backfill_fills; `seen` is out's ids
    result,         \* "walking", or how the walk returned
    served          \* history: `made` when the venue answered the last page

venue == <<clock, made, time>>
walkVars == <<clock, made, time, cursor, out, pages, result, served>>

WalkInit ==
    /\ clock \in Stamps
    /\ made \in SUBSET Trades
    /\ time \in [Trades -> 0 .. clock]
    /\ cursor = Start /\ out = {} /\ pages = 0 /\ result = "walking"
    /\ served = {}

\* The venue books a fill, stamped with its own clock.
Book(f) ==
    /\ f \notin made
    /\ made' = made \cup {f}
    /\ time' = [time EXCEPT ![f] = clock]
    /\ UNCHANGED <<clock, cursor, out, pages, result, served>>

Tick ==
    /\ clock < MaxClock
    /\ clock' = clock + 1
    /\ UNCHANGED <<made, time, cursor, out, pages, result, served>>

\* The rows at or after the cursor.
Rows == {f \in made : time[f] >= cursor}

\* What userFillsByTime may answer: the oldest rows, cut at the limit (within
\* a millisecond, anywhere), and all of them when they fit.
PageOf(page) ==
    /\ page \subseteq Rows
    /\ Cardinality(page) <= VenueLimit
    /\ Cardinality(page) < VenueLimit => page = Rows
    /\ \A f \in page, g \in Rows \ page : time[f] <= time[g]

\* `newest` after the rows of a page: its latest millisecond, the cursor if
\* it is empty.
IsNewest(t, page) ==
    /\ t = cursor \/ \E f \in page : time[f] = t
    /\ t >= cursor
    /\ \A f \in page : time[f] <= t

\* Mutant of NextCursor: past the newest row, to avoid reading it twice.
NextCursor_Past(t) == t + 1

\* Where a full page moves the cursor: to its newest row, not past it.
NextCursor(t) == t

\* Mutant of EndsWalk: a page that is exactly full ends the walk.
EndsWalk_Full(page) == Cardinality(page) <= PageLimit

\* A short page ends the walk.
EndsWalk(page) == Cardinality(page) < PageLimit

\* Mutant of Stalled: a page that reached only the next millisecond stalls.
Stalled_Early(t) == t <= cursor + 1

\* Mutant of Stalled: the walk asks again.
Stalled_Never(t) == FALSE

\* A full page that did not reach a later millisecond stalls it.
Stalled(t) == t <= cursor

\* Mutant of BudgetSpent: one page more.
BudgetSpent_Late == pages > MaxPages

\* Checked before each request.
BudgetSpent == pages >= MaxPages

TooManyPages ==
    /\ result = "walking"
    /\ BudgetSpent
    /\ result' = "too_many_pages"
    /\ UNCHANGED <<clock, made, time, cursor, out, pages, served>>

\* One request and what the loop does with its answer.
ReadPage(page, newest) ==
    /\ result = "walking"
    /\ ~BudgetSpent
    /\ PageOf(page)
    /\ IsNewest(newest, page)
    /\ pages' = pages + 1
    /\ out' = out \cup page
    /\ served' = made
    /\ \/ /\ EndsWalk(page)
          /\ result' = "done"
          /\ UNCHANGED cursor
       \/ /\ ~EndsWalk(page)
          /\ Stalled(newest)
          /\ result' = "page_stalled"
          /\ UNCHANGED cursor
       \/ /\ ~EndsWalk(page)
          /\ ~Stalled(newest)
          /\ cursor' = NextCursor(newest)
          /\ UNCHANGED result
    /\ UNCHANGED venue

\* The request fails and the walk returns the venue's error.
VenueError ==
    /\ result = "walking"
    /\ ~BudgetSpent
    /\ result' = "venue_error"
    /\ UNCHANGED <<clock, made, time, cursor, out, pages, served>>

\* Every error leaves the gap open, and the next reconcile walks it again.
WalkAgain ==
    /\ result \in {"too_many_pages", "page_stalled", "venue_error"}
    /\ cursor' = Start /\ out' = {} /\ pages' = 0 /\ result' = "walking"
    /\ served' = {}
    /\ UNCHANGED venue

WalkNext ==
    \/ \E f \in Trades : Book(f)
    \/ Tick
    \/ TooManyPages
    \/ \E page \in SUBSET made, newest \in Stamps \cup {cursor} : ReadPage(page, newest)
    \/ VenueError
    \/ WalkAgain

WalkSpec == WalkInit /\ [][WalkNext]_walkVars

-----------------------------------------------------------------------------
(* Properties.                                                             *)

\* The type invariant.
WalkTypeOK ==
    /\ clock \in Stamps
    /\ made \subseteq Trades
    /\ time \in [Trades -> Stamps]
    /\ cursor \in Nat
    /\ out \subseteq made
    /\ pages \in 0 .. MaxPages
    /\ result \in {"walking", "done", "page_stalled", "too_many_pages", "venue_error"}
    /\ served \subseteq made

\* A walk that returns rows returns all of them: no fill at or after the start
\* that the venue had booked when it answered the last page is missing,
\* although pages cut milliseconds in half and fills are booked between
\* pages.  The gap is then marked reconciled for good.
WalkIsComplete ==
    result = "done" => \A f \in served : time[f] >= Start => f \in out

\* The walk gives up as stalled only where it cannot be paged: a whole page of
\* fills shares the cursor's millisecond (ReconcileError::PageStalled).
StallIsReal ==
    result = "page_stalled" =>
        Cardinality({f \in out : time[f] = cursor}) >= PageLimit

\* The page budget is spent on fills and not on reading the boundary rows
\* again: after a full page every page brought a row the walk did not have
\* (ReconcileError::TooManyPages means an account with that many fills).
BudgetBuysRows ==
    result = "too_many_pages" => Cardinality(out) >= PageLimit + MaxPages - 1

(* A walk gives up only for the reason it states. *)
GivesUpForCause == WalkTypeOK /\ StallIsReal /\ BudgetBuysRows
=============================================================================
