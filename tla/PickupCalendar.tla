---------------------------- MODULE PickupCalendar ----------------------------
(***************************************************************************)
(* The days on which an order may be picked up, as the API decides them    *)
(* when it validates an order (commandes/pickup-slots.ts) and as the shop  *)
(* computes them, in code of its own, to offer them (lib/pickup-points.ts).*)
(*                                                                         *)
(* A day is its number since 1970-01-01, which was a Thursday.  An instant *)
(* is half a Paris day: 2d is day d before 14 h, 2d+1 is day d from 14 h.  *)
(***************************************************************************)
EXTENDS Integers, FiniteSets

CONSTANTS
  NoAnchor,   \* no alternatingWeekAnchorDate
  BadAnchor,  \* one the DTO lets in and the parsers refuse (2026-W25-4)
  NoDate      \* the empty date of a form

ASSUME CalendarAssumption ==
  /\ NoAnchor \notin Int
  /\ BadAnchor \notin Int
  /\ NoDate \notin Int
  /\ NoAnchor # BadAnchor

Weekday(d) == (d + 4) % 7
AlternationDays == 14

Anchors == Nat \cup {NoAnchor, BadAnchor}

\* The part of a PickupPoint row that decides on dates.
Calendars == [weekdays : (SUBSET (0..6)) \ {{}}, anchor : Anchors]

Today(now) == now \div 2
BeforeCutoff(now) == now % 2 = 0

-----------------------------------------------------------------------------
(* The API.                                                                *)

EarliestOrderDate(now) == Today(now) + (IF BeforeCutoff(now) THEN 1 ELSE 2)

DateAllowed(point, d) ==
  /\ Weekday(d) \in point.weekdays
  /\ \/ point.anchor = NoAnchor
     \/ /\ point.anchor # BadAnchor
        /\ (d - point.anchor) % AlternationDays = 0

SlotValid(point, d, now) ==
  /\ d # NoDate
  /\ d > Today(now)
  /\ d >= EarliestOrderDate(now)
  /\ DateAllowed(point, d)

-----------------------------------------------------------------------------
(* The shop.                                                               *)

ShopEarliest(now) == Today(now) + (IF BeforeCutoff(now) THEN 1 ELSE 2)

\* Variant: weekdays are counted from Monday.
ShopDateAllowedFromMonday(point, d) ==
  /\ (d + 3) % 7 \in point.weekdays
  /\ \/ point.anchor = NoAnchor
     \/ /\ point.anchor # BadAnchor
        /\ (d - point.anchor) % AlternationDays = 0

ShopDateAllowed(point, d) ==
  /\ Weekday(d) \in point.weekdays
  /\ \/ point.anchor = NoAnchor
     \/ /\ point.anchor # BadAnchor
        /\ (d - point.anchor) % AlternationDays = 0

\* The search for dates goes through two weeks without a date only when it
\* goes on forever (SearchWindow in ShopProofs).
SearchEnds(point, now) ==
  \E d \in ShopEarliest(now)..(ShopEarliest(now) + AlternationDays - 1) :
    ShopDateAllowed(point, d)

\* The first `count' dates of a point, by its search from the earliest one.
NextPickupDates(point, count, now) ==
  LET days == ShopEarliest(now)
                ..(ShopEarliest(now) + AlternationDays * count - 1)
      offered == {d \in days : ShopDateAllowed(point, d)}
  IN  {d \in offered : Cardinality({e \in offered : e < d}) < count}

FirstPickupDate(point, now) ==
  CHOOSE d \in NextPickupDates(point, 1, now) : TRUE
=============================================================================
