----------------------------- MODULE ShopCheckout -----------------------------
(***************************************************************************)
(* One customer of the shop in front of the back office: the cart kept in  *)
(* localStorage, the checkout page with the pickup points it was rendered  *)
(* with, the request it sends, and the administrator who changes the       *)
(* points meanwhile (cart.ts, shop-client.tsx, checkout-client.tsx,        *)
(* pickup-points.service.ts).                                              *)
(*                                                                         *)
(* `lieu' stands for the label and schedule of a point, by which the page  *)
(* and the API find it: renaming a point is to a page that is open what    *)
(* deactivating it is.  The cart is empty or not.  All clocks agree.       *)
(***************************************************************************)
EXTENDS PickupCalendar

CONSTANTS
  Points,        \* ids of pickup points, positive
  FirstRows,     \* the rows at the start
  SomeCalendars, \* the calendars an administrator may give a point
  OptionCount,   \* how many dates the page proposes (8)
  FirstInstant, LastInstant,
  MaxEdits,      \* bound on changes of the points
  MaxOrders      \* bound on orders

ASSUME ShopCheckoutAssumption ==
  /\ Points \subseteq Nat \ {0}
  /\ FirstRows \in [Points -> [calendar : Calendars, active : BOOLEAN]]
  /\ SomeCalendars \subseteq Calendars
  /\ OptionCount \in Nat \ {0}
  /\ {FirstInstant, LastInstant, MaxEdits, MaxOrders} \subseteq Nat
  /\ FirstInstant <= LastInstant

NoPoint == 0

VARIABLES
  instant,    \* the time
  pointRows,       \* the PickupPoint rows
  edits,      \* how many changes the administrator made
  storedCart, \* localStorage: is there a cart with lines?
  shopTab,    \* the catalogue page: "closed", or its own cart, "empty" or "full"
  page,       \* the checkout page
  checkout,   \* its request
  ordered     \* how many orders were made

adminVars == <<pointRows, edits>>
cartVars == <<storedCart, shopTab>>
checkoutVars == <<instant, adminVars, cartVars, page, checkout, ordered>>

Rows == [Points -> [calendar : Calendars, active : BOOLEAN]]

\* What findActive gives: the calendars of the active points.
Offers == [p \in {q \in Points : pointRows[q].active} |-> pointRows[p].calendar]

FirstOf(points) ==
  IF points = {} THEN NoPoint ELSE CHOOSE p \in points : \A q \in points : p <= q

NoPage == [state |-> "none", offers |-> [p \in {} |-> {}], lieu |-> NoPoint,
           date |-> NoDate, seen |-> 0, cart |-> FALSE]
NoCheckout == [state |-> "none", lieu |-> NoPoint, date |-> NoDate, sentAt |-> 0]

CheckoutPageInit ==
  /\ instant = FirstInstant
  /\ pointRows = FirstRows
  /\ edits = 0
  /\ storedCart = FALSE
  /\ shopTab = "closed"
  /\ page = NoPage
  /\ checkout = NoCheckout
  /\ ordered = 0

-----------------------------------------------------------------------------
(* Time and the administrator.                                             *)

TimePasses ==
  /\ instant < LastInstant
  /\ \E t \in (instant + 1)..LastInstant : instant' = t
  /\ UNCHANGED <<adminVars, cartVars, page, checkout, ordered>>

Edit(p, row) ==
  /\ edits < MaxEdits
  /\ pointRows' = [pointRows EXCEPT ![p] = row]
  /\ edits' = edits + 1
  /\ UNCHANGED <<instant, cartVars, page, checkout, ordered>>

UpdatePoint(p) ==
  \E c \in SomeCalendars : Edit(p, [pointRows[p] EXCEPT !.calendar = c])
SetActive(p) ==
  \E a \in BOOLEAN : a # pointRows[p].active /\ Edit(p, [pointRows[p] EXCEPT !.active = a])

-----------------------------------------------------------------------------
(* The catalogue page keeps its cart in memory and writes it on each change.*)

OpenShop ==
  /\ shopTab = "closed"
  /\ shopTab' = IF storedCart THEN "full" ELSE "empty"
  /\ UNCHANGED <<instant, adminVars, storedCart, page, checkout, ordered>>

UpdateCart ==
  /\ shopTab # "closed"
  /\ shopTab' \in {"empty", "full"}
  /\ storedCart' = (shopTab' = "full")
  /\ UNCHANGED <<instant, adminVars, page, checkout, ordered>>

CloseShop ==
  /\ shopTab # "closed"
  /\ shopTab' = "closed"
  /\ UNCHANGED <<instant, adminVars, storedCart, page, checkout, ordered>>

-----------------------------------------------------------------------------
(* The checkout page.                                                      *)

\* A point without a date freezes the page: the search does not end.
Selecting(p, now, options) ==
  IF p = NoPoint
  THEN [options EXCEPT !.lieu = NoPoint, !.date = NoDate]
  ELSE IF SearchEnds(options.offers[p], now)
  THEN [options EXCEPT !.lieu = p, !.date = FirstPickupDate(options.offers[p], now)]
  ELSE [options EXCEPT !.state = "frozen", !.lieu = p, !.date = NoDate]

OpenCheckout ==
  /\ page.state \in {"none", "cancelled"}
  /\ page' = Selecting(FirstOf(DOMAIN Offers), instant,
                [NoPage EXCEPT !.state = "form", !.offers = Offers,
                               !.seen = instant, !.cart = storedCart])
  /\ checkout' = NoCheckout
  /\ UNCHANGED <<instant, adminVars, cartVars, ordered>>

\* setAvailabilityNow, every minute unless the browser suspends the page.
RefreshAvailability ==
  /\ page.state = "form"
  /\ page' = [page EXCEPT !.seen = instant]
  /\ UNCHANGED <<instant, adminVars, cartVars, checkout, ordered>>

\* Variant: the date of the previous point is kept.
HandlePickupPointChangeKeepsDate(p) ==
  /\ page.state = "form"
  /\ p \in DOMAIN page.offers
  /\ page' = [page EXCEPT !.lieu = p]
  /\ UNCHANGED <<instant, adminVars, cartVars, checkout, ordered>>

HandlePickupPointChange(p) ==
  /\ page.state = "form"
  /\ p \in DOMAIN page.offers
  /\ page' = Selecting(p, page.seen, page)
  /\ UNCHANGED <<instant, adminVars, cartVars, checkout, ordered>>

Options(now) == NextPickupDates(page.offers[page.lieu], OptionCount, now)

ChooseDate ==
  /\ page.state = "form" /\ page.lieu # NoPoint
  /\ \E d \in Options(page.seen) : page' = [page EXCEPT !.date = d]
  /\ UNCHANGED <<instant, adminVars, cartVars, checkout, ordered>>

\* The date on display: the chosen one, unless it has left the options.
SelectedDate ==
  IF page.date \in Options(page.seen) THEN page.date
  ELSE CHOOSE d \in Options(page.seen) : \A e \in Options(page.seen) : d <= e

\* The chosen date is checked against the options of this instant, the
\* displayed one is sent.
HandleSubmit ==
  /\ page.state = "form" /\ page.cart /\ page.lieu # NoPoint
  /\ IF page.date \in Options(instant)
     THEN /\ page' = [page EXCEPT !.state = "sending"]
          /\ checkout' = [state |-> "sent", lieu |-> page.lieu,
                          date |-> SelectedDate, sentAt |-> instant]
     ELSE /\ page' = Selecting(page.lieu, instant, [page EXCEPT !.seen = instant])
          /\ UNCHANGED checkout
  /\ UNCHANGED <<instant, adminVars, cartVars, ordered>>

\* The API validates the slot against the points active now; the rest of the
\* checkout (stock, Stripe) may still refuse the order.
PrepareOrder(slot) ==
  /\ checkout.state = "sent"
  /\ checkout' = [checkout EXCEPT !.state = slot]
  /\ slot = "slot_refused" <=>
       ~ (/\ checkout.lieu \in DOMAIN Offers
          /\ SlotValid(Offers[checkout.lieu], checkout.date, instant))
  /\ slot = "accepted" => ordered < MaxOrders
  /\ ordered' = IF slot = "accepted" THEN ordered + 1 ELSE ordered
  /\ UNCHANGED <<instant, adminVars, cartVars, page>>

\* The page gets the URL of the payment: it clears the cart and leaves.
GetsUrl ==
  /\ page.state = "sending" /\ checkout.state = "accepted"
  /\ storedCart' = FALSE
  /\ page' = [NoPage EXCEPT !.state = "paying"]
  /\ checkout' = NoCheckout
  /\ UNCHANGED <<instant, adminVars, shopTab, ordered>>

\* An error answer, or none at all: the page stays, with its cart.
GetsError ==
  /\ page.state = "sending"
  /\ page' = [page EXCEPT !.state = "form"]
  /\ checkout' = NoCheckout
  /\ UNCHANGED <<instant, adminVars, cartVars, ordered>>

\* Stripe's page sends the customer to /success or to /cancel.
LeavesPayment ==
  /\ page.state = "paying"
  /\ page' \in {NoPage, [NoPage EXCEPT !.state = "cancelled"]}
  /\ UNCHANGED <<instant, adminVars, cartVars, checkout, ordered>>

ClosePage ==
  /\ page.state # "none"
  /\ page' = NoPage
  /\ checkout' = NoCheckout
  /\ UNCHANGED <<instant, adminVars, cartVars, ordered>>

ShopCheckoutNext ==
  \/ TimePasses
  \/ \E p \in Points : UpdatePoint(p) \/ SetActive(p)
  \/ OpenShop \/ UpdateCart \/ CloseShop
  \/ OpenCheckout \/ RefreshAvailability \/ ChooseDate \/ HandleSubmit
  \/ \E p \in Points : HandlePickupPointChange(p)
  \/ \E slot \in {"slot_refused", "refused", "accepted"} : PrepareOrder(slot)
  \/ GetsUrl \/ GetsError \/ LeavesPayment \/ ClosePage

ShopCheckoutSpec == CheckoutPageInit /\ [][ShopCheckoutNext]_checkoutVars

-----------------------------------------------------------------------------
(* Properties.                                                             *)

PageStates == {"none", "form", "sending", "paying", "cancelled", "frozen"}
PageRecords ==
  [state : PageStates, offers : UNION {[points -> Calendars] : points \in SUBSET Points},
   lieu : Points \cup {NoPoint}, date : Nat \cup {NoDate}, seen : Nat, cart : BOOLEAN]
CheckoutRecords ==
  [state : {"none", "sent", "slot_refused", "refused", "accepted"},
   lieu : Points \cup {NoPoint}, date : Nat \cup {NoDate}, sentAt : Nat]

\* Type correctness.
ShopCheckoutTypeOK ==
  /\ instant \in FirstInstant..LastInstant
  /\ pointRows \in Rows
  /\ edits \in 0..MaxEdits
  /\ storedCart \in BOOLEAN
  /\ shopTab \in {"closed", "empty", "full"}
  /\ page \in PageRecords
  /\ page.lieu \in DOMAIN page.offers \cup {NoPoint}
  /\ checkout \in CheckoutRecords
  /\ ordered \in 0..MaxOrders

\* A slot the page lets through is one the API accepts, when the point has not
\* changed since the page was rendered and the request arrives in the half day
\* it was sent: however old the page, whichever points and dates were chosen
\* before, and although both compute the dates with code of their own.
FreshOfferAccepted ==
  [][ /\ checkout.state = "sent" /\ checkout.sentAt = instant
      /\ checkout.lieu \in DOMAIN Offers
      /\ Offers[checkout.lieu] = page.offers[checkout.lieu]
      => checkout'.state # "slot_refused" ]_checkoutVars

\* A page freezes in the search of a date only for a point whose anchor is no
\* date or is not on one of its own weekdays: everything else the back office
\* accepts has a date in every fortnight, at any hour.
FrozenOnlyByMisfitAnchor ==
  page.state = "frozen" =>
    LET point == page.offers[page.lieu]
    IN  /\ point.anchor # NoAnchor
        /\ point.anchor # BadAnchor => Weekday(point.anchor) \notin point.weekdays
=============================================================================
