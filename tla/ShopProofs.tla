----------------------------- MODULE ShopProofs -----------------------------
(***************************************************************************)
(* Proofs about what the shop's customers meet: pickup dates and the       *)
(* checkout page, the visits that are counted, the rate limits.            *)
(***************************************************************************)
EXTENDS ShopCheckout, VisitSessions, RateLimit, SumLemmas, TLAPS

-----------------------------------------------------------------------------
(***************************************************************************)
(* PickupCalendar and ShopCheckout, for any points, calendars, instants    *)
(* and number of options.                                                  *)
(***************************************************************************)

(* The calendar.                                                           *)

\* A date that is allowed comes back two weeks later, and only then.
LEMMA AllowedEveryFortnight ==
  ASSUME NEW point \in Calendars, NEW d \in Int, NEW e \in Int, (d - e) % AlternationDays = 0
  PROVE  ShopDateAllowed(point, d) <=> ShopDateAllowed(point, e)
<1>1. Weekday(d) = Weekday(e)
  BY DEF Weekday, AlternationDays
<1>2. ASSUME NEW a \in Int
      PROVE  (d - a) % AlternationDays = (e - a) % AlternationDays
  BY DEF AlternationDays
<1>3. point.anchor # NoAnchor /\ point.anchor # BadAnchor => point.anchor \in Int
  BY DEF Calendars, Anchors
<1> QED BY <1>1, <1>2, <1>3 DEF ShopDateAllowed

\* The search of the shop, which has no end of its own, finds a date in its
\* first two weeks or never.
THEOREM SearchWindow ==
  ASSUME NEW point \in Calendars, NEW now \in Nat,
         NEW d \in Int, d >= ShopEarliest(now), ShopDateAllowed(point, d)
  PROVE  SearchEnds(point, now)
<1> DEFINE first == ShopEarliest(now)
           e == first + ((d - first) % 14)
<1>1. first \in Int
  BY DEF ShopEarliest, Today
<1> HIDE DEF first
<1>2. e \in first..(first + 14 - 1) /\ e \in Int /\ (d - e) % 14 = 0
  BY <1>1
<1>3. ShopDateAllowed(point, e)
  BY <1>2, AllowedEveryFortnight DEF AlternationDays
<1> QED BY <1>2, <1>3 DEF SearchEnds, AlternationDays, first

\* A point without a date has an anchor that is none of its days.
LEMMA OnlyMisfits ==
  ASSUME NEW point \in Calendars, NEW now \in Nat, ~ SearchEnds(point, now)
  PROVE  /\ point.anchor # NoAnchor
         /\ point.anchor # BadAnchor => Weekday(point.anchor) \notin point.weekdays
<1> DEFINE first == ShopEarliest(now)
<1>1. first \in Int
  BY DEF ShopEarliest, Today
<1>2. \A d \in Int : d >= first => ~ ShopDateAllowed(point, d)
  BY SearchWindow
<1> HIDE DEF first
<1>3. point.anchor # NoAnchor
  <2> SUFFICES ASSUME point.anchor = NoAnchor PROVE FALSE
    OBVIOUS
  <2>1. PICK w \in 0..6 : w \in point.weekdays
    BY DEF Calendars
  <2> DEFINE d == first + ((w - (first + 4)) % 7)
  <2>2. d \in Int /\ d >= first /\ Weekday(d) = w
    BY <1>1 DEF Weekday
  <2> QED BY <1>2, <2>1, <2>2 DEF ShopDateAllowed
<1>4. ASSUME point.anchor # BadAnchor, Weekday(point.anchor) \in point.weekdays PROVE FALSE
  <2>1. point.anchor \in Int
    BY <1>3, <1>4 DEF Calendars, Anchors
  <2> DEFINE a == point.anchor
             d == first + ((a - first) % 14)
  <2> HIDE DEF a
  <2>2. d \in Int /\ d >= first /\ Weekday(d) = Weekday(a) /\ (d - a) % 14 = 0
    <3>1. a \in Int
      BY <2>1 DEF a
    <3> QED BY <1>1, <3>1 DEF Weekday
  <2>3. ShopDateAllowed(point, d)
    BY <1>4, <2>2 DEF ShopDateAllowed, AlternationDays, a
  <2> QED BY <1>2, <2>2, <2>3
<1> QED BY <1>3, <1>4

LEMMA EarliestMonotonic ==
  ASSUME NEW s \in Nat, NEW t \in Nat, s <= t
  PROVE  ShopEarliest(s) \in Nat /\ ShopEarliest(s) <= ShopEarliest(t)
BY DEF ShopEarliest, Today, BeforeCutoff

\* The dates in the reach of a search, and those before one of them.
DaysInReach(count, now) ==
  ShopEarliest(now)..(ShopEarliest(now) + AlternationDays * count - 1)
AllowedInReach(point, count, now) == {d \in DaysInReach(count, now) : ShopDateAllowed(point, d)}
Before(point, count, now, d) == {e \in AllowedInReach(point, count, now) : e < d}

LEMMA ReachFacts ==
  ASSUME NEW point, NEW count \in Nat, NEW now \in Nat, NEW d
  PROVE  /\ DaysInReach(count, now) \subseteq Nat
         /\ AllowedInReach(point, count, now) \subseteq DaysInReach(count, now)
         /\ IsFiniteSet(Before(point, count, now, d))
         /\ Cardinality(Before(point, count, now, d)) \in Nat
<1>1. ShopEarliest(now) \in Nat /\ AlternationDays * count \in Nat
  BY EarliestMonotonic DEF AlternationDays
<1>2. IsFiniteSet(DaysInReach(count, now)) /\ DaysInReach(count, now) \subseteq Nat
  <2> DEFINE last == ShopEarliest(now) + AlternationDays * count - 1
  <2>1. last \in Int
    BY <1>1
  <2> HIDE DEF last
  <2>2. IsFiniteSet(ShopEarliest(now)..last)
    BY <1>1, <2>1, FS_Interval
  <2>3. ShopEarliest(now)..last \subseteq Nat
    BY <1>1, <2>1
  <2> QED BY <2>2, <2>3 DEF DaysInReach, last
<1>3. Before(point, count, now, d) \in SUBSET DaysInReach(count, now)
  BY DEF Before, AllowedInReach
<1> QED BY <1>2, <1>3, FS_Subset, FS_CardinalityType DEF AllowedInReach

LEMMA OfferedDates ==
  ASSUME NEW point, NEW count, NEW now
  PROVE  NextPickupDates(point, count, now) =
           {d \in AllowedInReach(point, count, now) :
              Cardinality(Before(point, count, now, d)) < count}
BY DEF NextPickupDates, AllowedInReach, DaysInReach, Before

\* The first date is one of the options.
LEMMA FirstIsOffered ==
  ASSUME NEW point \in Calendars, NEW now \in Nat, NEW count \in Nat \ {0},
         SearchEnds(point, now)
  PROVE  FirstPickupDate(point, now) \in NextPickupDates(point, count, now)
<1>1. AllowedInReach(point, 1, now) # {}
  BY DEF SearchEnds, AllowedInReach, DaysInReach, AlternationDays
<1>2. PICK d \in AllowedInReach(point, 1, now) : \A e \in AllowedInReach(point, 1, now) : d <= e
  BY <1>1, ReachFacts, LeastElement
<1>3. Before(point, 1, now, d) = {}
  <2>1. AllowedInReach(point, 1, now) \subseteq Nat
    BY ReachFacts
  <2> QED BY <1>2, <2>1 DEF Before
<1>4. d \in NextPickupDates(point, 1, now)
  BY <1>3, FS_EmptySet, OfferedDates
<1> DEFINE f == FirstPickupDate(point, now)
<1>5. f \in NextPickupDates(point, 1, now)
  BY <1>4 DEF FirstPickupDate
<1> HIDE DEF f
<1>6. f \in AllowedInReach(point, 1, now) /\ Cardinality(Before(point, 1, now, f)) < 1
  BY <1>5, OfferedDates
<1>7. AllowedInReach(point, 1, now) \subseteq AllowedInReach(point, count, now)
  <2>1. ShopEarliest(now) \in Nat
    BY EarliestMonotonic
  <2> QED BY <2>1 DEF AllowedInReach, DaysInReach, AlternationDays
<1>8. Before(point, count, now, f) = Before(point, 1, now, f)
  <2>1. ShopEarliest(now) \in Nat
    BY EarliestMonotonic
  <2> QED BY <1>6, <1>7, <2>1 DEF Before, AllowedInReach, DaysInReach, AlternationDays
<1>9. Cardinality(Before(point, count, now, f)) < count
  <2>1. Cardinality(Before(point, count, now, f)) \in Nat
    BY ReachFacts
  <2> QED BY <1>6, <1>8, <2>1
<1> QED BY <1>6, <1>7, <1>9, OfferedDates DEF f

\* A date that was an option and will be one is one in between.
LEMMA OfferedInBetween ==
  ASSUME NEW point \in Calendars, NEW count \in Nat \ {0},
         NEW s \in Nat, NEW t \in Nat, NEW u \in Nat, s <= t, t <= u,
         NEW d, d \in NextPickupDates(point, count, s), d \in NextPickupDates(point, count, u)
  PROVE  d \in NextPickupDates(point, count, t)
<1>1. /\ ShopEarliest(s) \in Nat /\ ShopEarliest(t) \in Nat /\ ShopEarliest(u) \in Nat
      /\ ShopEarliest(s) <= ShopEarliest(t) /\ ShopEarliest(t) <= ShopEarliest(u)
  BY EarliestMonotonic
<1>2. /\ d \in AllowedInReach(point, count, s) /\ d \in AllowedInReach(point, count, u)
      /\ Cardinality(Before(point, count, s, d)) < count
  BY OfferedDates
<1>3. d \in AllowedInReach(point, count, t)
  BY <1>1, <1>2 DEF AllowedInReach, DaysInReach, AlternationDays
<1>4. Before(point, count, t, d) \in SUBSET Before(point, count, s, d)
  BY <1>1, <1>2 DEF Before, AllowedInReach, DaysInReach, AlternationDays
<1>5. Cardinality(Before(point, count, t, d)) <= Cardinality(Before(point, count, s, d))
  BY <1>4, ReachFacts, FS_Subset
<1>6. Cardinality(Before(point, count, t, d)) < count
  <2>1. /\ Cardinality(Before(point, count, t, d)) \in Nat
        /\ Cardinality(Before(point, count, s, d)) \in Nat
    BY ReachFacts
  <2> QED BY <1>2, <1>5, <2>1
<1> QED BY <1>3, <1>6, OfferedDates

\* The API lets an option of this instant through.
LEMMA OptionIsValid ==
  ASSUME NEW point \in Calendars, NEW count \in Nat \ {0}, NEW now \in Nat,
         NEW d, d \in NextPickupDates(point, count, now)
  PROVE  d \in Nat /\ SlotValid(point, d, now)
<1>1. d \in DaysInReach(count, now) /\ ShopDateAllowed(point, d) /\ d \in Nat
  BY OfferedDates, ReachFacts DEF AllowedInReach
<1>2. d >= ShopEarliest(now) /\ ShopEarliest(now) \in Nat
  BY <1>1, EarliestMonotonic DEF DaysInReach, AlternationDays
<1>3. d >= EarliestOrderDate(now) /\ d > Today(now)
  BY <1>1, <1>2 DEF ShopEarliest, EarliestOrderDate, Today, BeforeCutoff
<1>4. DateAllowed(point, d)
  BY <1>1 DEF DateAllowed, ShopDateAllowed
<1> QED BY <1>1, <1>3, <1>4, CalendarAssumption DEF SlotValid

-----------------------------------------------------------------------------
(* The page.                                                               *)

\* A page with a point shows a date that was an option when it was chosen; only
\* a point without dates freezes it.
PageSafe(x) ==
  /\ x \in PageRecords
  /\ x.lieu \in DOMAIN x.offers \cup {NoPoint}
  /\ x.state \in {"form", "sending"} /\ x.lieu # NoPoint =>
       \E s \in 0..x.seen : x.date \in NextPickupDates(x.offers[x.lieu], OptionCount, s)
  /\ x.state = "frozen" =>
       LET point == x.offers[x.lieu]
       IN  /\ point.anchor # NoAnchor
           /\ point.anchor # BadAnchor => Weekday(point.anchor) \notin point.weekdays

\* What was sent was an option at that instant.
SentIsAnOption ==
  checkout.state = "sent" =>
    /\ page.state = "sending" /\ page.lieu # NoPoint /\ checkout.lieu = page.lieu
    /\ checkout.date \in NextPickupDates(page.offers[page.lieu], OptionCount, checkout.sentAt)

PageInv == /\ ShopCheckoutTypeOK /\ PageSafe(page) /\ page.seen <= instant /\ SentIsAnOption

LEMMA InstantIsNat == ASSUME ShopCheckoutTypeOK PROVE instant \in Nat
BY ShopCheckoutAssumption DEF ShopCheckoutTypeOK

LEMMA OffersOfPages ==
  ASSUME NEW x \in PageRecords, x.lieu \in DOMAIN x.offers \cup {NoPoint}, x.lieu # NoPoint
  PROVE  x.offers[x.lieu] \in Calendars
<1>1. PICK points \in SUBSET Points : x.offers \in [points -> Calendars]
  BY DEF PageRecords
<1> QED BY <1>1

LEMMA SelectingIsSafe ==
  ASSUME NEW x \in PageRecords, x.state = "form", NEW p \in DOMAIN x.offers \cup {NoPoint}
  PROVE  /\ PageSafe(Selecting(p, x.seen, x))
         /\ Selecting(p, x.seen, x).seen = x.seen
         /\ Selecting(p, x.seen, x).state \in {"form", "frozen"}
<1>1. PICK points \in SUBSET Points : x.offers \in [points -> Calendars]
  BY DEF PageRecords
<1>2. x.seen \in Nat /\ p \in Points \cup {NoPoint}
  BY <1>1 DEF PageRecords
<1>3. CASE p = NoPoint
  <2> DEFINE new == [x EXCEPT !.lieu = NoPoint, !.date = NoDate]
  <2>1. new \in PageRecords /\ new.state = "form" /\ new.lieu = NoPoint /\ new.seen = x.seen
    BY DEF PageRecords
  <2>2. Selecting(p, x.seen, x) = new
    BY <1>3 DEF Selecting
  <2> HIDE DEF new
  <2> QED BY <2>1, <2>2 DEF PageSafe
<1>4. CASE p # NoPoint /\ SearchEnds(x.offers[p], x.seen)
  <2> DEFINE d == FirstPickupDate(x.offers[p], x.seen)
             new == [x EXCEPT !.lieu = p, !.date = d]
  <2>1. x.offers[p] \in Calendars
    BY <1>1, <1>4
  <2>2. d \in NextPickupDates(x.offers[p], OptionCount, x.seen)
    BY <1>2, <1>4, <2>1, FirstIsOffered, ShopCheckoutAssumption
  <2>3. d \in Nat
    BY <1>2, <2>1, <2>2, OptionIsValid, ShopCheckoutAssumption
  <2> HIDE DEF d
  <2>4. /\ new \in PageRecords /\ new.state = "form" /\ new.lieu = p /\ new.seen = x.seen
        /\ new.offers = x.offers /\ new.date = d
    BY <1>2, <2>3 DEF PageRecords
  <2>5. Selecting(p, x.seen, x) = new
    BY <1>4 DEF Selecting, d
  <2> HIDE DEF new
  <2> QED BY <1>2, <2>2, <2>4, <2>5 DEF PageSafe
<1>5. CASE p # NoPoint /\ ~ SearchEnds(x.offers[p], x.seen)
  <2> DEFINE new == [x EXCEPT !.state = "frozen", !.lieu = p, !.date = NoDate]
  <2>1. x.offers[p] \in Calendars
    BY <1>1, <1>5
  <2>2. /\ x.offers[p].anchor # NoAnchor
        /\ x.offers[p].anchor # BadAnchor =>
             Weekday(x.offers[p].anchor) \notin x.offers[p].weekdays
    BY <1>2, <1>5, <2>1, OnlyMisfits
  <2>3. /\ new \in PageRecords /\ new.state = "frozen" /\ new.lieu = p /\ new.seen = x.seen
        /\ new.offers = x.offers
    BY <1>2 DEF PageRecords, PageStates
  <2>4. Selecting(p, x.seen, x) = new
    BY <1>5 DEF Selecting
  <2> HIDE DEF new
  <2> QED BY <2>2, <2>3, <2>4 DEF PageSafe
<1> QED BY <1>3, <1>4, <1>5

LEMMA FirstOfPoints ==
  ASSUME NEW points \in SUBSET Points PROVE FirstOf(points) \in points \cup {NoPoint}
<1>1. CASE points = {}
  BY <1>1 DEF FirstOf
<1>2. CASE points # {}
  <2>1. \E p \in points : \A q \in points : p <= q
    BY <1>2, LeastElement, ShopCheckoutAssumption
  <2> QED BY <1>2, <2>1 DEF FirstOf
<1> QED BY <1>1, <1>2

\* A page without points is safe, and so is one that waits no more.
LEMMA NoPageIsSafe ==
  /\ PageSafe(NoPage) /\ NoPage.seen = 0 /\ NoPage.state = "none"
  /\ \A state \in {"none", "paying", "cancelled"} :
       /\ PageSafe([NoPage EXCEPT !.state = state])
       /\ [NoPage EXCEPT !.state = state].seen = 0
       /\ [NoPage EXCEPT !.state = state].state = state
  /\ NoCheckout \in CheckoutRecords /\ NoCheckout.state = "none"
<1>1. [p \in {} |-> {}] \in [{} -> Calendars]
  OBVIOUS
<1>2. [p \in {} |-> {}] \in UNION {[points -> Calendars] : points \in SUBSET Points}
  BY <1>1
<1>3. NoPage \in PageRecords
  BY <1>2 DEF NoPage, PageRecords, PageStates
<1>4. NoCheckout \in CheckoutRecords /\ NoCheckout.state = "none"
  BY DEF NoCheckout, CheckoutRecords
<1>5. /\ NoPage.seen = 0 /\ NoPage.state = "none" /\ NoPage.lieu = NoPoint
  BY DEF NoPage
<1>6. ASSUME NEW state \in {"none", "paying", "cancelled"}
      PROVE  /\ PageSafe([NoPage EXCEPT !.state = state])
             /\ [NoPage EXCEPT !.state = state].seen = 0
             /\ [NoPage EXCEPT !.state = state].state = state
  <2> DEFINE x == [NoPage EXCEPT !.state = state]
  <2>1. x \in PageRecords /\ x.state = state /\ x.lieu = NoPoint /\ x.seen = 0
    BY <1>3, <1>5 DEF PageRecords, PageStates
  <2> HIDE DEF x
  <2>2. PageSafe(x)
    BY <2>1 DEF PageSafe
  <2> QED BY <2>1, <2>2 DEF x
<1> QED BY <1>3, <1>4, <1>5, <1>6 DEF PageSafe

-----------------------------------------------------------------------------
(* Step by step.                                                           *)

LEMMA PageInitInv == CheckoutPageInit => PageInv
<1> SUFFICES ASSUME CheckoutPageInit PROVE PageInv
  OBVIOUS
<1>1. PageSafe(page) /\ page.seen = 0 /\ checkout \in CheckoutRecords /\ checkout.state = "none"
  BY NoPageIsSafe DEF CheckoutPageInit
<1>2. instant \in FirstInstant..LastInstant /\ 0 <= instant
  BY ShopCheckoutAssumption DEF CheckoutPageInit
<1>3. ShopCheckoutTypeOK
  <2>1. pointRows \in Rows
    BY ShopCheckoutAssumption DEF CheckoutPageInit, Rows
  <2>2. edits \in 0..MaxEdits /\ ordered \in 0..MaxOrders
    BY ShopCheckoutAssumption DEF CheckoutPageInit
  <2>3. storedCart \in BOOLEAN /\ shopTab \in {"closed", "empty", "full"}
    BY DEF CheckoutPageInit
  <2> QED BY <1>1, <1>2, <2>1, <2>2, <2>3 DEF ShopCheckoutTypeOK, PageSafe
<1> QED BY <1>1, <1>2, <1>3 DEF PageInv, SentIsAnOption

\* What a step does to the page and its request.
LEMMA PageStep ==
  ASSUME PageInv, instant' \in FirstInstant..LastInstant, instant <= instant',
         pointRows' \in Rows, edits' \in 0..MaxEdits, storedCart' \in BOOLEAN,
         shopTab' \in {"closed", "empty", "full"}, ordered' \in 0..MaxOrders,
         PageSafe(page'), page'.seen <= instant', checkout' \in CheckoutRecords, SentIsAnOption'
  PROVE  PageInv'
BY DEF PageInv, ShopCheckoutTypeOK, PageSafe

\* The steps of the clock, of the administrator and of the catalogue page.
LEMMA OtherSteps ==
  ASSUME PageInv,
         \/ TimePasses \/ (\E p \in Points : UpdatePoint(p) \/ SetActive(p))
         \/ OpenShop \/ UpdateCart \/ CloseShop
  PROVE  PageInv'
<1> USE DEF PageInv, ShopCheckoutTypeOK, cartVars, adminVars
<1>0. instant \in Nat
  BY InstantIsNat
<1>1. UNCHANGED <<page, checkout>> /\ SentIsAnOption'
  BY DEF TimePasses, UpdatePoint, SetActive, Edit, OpenShop, UpdateCart, CloseShop, SentIsAnOption
<1>2. PageSafe(page') /\ checkout' \in CheckoutRecords /\ page.seen \in Nat
  BY <1>1 DEF PageSafe, PageRecords
<1>3. CASE TimePasses
  <2>1. instant' \in FirstInstant..LastInstant /\ instant <= instant'
    BY <1>0, <1>3, ShopCheckoutAssumption DEF TimePasses
  <2>2. page'.seen <= instant'
    BY <1>0, <1>1, <1>2, <2>1, ShopCheckoutAssumption
  <2> QED BY <1>1, <1>2, <1>3, <2>1, <2>2, PageStep DEF TimePasses
<1>4. ASSUME NEW p \in Points, UpdatePoint(p) \/ SetActive(p) PROVE PageInv'
  <2>1. PICK row \in [calendar : Calendars, active : BOOLEAN] : Edit(p, row)
    <3>1. CASE UpdatePoint(p)
      BY <3>1, ShopCheckoutAssumption DEF UpdatePoint, Rows
    <3>2. CASE SetActive(p)
      BY <3>2 DEF SetActive, Rows
    <3> QED BY <1>4, <3>1, <3>2
  <2>2. pointRows' \in Rows /\ edits' \in 0..MaxEdits
    BY <2>1, ShopCheckoutAssumption DEF Edit, Rows
  <2> QED BY <1>0, <1>1, <1>2, <2>1, <2>2, PageStep DEF Edit
<1>5. CASE OpenShop \/ UpdateCart \/ CloseShop
  <2>1. /\ UNCHANGED <<instant, pointRows, edits, ordered>>
        /\ storedCart' \in BOOLEAN /\ shopTab' \in {"closed", "empty", "full"}
    BY <1>5 DEF OpenShop, UpdateCart, CloseShop
  <2> QED BY <1>0, <1>1, <1>2, <2>1, PageStep
<1> QED BY <1>3, <1>4, <1>5

LEMMA OpenCheckoutInv == ASSUME PageInv, OpenCheckout PROVE PageInv'
<1> USE DEF PageInv, ShopCheckoutTypeOK
<1> DEFINE x == [NoPage EXCEPT !.state = "form", !.offers = Offers, !.seen = instant,
                               !.cart = storedCart]
           p == FirstOf(DOMAIN Offers)
<1>1. Offers \in UNION {[points -> Calendars] : points \in SUBSET Points}
  <2> DEFINE active == {q \in Points : pointRows[q].active}
  <2>1. Offers \in [active -> Calendars] /\ active \in SUBSET Points
    BY DEF Offers, Rows
  <2> HIDE DEF active
  <2> QED BY <2>1
<1>2. p \in DOMAIN Offers \cup {NoPoint}
  <2>1. DOMAIN Offers \in SUBSET Points
    BY DEF Offers
  <2> QED BY <2>1, FirstOfPoints
<1>3. instant \in Nat
  BY InstantIsNat
<1>4. x \in PageRecords /\ x.state = "form" /\ x.offers = Offers /\ x.seen = instant
  BY <1>1, <1>3 DEF NoPage, PageRecords, PageStates
<1>5. /\ page' = Selecting(p, instant, x) /\ checkout' = NoCheckout
      /\ UNCHANGED <<instant, adminVars, cartVars, ordered>>
  BY DEF OpenCheckout
<1> HIDE DEF x, p
<1>6. PageSafe(page') /\ page'.seen = instant
  BY <1>2, <1>4, <1>5, SelectingIsSafe
<1>7. checkout' \in CheckoutRecords /\ SentIsAnOption'
  BY <1>5, NoPageIsSafe DEF SentIsAnOption
<1>8. page'.seen <= instant' /\ instant <= instant'
  BY <1>3, <1>5, <1>6
<1> QED BY <1>5, <1>6, <1>7, <1>8, PageStep DEF adminVars, cartVars

LEMMA PageMoves ==
  ASSUME PageInv,
         \/ RefreshAvailability \/ ChooseDate
         \/ \E p \in Points : HandlePickupPointChange(p)
  PROVE  PageInv'
<1> USE DEF PageInv, ShopCheckoutTypeOK
<1>0. instant \in Nat /\ page \in PageRecords /\ page.seen \in Nat /\ page.state = "form"
  BY InstantIsNat DEF PageRecords, RefreshAvailability, ChooseDate, HandlePickupPointChange
<1>1. UNCHANGED <<instant, adminVars, cartVars, checkout, ordered>>
  BY DEF RefreshAvailability, ChooseDate, HandlePickupPointChange
<1>2. SentIsAnOption'
  BY <1>0, <1>1 DEF SentIsAnOption
<1>3. CASE RefreshAvailability
  <2> DEFINE x == [page EXCEPT !.seen = instant]
  <2>1. /\ x \in PageRecords /\ x.seen = instant /\ x.state = page.state /\ x.lieu = page.lieu
        /\ x.offers = page.offers /\ x.date = page.date
    BY <1>0 DEF PageRecords
  <2>2. page' = x
    BY <1>3 DEF RefreshAvailability
  <2> HIDE DEF x
  <2>3. PageSafe(page')
    BY <1>0, <2>1, <2>2 DEF PageSafe
  <2> QED BY <1>0, <1>1, <1>2, <2>1, <2>2, <2>3, PageStep DEF adminVars, cartVars
<1>4. CASE ChooseDate
  <2>1. PICK d \in Options(page.seen) : page' = [page EXCEPT !.date = d]
    BY <1>4 DEF ChooseDate
  <2>2. page.lieu # NoPoint /\ page.offers[page.lieu] \in Calendars
    BY <1>0, <1>4, OffersOfPages DEF ChooseDate
  <2>3. d \in NextPickupDates(page.offers[page.lieu], OptionCount, page.seen)
    BY <2>1 DEF Options
  <2>4. d \in Nat
    BY <1>0, <2>2, <2>3, OptionIsValid, ShopCheckoutAssumption
  <2>5. /\ page' \in PageRecords /\ page'.seen = page.seen /\ page'.state = page.state
        /\ page'.lieu = page.lieu /\ page'.offers = page.offers /\ page'.date = d
    BY <1>0, <2>1, <2>4 DEF PageRecords
  <2>6. PageSafe(page')
    BY <1>0, <2>3, <2>5 DEF PageSafe
  <2> QED BY <1>0, <1>1, <1>2, <2>5, <2>6, PageStep DEF adminVars, cartVars
<1>5. ASSUME NEW p \in Points, HandlePickupPointChange(p) PROVE PageInv'
  <2>1. p \in DOMAIN page.offers /\ page' = Selecting(p, page.seen, page)
    BY <1>5 DEF HandlePickupPointChange
  <2>2. PageSafe(page') /\ page'.seen = page.seen
    BY <1>0, <2>1, SelectingIsSafe
  <2> QED BY <1>0, <1>1, <1>2, <2>2, PageStep DEF adminVars, cartVars
<1> QED BY <1>3, <1>4, <1>5

\* What is sent is the date that was checked, although another could be shown.
LEMMA HandleSubmitInv == ASSUME PageInv, HandleSubmit PROVE PageInv'
<1> USE DEF PageInv, ShopCheckoutTypeOK
<1>0. instant \in Nat /\ page \in PageRecords /\ page.seen \in Nat /\ page.state = "form"
      /\ page.lieu # NoPoint
  BY InstantIsNat DEF PageRecords, HandleSubmit
<1>1. UNCHANGED <<instant, adminVars, cartVars, ordered>>
  BY DEF HandleSubmit
<1>2. page.offers[page.lieu] \in Calendars
  BY <1>0, OffersOfPages
<1>3. CASE page.date \in Options(instant)
  <2> DEFINE x == [page EXCEPT !.state = "sending"]
             r == [state |-> "sent", lieu |-> page.lieu, date |-> page.date, sentAt |-> instant]
  <2>1. PICK s \in 0..page.seen :
               page.date \in NextPickupDates(page.offers[page.lieu], OptionCount, s)
    BY <1>0 DEF PageSafe
  <2>2. page.date \in NextPickupDates(page.offers[page.lieu], OptionCount, instant)
    BY <1>3 DEF Options
  <2>3. page.date \in Options(page.seen)
    BY <1>0, <1>2, <2>1, <2>2, OfferedInBetween, ShopCheckoutAssumption DEF Options
  <2>4. page' = x /\ checkout' = r
    BY <1>3, <2>3 DEF HandleSubmit, SelectedDate
  <2>5. /\ x \in PageRecords /\ x.seen = page.seen /\ x.state = "sending" /\ x.lieu = page.lieu
        /\ x.offers = page.offers /\ x.date = page.date
    BY <1>0 DEF PageRecords, PageStates
  <2>6. /\ r \in CheckoutRecords /\ r.lieu = page.lieu /\ r.date = page.date /\ r.sentAt = instant
    BY <1>0 DEF PageRecords, CheckoutRecords
  <2> HIDE DEF x, r
  <2>7. PageSafe(page')
    BY <1>0, <2>4, <2>5 DEF PageSafe
  <2>8. SentIsAnOption'
    BY <1>0, <2>2, <2>4, <2>5, <2>6 DEF SentIsAnOption
  <2>9. page'.seen <= instant' /\ instant <= instant' /\ checkout' \in CheckoutRecords
    BY <1>0, <1>1, <2>4, <2>5, <2>6
  <2> QED BY <1>1, <2>7, <2>8, <2>9, PageStep DEF adminVars, cartVars
<1>4. CASE page.date \notin Options(instant)
  <2> DEFINE x == [page EXCEPT !.seen = instant]
  <2>1. page' = Selecting(page.lieu, instant, x) /\ UNCHANGED checkout
    BY <1>4 DEF HandleSubmit
  <2>2. /\ x \in PageRecords /\ x.seen = instant /\ x.state = "form" /\ x.offers = page.offers
    BY <1>0 DEF PageRecords
  <2> HIDE DEF x
  <2>3. PageSafe(page') /\ page'.seen = instant
    BY <2>1, <2>2, SelectingIsSafe
  <2>4. SentIsAnOption'
    BY <1>0, <2>1 DEF SentIsAnOption
  <2>5. page'.seen <= instant' /\ instant <= instant' /\ checkout' \in CheckoutRecords
    BY <1>0, <1>1, <2>1, <2>3
  <2> QED BY <1>1, <2>3, <2>4, <2>5, PageStep DEF adminVars, cartVars
<1> QED BY <1>3, <1>4

LEMMA AnswerSteps ==
  ASSUME PageInv,
         \/ \E slot \in {"slot_refused", "refused", "accepted"} : PrepareOrder(slot)
         \/ GetsUrl \/ GetsError \/ LeavesPayment \/ ClosePage
  PROVE  PageInv'
<1> USE DEF PageInv, ShopCheckoutTypeOK
<1>0. instant \in Nat /\ page \in PageRecords /\ page.seen \in Nat
  BY InstantIsNat DEF PageRecords
<1>1. ASSUME NEW slot \in {"slot_refused", "refused", "accepted"}, PrepareOrder(slot)
      PROVE  PageInv'
  <2>1. checkout' = [checkout EXCEPT !.state = slot]
        /\ UNCHANGED <<instant, adminVars, cartVars, page>>
    BY <1>1 DEF PrepareOrder
  <2>2. checkout' \in CheckoutRecords /\ checkout'.state = slot
    BY <2>1 DEF CheckoutRecords
  <2>3. ordered' \in 0..MaxOrders
    BY <1>1, ShopCheckoutAssumption DEF PrepareOrder
  <2>4. SentIsAnOption'
    BY <2>2 DEF SentIsAnOption
  <2> QED BY <1>0, <2>1, <2>2, <2>3, <2>4, PageStep DEF adminVars, cartVars
<1>2. CASE GetsUrl \/ LeavesPayment \/ ClosePage
  <2>1. /\ UNCHANGED <<instant, adminVars, shopTab, ordered>> /\ storedCart' \in BOOLEAN
        /\ \/ checkout' = NoCheckout
           \/ checkout' = checkout /\ page.state = "paying"
    BY <1>2 DEF GetsUrl, LeavesPayment, ClosePage, cartVars
  <2>2. PageSafe(page') /\ page'.seen = 0
    BY <1>2, NoPageIsSafe DEF GetsUrl, LeavesPayment, ClosePage
  <2>3. checkout' \in CheckoutRecords /\ SentIsAnOption'
    BY <2>1, NoPageIsSafe DEF SentIsAnOption
  <2> QED BY <1>0, <2>1, <2>2, <2>3, PageStep DEF adminVars
<1>3. CASE GetsError
  <2> DEFINE x == [page EXCEPT !.state = "form"]
  <2>1. /\ page.state = "sending" /\ page' = x /\ checkout' = NoCheckout
        /\ UNCHANGED <<instant, adminVars, cartVars, ordered>>
    BY <1>3 DEF GetsError
  <2>2. /\ x \in PageRecords /\ x.seen = page.seen /\ x.state = "form" /\ x.lieu = page.lieu
        /\ x.offers = page.offers /\ x.date = page.date
    BY <1>0 DEF PageRecords, PageStates
  <2> HIDE DEF x
  <2>3. PageSafe(page')
    BY <1>0, <2>1, <2>2 DEF PageSafe
  <2>4. checkout' \in CheckoutRecords /\ SentIsAnOption'
    BY <2>1, NoPageIsSafe DEF SentIsAnOption
  <2> QED BY <1>0, <2>1, <2>2, <2>3, <2>4, PageStep DEF adminVars, cartVars
<1> QED BY <1>1, <1>2, <1>3

LEMMA PageNextInv == PageInv /\ [ShopCheckoutNext]_checkoutVars => PageInv'
<1> SUFFICES ASSUME PageInv, [ShopCheckoutNext]_checkoutVars PROVE PageInv'
  OBVIOUS
<1>1. CASE UNCHANGED checkoutVars
  BY <1>1 DEF checkoutVars, adminVars, cartVars, PageInv, ShopCheckoutTypeOK, SentIsAnOption, Rows
<1>2. CASE ShopCheckoutNext
  BY <1>2, OtherSteps, OpenCheckoutInv, PageMoves, HandleSubmitInv, AnswerSteps
  DEF ShopCheckoutNext
<1> QED BY <1>1, <1>2

-----------------------------------------------------------------------------
(* The theorems.                                                           *)

\* What the page shows was offered, and what it sends is offered still.
THEOREM PageInvariant == ShopCheckoutSpec => []PageInv
BY PageInitInv, PageNextInv, PTL DEF ShopCheckoutSpec

\* Rows, page and request have their types.
THEOREM ShopCheckoutTypeCorrect == ShopCheckoutSpec => []ShopCheckoutTypeOK
<1>1. PageInv => ShopCheckoutTypeOK
  BY DEF PageInv
<1> QED BY <1>1, PageInvariant, PTL

\* The shop's search of a date goes on forever for no other points than those
\* whose anchor is no date, or none of their own days.
THEOREM FreezesForMisfitsOnly == ShopCheckoutSpec => []FrozenOnlyByMisfitAnchor
<1>1. PageInv => FrozenOnlyByMisfitAnchor
  BY DEF PageInv, PageSafe, FrozenOnlyByMisfitAnchor
<1> QED BY <1>1, PageInvariant, PTL

\* A slot the page has let through is refused only for what has changed since.
THEOREM FreshOffersAccepted == ShopCheckoutSpec => FreshOfferAccepted
<1> DEFINE Fresh == /\ checkout.state = "sent" /\ checkout.sentAt = instant
                    /\ checkout.lieu \in DOMAIN Offers
                    /\ Offers[checkout.lieu] = page.offers[checkout.lieu]
<1>1. ASSUME PageInv, [ShopCheckoutNext]_checkoutVars, Fresh
      PROVE  checkout'.state # "slot_refused"
  <2>1. instant \in Nat /\ page \in PageRecords /\ page.offers[page.lieu] \in Calendars
        /\ checkout.lieu = page.lieu
    BY <1>1, InstantIsNat, OffersOfPages DEF PageInv, ShopCheckoutTypeOK, SentIsAnOption
  <2>2. checkout.date \in NextPickupDates(page.offers[page.lieu], OptionCount, instant)
    BY <1>1 DEF PageInv, SentIsAnOption
  <2>3. SlotValid(Offers[checkout.lieu], checkout.date, instant)
    BY <1>1, <2>1, <2>2, OptionIsValid, ShopCheckoutAssumption
  <2>4. ASSUME NEW slot \in {"slot_refused", "refused", "accepted"}, PrepareOrder(slot)
        PROVE  checkout'.state # "slot_refused"
    <3>1. slot # "slot_refused"
      BY <1>1, <2>3, <2>4 DEF PrepareOrder
    <3>2. checkout' = [checkout EXCEPT !.state = slot] /\ checkout \in CheckoutRecords
      BY <1>1, <2>4 DEF PrepareOrder, PageInv, ShopCheckoutTypeOK
    <3> QED BY <3>1, <3>2 DEF CheckoutRecords
  <2>5. UNCHANGED checkout \/ checkout' = NoCheckout \/ HandleSubmit
        \/ \E slot \in {"slot_refused", "refused", "accepted"} : PrepareOrder(slot)
    BY <1>1 DEF ShopCheckoutNext, checkoutVars, TimePasses, UpdatePoint, SetActive, Edit, OpenShop,
                UpdateCart, CloseShop, OpenCheckout, RefreshAvailability, ChooseDate,
                HandlePickupPointChange, GetsUrl, GetsError, LeavesPayment, ClosePage
  <2>6. ~ HandleSubmit
    BY <1>1 DEF HandleSubmit, PageInv, SentIsAnOption
  <2> QED BY <1>1, <2>4, <2>5, <2>6 DEF NoCheckout
<1>2. PageInv /\ [ShopCheckoutNext]_checkoutVars =>
        [Fresh => checkout'.state # "slot_refused"]_checkoutVars
  BY <1>1
<1> QED BY <1>2, PageInvariant, PTL DEF ShopCheckoutSpec, FreshOfferAccepted

-----------------------------------------------------------------------------
(***************************************************************************)
(* VisitSessions, for any number of tabs, of calls and of visits, and      *)
(* whatever the windows and retentions are.                                *)
(***************************************************************************)

Call == [kind : {"visit", "checkout"}, visitor : Nat, session : Nat, at : Int]
SessionRow == [session : Nat, visitor : Nat, start : Int, last : Int]

\* Type correctness.
VisitTypeOK ==
  /\ time \in Nat
  /\ choice \in [value : {"none", "granted", "denied"}, savedAt : Int]
  /\ visitor \in [id : Nat, createdAt : Int]
  /\ session \in [id : Nat, activity : Int, sent : Int]
  /\ tabChoice \in [Tabs -> {"none", "granted", "denied"}]
  /\ lastId \in Nat
  /\ calls \subseteq Call
  /\ sessionRows \subseteq SessionRow
  /\ \A v \in DOMAIN lastSeen : lastSeen[v] \in Int

\* A clock that was read has not run since.
ClocksAreRead == \A c \in calls : c.at # Never => c.at <= time

\* A row began before now, and its activity was never set back by more than a
\* transaction takes.
LastFollowsStart ==
  \A r \in sessionRows : r.start <= time /\ r.last >= r.start - MaxLag

VisitInv ==
  /\ VisitTypeOK /\ ClocksAreRead /\ LastFollowsStart
  /\ VisitsApart /\ NoIdentifierAfterRefusal

-----------------------------------------------------------------------------

LEMMA VisitInitInv == VisitInit => VisitInv
BY DEF VisitInit, VisitInv, VisitTypeOK, ClocksAreRead, LastFollowsStart, VisitsApart,
       NoIdentifierAfterRefusal, NoChoice, NoVisitor, NoSession, Nothing, Never

\* What the rows keep, when all that happens to some is a new activity.
LEMMA TouchingIsSafe ==
  ASSUME VisitTypeOK, LastFollowsStart, VisitsApart, NEW now \in Int,
         now <= time, now >= time - MaxLag,
         NEW touched \in SUBSET sessionRows,
         sessionRows' = (sessionRows \ touched) \cup {[r EXCEPT !.last = now] : r \in touched},
         time' = time
  PROVE  sessionRows' \subseteq SessionRow /\ LastFollowsStart' /\ VisitsApart'
<1> USE VisitAssumption
<1>1. \A r \in touched : /\ [r EXCEPT !.last = now] \in SessionRow
                         /\ [r EXCEPT !.last = now].start = r.start
                         /\ [r EXCEPT !.last = now].visitor = r.visitor
                         /\ [r EXCEPT !.last = now].last = now
  BY DEF VisitTypeOK, SessionRow
<1>2. sessionRows' \subseteq SessionRow
  BY <1>1 DEF VisitTypeOK
<1>3. LastFollowsStart'
  <2> SUFFICES ASSUME NEW r \in sessionRows' PROVE r.start <= time /\ r.last >= r.start - MaxLag
    BY DEF LastFollowsStart
  <2>1. CASE r \in sessionRows
    BY <2>1 DEF LastFollowsStart
  <2>2. CASE r \notin sessionRows
    <3>1. PICK q \in touched : r = [q EXCEPT !.last = now]
      BY <2>2
    <3>2. q.start <= time /\ q.start \in Int
      BY DEF LastFollowsStart, VisitTypeOK, SessionRow
    <3> QED BY <1>1, <3>1, <3>2 DEF VisitTypeOK
  <2> QED BY <2>1, <2>2
<1>4. VisitsApart'
  <2>1. \A r \in sessionRows' : \E q \in sessionRows :
          /\ q.start = r.start /\ q.visitor = r.visitor
          /\ r = q \/ (q \in touched /\ r = [q EXCEPT !.last = now])
    BY <1>1
  <2> SUFFICES ASSUME NEW r \in sessionRows', NEW s \in sessionRows', r # s,
                      r.visitor = s.visitor
               PROVE  \/ r.start - s.start > SessionWindow - MaxLag
                      \/ s.start - r.start > SessionWindow - MaxLag
    BY DEF VisitsApart
  <2>2. PICK q \in sessionRows : /\ q.start = r.start /\ q.visitor = r.visitor
                                 /\ (r = q /\ q \notin touched)
                                    \/ (q \in touched /\ r = [q EXCEPT !.last = now])
    BY <1>1
  <2>3. PICK p \in sessionRows : /\ p.start = s.start /\ p.visitor = s.visitor
                                 /\ (s = p /\ p \notin touched)
                                    \/ (p \in touched /\ s = [p EXCEPT !.last = now])
    BY <1>1
  <2>4. q # p
    BY <2>2, <2>3
  <2> QED BY <2>2, <2>3, <2>4 DEF VisitsApart
<1> QED BY <1>2, <1>3, <1>4

LEMMA NewSessionIsSafe ==
  ASSUME VisitTypeOK, LastFollowsStart, VisitsApart, NEW c \in Call,
         c.at <= time, c.at >= time - MaxLag,
         \A r \in sessionRows : r.visitor = c.visitor => ~ (r.last >= c.at - SessionWindow),
         sessionRows' = sessionRows \cup {[session |-> c.session, visitor |-> c.visitor,
                                           start |-> c.at, last |-> c.at]},
         time' = time
  PROVE  sessionRows' \subseteq SessionRow /\ LastFollowsStart' /\ VisitsApart'
<1> USE VisitAssumption
<1> DEFINE new == [session |-> c.session, visitor |-> c.visitor, start |-> c.at, last |-> c.at]
<1>1. new \in SessionRow /\ new.visitor = c.visitor /\ new.start = c.at /\ new.last = c.at
      /\ c.at \in Int
  BY DEF Call, SessionRow
<1> HIDE DEF new
<1>2. sessionRows' = sessionRows \cup {new}
  BY DEF new
<1>3. \A r \in sessionRows : r.visitor = c.visitor => c.at - r.start > SessionWindow - MaxLag
  BY <1>1 DEF LastFollowsStart, VisitTypeOK, SessionRow
<1>4. sessionRows' \subseteq SessionRow
  BY <1>1, <1>2 DEF VisitTypeOK
<1>5. LastFollowsStart'
  BY <1>1, <1>2 DEF LastFollowsStart
<1>6. VisitsApart'
  BY <1>1, <1>2, <1>3 DEF VisitsApart
<1> QED BY <1>4, <1>5, <1>6

-----------------------------------------------------------------------------
(* The browser.                                                            *)

\* The rest is as before when only the browser and its calls change.
LEMMA RowsUntouched ==
  ASSUME VisitInv, UNCHANGED <<time, serverVars>>
  PROVE  LastFollowsStart' /\ VisitsApart'
BY DEF VisitInv, serverVars, LastFollowsStart, VisitsApart

LEMMA ContextInv ==
  ASSUME VisitInv, NEW kind \in {"visit", "checkout"}, GetAnalyticsContext(kind),
         UNCHANGED <<time, tabChoice, serverVars>>
  PROVE  VisitInv'
<1> USE DEF VisitInv
<1>1. choice' \in [value : {"none", "granted", "denied"}, savedAt : Int]
      /\ (choice'.value = "denied" => choice.value = "denied")
  BY DEF GetAnalyticsContext, ReadAnalyticsConsent, VisitTypeOK, NoChoice, Never
<1>2. LastFollowsStart' /\ VisitsApart'
  BY RowsUntouched
<1>3. CASE choice'.value # "granted"
  <2>1. UNCHANGED <<visitor, session, lastId, calls>>
    BY <1>3 DEF GetAnalyticsContext
  <2> QED BY <1>1, <1>2, <2>1
          DEF VisitTypeOK, ClocksAreRead, NoIdentifierAfterRefusal, serverVars
<1>4. CASE choice'.value = "granted"
  <2> DEFINE v == VisitorToUse
             s == SessionToUse
             call == [kind |-> kind, visitor |-> v.id, session |-> s.id, at |-> Never]
             new == [id |-> s.id, activity |-> time, sent |-> IF ShouldTrack(s) THEN time ELSE s.sent]
  <2>1. v \in [id : Nat, createdAt : Int]
    BY DEF VisitorToUse, VisitTypeOK
  <2>2. s \in [id : Nat, activity : Int, sent : Int]
    BY DEF SessionToUse, VisitTypeOK, NoSession, Never
  <2>3. /\ visitor' = v /\ session' = new
        /\ lastId' = IF s.id > lastId THEN s.id ELSE lastId
        /\ calls' = calls \/ calls' = calls \cup {call}
    BY <1>4 DEF GetAnalyticsContext
  <2> HIDE DEF v, s
  <2>4. call \in Call /\ call.at = Never
    BY <2>1, <2>2 DEF Call, Never
  <2>5. new \in [id : Nat, activity : Int, sent : Int]
    BY <2>2 DEF VisitTypeOK
  <2> HIDE DEF call, new
  <2>6. calls' \subseteq Call /\ ClocksAreRead'
    BY <2>3, <2>4 DEF VisitTypeOK, ClocksAreRead
  <2>7. lastId' \in Nat
    BY <2>2, <2>3 DEF VisitTypeOK
  <2>8. VisitTypeOK'
    BY <1>1, <2>1, <2>3, <2>5, <2>6, <2>7 DEF VisitTypeOK, serverVars
  <2> QED BY <1>2, <1>4, <2>6, <2>8 DEF NoIdentifierAfterRefusal
<1> QED BY <1>3, <1>4

LEMMA BrowserInv ==
  ASSUME VisitInv, NEW t \in Tabs,
         \/ LoadPage(t) \/ TrackActivity(t) \/ CheckoutIdentifiers(t)
         \/ \E v \in {"granted", "denied"} : SelectChoice(t, v)
  PROVE  VisitInv'
<1> USE DEF VisitInv
<1>1. CASE LoadPage(t)
  <2>1. choice' \in [value : {"none", "granted", "denied"}, savedAt : Int]
        /\ (choice'.value = "denied" => choice.value = "denied")
    BY <1>1 DEF LoadPage, ReadAnalyticsConsent, VisitTypeOK, NoChoice, Never
  <2>2. LastFollowsStart' /\ VisitsApart'
    BY <1>1, RowsUntouched DEF LoadPage
  <2> QED BY <1>1, <2>1, <2>2
          DEF LoadPage, VisitTypeOK, ClocksAreRead, NoIdentifierAfterRefusal, serverVars
<1>2. CASE TrackActivity(t) \/ CheckoutIdentifiers(t)
  BY <1>2, ContextInv DEF TrackActivity, CheckoutIdentifiers
<1>3. ASSUME NEW v \in {"granted", "denied"}, SelectChoice(t, v) PROVE VisitInv'
  <2>1. LastFollowsStart' /\ VisitsApart'
    BY <1>3, RowsUntouched DEF SelectChoice
  <2>2. /\ choice' \in [value : {"none", "granted", "denied"}, savedAt : Int]
        /\ choice'.value = v
        /\ tabChoice' \in [Tabs -> {"none", "granted", "denied"}]
    BY <1>3 DEF SelectChoice, VisitTypeOK
  <2>3. /\ visitor' \in [id : Nat, createdAt : Int]
        /\ session' \in [id : Nat, activity : Int, sent : Int]
        /\ v = "denied" => visitor' = NoVisitor /\ session' = NoSession
    BY <1>3 DEF SelectChoice, VisitTypeOK, NoVisitor, NoSession, Nothing, Never
  <2>4. VisitTypeOK' /\ ClocksAreRead'
    BY <1>3, <2>2, <2>3 DEF SelectChoice, VisitTypeOK, ClocksAreRead, serverVars
  <2> QED BY <2>1, <2>2, <2>3, <2>4 DEF NoIdentifierAfterRefusal
<1> QED BY <1>1, <1>2, <1>3

-----------------------------------------------------------------------------
(* The clock and the API.                                                  *)

LEMMA CallInv ==
  ASSUME VisitInv, NEW c \in calls,
         LoseCall(c) \/ ReadClock(c) \/ TrackVisit(c) \/ ResolveAttribution(c)
  PROVE  VisitInv'
<1> USE DEF VisitInv
<1>0. c \in Call /\ c.at \in Int /\ time \in Nat /\ MaxLag \in Nat
  BY VisitAssumption DEF VisitTypeOK, Call
<1>1. CASE LoseCall(c)
  BY <1>1, RowsUntouched
  DEF LoseCall, Replaced, VisitTypeOK, ClocksAreRead, NoIdentifierAfterRefusal, browserVars,
      storageVars, serverVars
<1>2. CASE ReadClock(c)
  <2>1. [c EXCEPT !.at = time] \in Call /\ [c EXCEPT !.at = time].at = time
    BY <1>0 DEF Call
  <2> DEFINE read == [c EXCEPT !.at = time]
  <2>2. calls' \subseteq Call /\ ClocksAreRead'
    <3>1. calls' = (calls \ {c}) \cup {read} /\ time' = time
      BY <1>2 DEF ReadClock, Replaced
    <3> HIDE DEF read
    <3>2. calls' \subseteq calls \cup {read}
      BY <3>1
    <3>3. read \in Call /\ read.at = time
      BY <2>1 DEF read
    <3> QED BY <1>0, <3>1, <3>2, <3>3 DEF VisitTypeOK, ClocksAreRead
  <2> QED BY <1>2, <2>2, RowsUntouched
          DEF ReadClock, VisitTypeOK, NoIdentifierAfterRefusal, browserVars, storageVars, serverVars
<1>3. CASE TrackVisit(c) \/ ResolveAttribution(c)
  <2>1. /\ c.at <= time /\ c.at >= time - MaxLag
        /\ calls' = calls \ {c} /\ UNCHANGED <<time, browserVars>>
    BY <1>0, <1>3 DEF TrackVisit, ResolveAttribution, InTime, Replaced, ClocksAreRead
  <2>2. \A v \in DOMAIN lastSeen' : lastSeen'[v] \in Int
    BY <1>0, <1>3 DEF TrackVisit, ResolveAttribution, Seen, VisitTypeOK
  <2>3. \/ \E touched \in SUBSET sessionRows : sessionRows' =
             (sessionRows \ touched) \cup {[r EXCEPT !.last = c.at] : r \in touched}
        \/ /\ ActiveSessions(c) = {}
           /\ sessionRows' = sessionRows \cup {[session |-> c.session, visitor |-> c.visitor,
                                                start |-> c.at, last |-> c.at]}
    <3>1. ASSUME NEW r \in sessionRows, sessionRows' = Touched(r, c.at)
          PROVE  \E touched \in SUBSET sessionRows : sessionRows' =
                   (sessionRows \ touched) \cup {[q EXCEPT !.last = c.at] : q \in touched}
      <4> WITNESS {r} \in SUBSET sessionRows
      <4> QED BY <3>1 DEF Touched
    <3>2. CASE TrackVisit(c)
      BY <3>1, <3>2 DEF TrackVisit, SameSession, ActiveSessions
    <3>3. CASE ResolveAttribution(c)
      <4> DEFINE mine == {r \in SameSession(c) : r.visitor = c.visitor}
      <4>1. sessionRows' = (sessionRows \ mine) \cup {[r EXCEPT !.last = c.at] : r \in mine}
        BY <3>3 DEF ResolveAttribution
      <4>2. mine \in SUBSET sessionRows
        BY DEF SameSession
      <4> HIDE DEF mine
      <4> QED BY <4>1, <4>2
    <3> QED BY <1>3, <3>2, <3>3
  <2>4. sessionRows' \subseteq SessionRow /\ LastFollowsStart' /\ VisitsApart'
    <3>1. CASE \E touched \in SUBSET sessionRows : sessionRows' =
             (sessionRows \ touched) \cup {[r EXCEPT !.last = c.at] : r \in touched}
      BY <1>0, <2>1, <3>1, TouchingIsSafe
    <3>2. CASE /\ ActiveSessions(c) = {}
               /\ sessionRows' = sessionRows \cup {[session |-> c.session, visitor |-> c.visitor,
                                                    start |-> c.at, last |-> c.at]}
      <4>1. \A r \in sessionRows : r.visitor = c.visitor => ~ (r.last >= c.at - SessionWindow)
        BY <3>2 DEF ActiveSessions
      <4> QED BY <1>0, <2>1, <3>2, <4>1, NewSessionIsSafe
    <3> QED BY <2>3, <3>1, <3>2
  <2>5. VisitTypeOK' /\ ClocksAreRead' /\ NoIdentifierAfterRefusal'
    BY <2>1, <2>2, <2>4 DEF VisitTypeOK, ClocksAreRead, NoIdentifierAfterRefusal, browserVars,
                            storageVars
  <2> QED BY <2>4, <2>5
<1> QED BY <1>1, <1>2, <1>3

LEMMA ClockInv == ASSUME VisitInv, Clock PROVE VisitInv'
BY DEF VisitInv, Clock, VisitTypeOK, ClocksAreRead, LastFollowsStart, VisitsApart,
       NoIdentifierAfterRefusal, browserVars, storageVars, serverVars, SessionRow, Call

LEMMA CleanupInv == ASSUME VisitInv, CleanupExpiredData PROVE VisitInv'
<1> USE DEF VisitInv
<1>1. sessionRows' \subseteq sessionRows /\ UNCHANGED <<time, browserVars, calls>>
  BY DEF CleanupExpiredData
<1>2. \A v \in DOMAIN lastSeen' : lastSeen'[v] \in Int
  BY DEF CleanupExpiredData, VisitTypeOK
<1>3. LastFollowsStart' /\ VisitsApart'
  BY <1>1 DEF LastFollowsStart, VisitsApart
<1> QED BY <1>1, <1>2, <1>3 DEF VisitTypeOK, ClocksAreRead, NoIdentifierAfterRefusal, browserVars,
                                storageVars

LEMMA VisitNextInv == VisitInv /\ [VisitNext]_visitVars => VisitInv'
<1> SUFFICES ASSUME VisitInv, [VisitNext]_visitVars PROVE VisitInv'
  OBVIOUS
<1>1. CASE UNCHANGED visitVars
  BY <1>1 DEF visitVars, browserVars, storageVars, serverVars, VisitInv, VisitTypeOK,
              ClocksAreRead, LastFollowsStart, VisitsApart, NoIdentifierAfterRefusal
<1>2. CASE VisitNext
  BY <1>2, ClockInv, BrowserInv, CallInv, CleanupInv DEF VisitNext
<1> QED BY <1>1, <1>2

-----------------------------------------------------------------------------
(* The theorems.                                                           *)

\* What browser and API keep of a visit has its type.
THEOREM VisitTypeCorrect == VisitSpec => []VisitTypeOK
<1>1. VisitInv => VisitTypeOK
  BY DEF VisitInv
<1> QED BY <1>1, VisitInitInv, VisitNextInv, PTL DEF VisitSpec

\* However many tabs and calls there are, the visits counted for a visitor began
\* a session window apart, less what a transaction may take.
THEOREM VisitsAreApart == VisitSpec => []VisitsApart
<1>1. VisitInv => VisitsApart
  BY DEF VisitInv
<1> QED BY <1>1, VisitInitInv, VisitNextInv, PTL DEF VisitSpec

\* No tab brings an identifier back after a refusal.
THEOREM RefusalIsKept == VisitSpec => []NoIdentifierAfterRefusal
<1>1. VisitInv => NoIdentifierAfterRefusal
  BY DEF VisitInv
<1> QED BY <1>1, VisitInitInv, VisitNextInv, PTL DEF VisitSpec

-----------------------------------------------------------------------------
(***************************************************************************)
(* RateLimit, for any addresses, windows and limits.  What passed in a     *)
(* window of the code is counted by its entry; any other window is covered *)
(* by two of the code's, which is why twice the limit may pass.            *)
(***************************************************************************)

\* How many requests passed from tick i to tick j.
Between(p, i, j) == SumFunctionOnSet(p, {t \in 0..LastTick : i <= t /\ t <= j})

\* Counts, windows and times have their types.
RateTypeOK ==
  /\ tick \in 0..LastTick
  /\ entries \in [Addresses -> [count : 0..MaxRequests, resetAt : Nat]]
  /\ passed \in [Addresses -> [0..LastTick -> Nat]]
  /\ comeBack \in [Addresses -> Nat]

\* What is known of one address: its window has begun; nothing passes after it
\* ends, nor in the future; its count is what passed since it began; what passed
\* in the window before it was counted then; and every window that ended before
\* it is bounded.  Without an entry, all of that is about windows before time 0.
Window(e, p) ==
  /\ e.resetAt - WindowTicks <= tick
  /\ \A t \in 0..LastTick : t > tick \/ t >= e.resetAt => p[t] = 0
  /\ Between(p, e.resetAt - WindowTicks, LastTick) = e.count
  /\ Between(p, e.resetAt - 2 * WindowTicks, e.resetAt - WindowTicks - 1) <= MaxRequests
  /\ \A i \in Int : i <= e.resetAt - 2 * WindowTicks =>
       Between(p, i, i + WindowTicks - 1) <= 2 * MaxRequests

RateInv ==
  /\ RateTypeOK
  /\ \A a \in Addresses : Window(entries[a], passed[a])
  /\ \A a \in Addresses : comeBack[a] # 0 => comeBack[a] >= entries[a].resetAt
-----------------------------------------------------------------------------
(* Counting over spans of time.                                            *)

Ticks == 0..LastTick
Span(i, j) == {t \in Ticks : i <= t /\ t <= j}

LEMMA SpanIsFinite == ASSUME NEW i \in Int, NEW j \in Int PROVE IsFiniteSet(Span(i, j))
<1>1. IsFiniteSet(Ticks)
  BY RateLimitAssumption, FS_Interval DEF Ticks
<1>2. Span(i, j) \subseteq Ticks
  BY DEF Span
<1> QED BY <1>1, <1>2, FS_Subset

LEMMA BetweenIs ==
  ASSUME NEW p, NEW i, NEW j PROVE Between(p, i, j) = SumFunctionOnSet(p, Span(i, j))
BY DEF Between, Span, Ticks

LEMMA BetweenNat ==
  ASSUME NEW p \in [Ticks -> Nat], NEW i \in Int, NEW j \in Int
  PROVE  Between(p, i, j) \in Nat
<1>1. \A t \in Span(i, j) : p[t] \in Nat
  BY DEF Span
<1> QED BY <1>1, SpanIsFinite, SumNat, BetweenIs

LEMMA BetweenSplits ==
  ASSUME NEW p \in [Ticks -> Nat], NEW i \in Int, NEW m \in Int, NEW j \in Int,
         i <= m + 1, m <= j
  PROVE  Between(p, i, j) = Between(p, i, m) + Between(p, m + 1, j)
<1>1. Ticks \subseteq Int
  BY RateLimitAssumption DEF Ticks
<1>2. /\ Span(i, j) = Span(i, m) \cup Span(m + 1, j)
      /\ Span(i, m) \cap Span(m + 1, j) = {}
  <2>1. \A t \in Ticks : /\ i <= t /\ t <= j <=> (i <= t /\ t <= m) \/ (m + 1 <= t /\ t <= j)
                        /\ ~ (t <= m /\ m + 1 <= t)
    BY <1>1
  <2> QED BY <2>1 DEF Span
<1>3. \A t \in Span(i, m) \cup Span(m + 1, j) : p[t] \in Int
  BY DEF Span
<1>4. IsFiniteSet(Span(i, m)) /\ IsFiniteSet(Span(m + 1, j))
  BY SpanIsFinite
<1>5. SumFunctionOnSet(p, Span(i, m) \cup Span(m + 1, j))
        = SumFunctionOnSet(p, Span(i, m)) + SumFunctionOnSet(p, Span(m + 1, j))
  BY <1>2, <1>3, <1>4, SumUnion
<1> QED BY <1>2, <1>5, BetweenIs

LEMMA BetweenWider ==
  ASSUME NEW p \in [Ticks -> Nat], NEW i \in Int, NEW j \in Int, NEW k \in Int, NEW l \in Int,
         k <= i, j <= l
  PROVE  Between(p, i, j) <= Between(p, k, l)
<1>1. Ticks \subseteq Int
  BY RateLimitAssumption DEF Ticks
<1>2. Span(i, j) \in SUBSET Span(k, l)
  <2>1. \A t \in Ticks : i <= t /\ t <= j => k <= t /\ t <= l
    BY <1>1
  <2> QED BY <2>1 DEF Span
<1>3. \A t \in Span(k, l) : p[t] \in Nat
  BY DEF Span
<1>4. SumFunctionOnSet(p, Span(i, j)) <= SumFunctionOnSet(p, Span(k, l))
  BY <1>2, <1>3, SpanIsFinite, SumSubset
<1> QED BY <1>4, BetweenIs

LEMMA BetweenZero ==
  ASSUME NEW p \in [Ticks -> Nat], NEW i \in Int, NEW j \in Int,
         \A t \in Ticks : i <= t /\ t <= j => p[t] = 0
  PROVE  Between(p, i, j) = 0
<1>1. \A t \in Span(i, j) : p[t] = 0
  BY DEF Span
<1> QED BY <1>1, SpanIsFinite, SumZero, BetweenIs

\* One request passes now.
LEMMA OneMorePassed ==
  ASSUME NEW p \in [Ticks -> Nat], NEW n \in Ticks, NEW i \in Int, NEW j \in Int
  PROVE  LET q == [p EXCEPT ![n] = @ + 1]
         IN  Between(q, i, j) = Between(p, i, j) + IF i <= n /\ n <= j THEN 1 ELSE 0
<1> DEFINE q == [p EXCEPT ![n] = @ + 1]
<1>1. /\ \A t \in Ticks : p[t] \in Int /\ q[t] \in Int
      /\ \A t \in Ticks : t # n => q[t] = p[t]
      /\ q[n] = p[n] + 1
  OBVIOUS
<1>2. n \in Int /\ Span(i, j) \subseteq Ticks
  BY RateLimitAssumption DEF Ticks, Span
<1>3. SumFunctionOnSet(p, Span(i, j)) \in Nat
  BY BetweenNat, BetweenIs
<1> HIDE DEF q
<1>4. CASE i <= n /\ n <= j
  <2>1. n \in Span(i, j)
    BY <1>4 DEF Span
  <2>2. \A t \in Span(i, j) : p[t] \in Int /\ q[t] \in Int
    BY <1>1, <1>2
  <2>3. \A t \in Span(i, j) : t # n => q[t] = p[t]
    BY <1>1, <1>2
  <2>4. SumFunctionOnSet(q, Span(i, j)) = SumFunctionOnSet(p, Span(i, j)) - p[n] + q[n]
    <3> DEFINE S == Span(i, j)
    <3>1. n \in S
      BY <2>1
    <3>2. IsFiniteSet(S)
      BY SpanIsFinite
    <3>3. \A t \in S : p[t] \in Int /\ q[t] \in Int
      BY <2>2
    <3>4. \A t \in S : t # n => q[t] = p[t]
      BY <2>3
    <3> DEFINE f == p
    <3>5. \A t \in S : f[t] \in Int /\ q[t] \in Int
      BY <3>3
    <3>6. \A t \in S : t # n => q[t] = f[t]
      BY <3>4
    <3> HIDE DEF S, f
    <3>7. SumFunctionOnSet(q, S) = SumFunctionOnSet(f, S) - f[n] + q[n]
      BY <3>1, <3>2, <3>5, <3>6, SumChange
    <3> QED BY <3>7 DEF S, f
  <2>5. SumFunctionOnSet(q, Span(i, j)) = SumFunctionOnSet(p, Span(i, j)) + 1
    BY <1>1, <1>3, <2>4
  <2>6. Between(q, i, j) = Between(p, i, j) + 1
    BY <2>5, BetweenIs
  <2> QED BY <1>4, <2>6 DEF q
<1>5. CASE ~ (i <= n /\ n <= j)
  <2>1. \A t \in Span(i, j) : q[t] = p[t]
    BY <1>1, <1>2, <1>5 DEF Span
  <2>2. SumFunctionOnSet(q, Span(i, j)) = SumFunctionOnSet(p, Span(i, j))
    BY <2>1, SpanIsFinite, SumEqual
  <2>3. Between(q, i, j) = Between(p, i, j) /\ Between(p, i, j) \in Nat
    BY <2>2, BetweenIs, BetweenNat
  <2> QED BY <1>5, <2>3 DEF q
<1> QED BY <1>4, <1>5

-----------------------------------------------------------------------------
(* One window after another.                                               *)

Entries == [count : 0..MaxRequests, resetAt : Nat]

LEMMA RateConstants ==
  /\ WindowTicks \in Nat /\ WindowTicks >= 1 /\ MaxRequests \in Nat /\ MaxRequests >= 1
  /\ LastTick \in Nat /\ TicksPerSecond \in Nat /\ TicksPerSecond >= 1
BY RateLimitAssumption

\* A window's length that begins after the last window but one did, meets two.
LEMMA TwoWindows ==
  ASSUME NEW e \in Entries, NEW p \in [Ticks -> Nat], Window(e, p),
         NEW i \in Int, i > e.resetAt - 2 * WindowTicks
  PROVE  Between(p, i, i + WindowTicks - 1) <= 2 * MaxRequests
<1> DEFINE s == e.resetAt - WindowTicks
           j == i + WindowTicks - 1
           before == Between(p, e.resetAt - 2 * WindowTicks, s - 1)
           since == Between(p, s, LastTick)
<1>1. s \in Int /\ j \in Int /\ e.resetAt - 2 * WindowTicks \in Int /\ i <= j /\ s <= j
      /\ e.count \in Nat /\ e.count <= MaxRequests /\ LastTick \in Int /\ MaxRequests \in Nat
      /\ s - 1 \in Int /\ s - 1 <= j
  BY RateConstants DEF Entries
<1>2. before <= MaxRequests /\ since <= MaxRequests
  BY <1>1 DEF Window
<1>3. before \in Nat /\ since \in Nat
  BY <1>1, BetweenNat
<1>4. Between(p, s, j) <= since
  <2>1. CASE j <= LastTick
    BY <1>1, <2>1, BetweenWider
  <2>2. CASE j > LastTick
    <3>1. Span(s, j) = Span(s, LastTick)
      BY <1>1, <2>2 DEF Span, Ticks
    <3>2. Between(p, s, j) = since
      BY <3>1, BetweenIs
    <3> QED BY <1>3, <3>2
  <2> QED BY <1>1, <2>1, <2>2
<1> HIDE DEF before, since
<1>5. CASE i >= s
  <2>1. Between(p, i, j) <= Between(p, s, j)
    BY <1>1, <1>5, BetweenWider
  <2>2. Between(p, i, j) \in Nat /\ Between(p, s, j) \in Nat
    BY <1>1, BetweenNat
  <2> QED BY <1>1, <1>2, <1>3, <1>4, <2>1, <2>2
<1>6. CASE i < s
  <2>1. Between(p, i, j) = Between(p, i, s - 1) + Between(p, s, j)
    <3>1. i <= (s - 1) + 1 /\ (s - 1) + 1 = s
      BY <1>1, <1>6
    <3>2. Between(p, i, j) = Between(p, i, s - 1) + Between(p, (s - 1) + 1, j)
      BY <1>1, <3>1, BetweenSplits
    <3> QED BY <3>1, <3>2
  <2>2. Between(p, i, s - 1) <= before
    BY <1>1, BetweenWider DEF before
  <2>3. Between(p, i, s - 1) \in Nat /\ Between(p, s, j) \in Nat
    BY <1>1, BetweenNat
  <2> QED BY <1>1, <1>2, <1>3, <1>4, <2>1, <2>2, <2>3
<1> QED BY <1>1, <1>5, <1>6

LEMMA EveryWindow ==
  ASSUME NEW e \in Entries, NEW p \in [Ticks -> Nat], Window(e, p), NEW i \in Int
  PROVE  Between(p, i, i + WindowTicks - 1) <= 2 * MaxRequests
<1>1. e.resetAt - 2 * WindowTicks \in Int
  BY RateConstants DEF Entries
<1> QED BY <1>1, TwoWindows DEF Window

\* At the start, and after a restart.
LEMMA WindowOfNothing ==
  ASSUME tick \in Ticks PROVE Window(NoEntry, [t \in Ticks |-> 0])
<1> DEFINE p == [t \in Ticks |-> 0]
<1>1. p \in [Ticks -> Nat] /\ \A t \in Ticks : p[t] = 0
  OBVIOUS
<1> HIDE DEF p
<1>2. \A i, j \in Int : Between(p, i, j) = 0
  BY <1>1, BetweenZero
<1>3. NoEntry.resetAt = 0 /\ NoEntry.count = 0
  BY DEF NoEntry
<1>4. Between(p, 0 - WindowTicks, LastTick) = 0
      /\ Between(p, 0 - 2 * WindowTicks, 0 - WindowTicks - 1) = 0
  BY <1>2, RateConstants
<1>5. \A i \in Int : Between(p, i, i + WindowTicks - 1) = 0
  BY <1>2, RateConstants
<1>6. 0 - WindowTicks <= tick
  BY RateConstants DEF Ticks
<1> DEFINE e == NoEntry
<1>7. e.resetAt = 0 /\ e.count = 0 /\ 0 <= MaxRequests /\ 0 <= 2 * MaxRequests
  BY <1>3, RateConstants
<1> HIDE DEF e
<1>8. Window(e, p)
  BY <1>1, <1>4, <1>5, <1>6, <1>7 DEF Window, Ticks
<1> QED BY <1>8 DEF p, e

\* A window begins: the one before it is over.
LEMMA WindowBegins ==
  ASSUME NEW e \in Entries, NEW p \in [Ticks -> Nat], Window(e, p), tick \in Ticks,
         e.resetAt <= tick
  PROVE  Window([count |-> 1, resetAt |-> tick + WindowTicks], [p EXCEPT ![tick] = @ + 1])
<1> DEFINE f == [count |-> 1, resetAt |-> tick + WindowTicks]
           q == [p EXCEPT ![tick] = @ + 1]
<1>1. /\ tick \in Nat /\ tick <= LastTick /\ e.resetAt \in Nat
      /\ e.count \in Nat /\ e.count <= MaxRequests
  BY RateConstants DEF Ticks, Entries
<1>2. f.resetAt - WindowTicks = tick /\ f.resetAt - 2 * WindowTicks = tick - WindowTicks
      /\ f.count = 1 /\ f.resetAt > tick /\ f.resetAt \in Nat
  BY <1>1, RateConstants
<1>3. q \in [Ticks -> Nat] /\ \A t \in Ticks : t # tick => q[t] = p[t]
  OBVIOUS
<1>4. \A i, j \in Int :
        Between(q, i, j) = Between(p, i, j) + IF i <= tick /\ tick <= j THEN 1 ELSE 0
  BY OneMorePassed
<1> HIDE DEF f, q
<1>5. \A t \in Ticks : t > tick \/ t >= f.resetAt => q[t] = 0
  <2> TAKE t \in Ticks
  <2> HAVE t > tick \/ t >= f.resetAt
  <2>1. t > tick
    BY <1>1, <1>2 DEF Ticks
  <2>2. p[t] = 0 /\ t # tick
    BY <1>1, <2>1 DEF Window, Ticks
  <2> QED BY <1>3, <2>2
<1>6. Between(q, tick, LastTick) = 1
  <2>1. \A t \in Ticks : tick <= t /\ t <= LastTick => p[t] = 0
    BY <1>1 DEF Window, Ticks
  <2>2. Between(p, tick, LastTick) = 0
    BY <1>1, <2>1, BetweenZero, RateConstants
  <2> QED BY <1>1, <1>4, <2>2, RateConstants
<1>7. Between(q, tick - WindowTicks, tick - 1) <= MaxRequests
  <2> DEFINE k == e.resetAt - WindowTicks
  <2>1. k \in Int /\ k <= tick - WindowTicks /\ tick - WindowTicks \in Int
        /\ tick - 1 \in Int /\ tick - 1 <= LastTick /\ LastTick \in Int
    BY <1>1, RateConstants
  <2>2. Between(p, k, LastTick) = e.count
    BY DEF Window
  <2> HIDE DEF k
  <2>3. Between(p, tick - WindowTicks, tick - 1) <= Between(p, k, LastTick)
    BY <2>1, BetweenWider
  <2>4. Between(q, tick - WindowTicks, tick - 1) = Between(p, tick - WindowTicks, tick - 1)
    <3>1. Between(p, tick - WindowTicks, tick - 1) \in Nat
      BY <2>1, BetweenNat
    <3> QED BY <1>1, <1>4, <2>1, <3>1
  <2>5. Between(p, tick - WindowTicks, tick - 1) \in Nat
    BY <2>1, BetweenNat
  <2> QED BY <1>1, <2>2, <2>3, <2>4, <2>5, RateConstants
<1>8. ASSUME NEW i \in Int, i <= tick - WindowTicks
      PROVE  Between(q, i, i + WindowTicks - 1) <= 2 * MaxRequests
  <2> DEFINE j == i + WindowTicks - 1
  <2>1. j \in Int /\ ~ (tick <= j)
    BY <1>1, <1>8, RateConstants
  <2>2. Between(p, i, j) <= 2 * MaxRequests
    BY EveryWindow
  <2> HIDE DEF j
  <2>3. Between(p, i, j) \in Nat
    BY <2>1, BetweenNat
  <2>4. Between(q, i, j) = Between(p, i, j)
    BY <1>4, <2>1, <2>3
  <2> QED BY <2>2, <2>4 DEF j
<1>9. Window(f, q)
  BY <1>1, <1>2, <1>5, <1>6, <1>7, <1>8 DEF Window, Ticks
<1> QED BY <1>9 DEF f, q

\* A request passes in the window.
LEMMA WindowCounts ==
  ASSUME NEW e \in Entries, NEW p \in [Ticks -> Nat], Window(e, p), tick \in Ticks,
         tick < e.resetAt
  PROVE  Window([e EXCEPT !.count = @ + 1], [p EXCEPT ![tick] = @ + 1])
<1> DEFINE f == [e EXCEPT !.count = @ + 1]
           q == [p EXCEPT ![tick] = @ + 1]
           s == e.resetAt - WindowTicks
<1>1. tick \in Nat /\ tick <= LastTick /\ e.resetAt \in Nat /\ e.count \in Nat
  BY RateConstants DEF Ticks, Entries
<1>2. f.resetAt = e.resetAt /\ f.count = e.count + 1
  BY DEF Entries
<1>3. q \in [Ticks -> Nat] /\ \A t \in Ticks : t # tick => q[t] = p[t]
  OBVIOUS
<1>4. \A i, j \in Int :
        Between(q, i, j) = Between(p, i, j) + IF i <= tick /\ tick <= j THEN 1 ELSE 0
  BY OneMorePassed
<1>5. s \in Int /\ s <= tick /\ s - 1 \in Int /\ e.resetAt - 2 * WindowTicks \in Int
  BY <1>1, RateConstants DEF Window
<1>6. Between(p, s, LastTick) = e.count
      /\ Between(p, e.resetAt - 2 * WindowTicks, s - 1) <= MaxRequests
  BY DEF Window
<1> HIDE DEF f, q, s
<1>7. \A t \in Ticks : t > tick \/ t >= f.resetAt => q[t] = 0
  <2> TAKE t \in Ticks
  <2> HAVE t > tick \/ t >= f.resetAt
  <2>1. p[t] = 0 /\ t # tick
    BY <1>1, <1>2 DEF Window, Ticks
  <2> QED BY <1>3, <2>1
<1>8. Between(q, s, LastTick) = f.count
  BY <1>1, <1>2, <1>4, <1>5, <1>6, RateConstants
<1>9. Between(q, e.resetAt - 2 * WindowTicks, s - 1) <= MaxRequests
  <2>1. Between(p, e.resetAt - 2 * WindowTicks, s - 1) \in Nat
    BY <1>5, BetweenNat
  <2>2. Between(q, e.resetAt - 2 * WindowTicks, s - 1)
          = Between(p, e.resetAt - 2 * WindowTicks, s - 1)
    BY <1>1, <1>4, <1>5, <2>1
  <2> QED BY <1>6, <2>2
<1>10. ASSUME NEW i \in Int, i <= e.resetAt - 2 * WindowTicks
       PROVE  Between(q, i, i + WindowTicks - 1) <= 2 * MaxRequests
  <2> DEFINE j == i + WindowTicks - 1
  <2>1. j \in Int /\ ~ (tick <= j)
    BY <1>1, <1>5, <1>10, RateConstants DEF s
  <2>2. Between(p, i, j) <= 2 * MaxRequests
    BY EveryWindow
  <2> HIDE DEF j
  <2>3. Between(p, i, j) \in Nat
    BY <2>1, BetweenNat
  <2>4. Between(q, i, j) = Between(p, i, j)
    BY <1>4, <2>1, <2>3
  <2> QED BY <2>2, <2>4 DEF j
<1>11. Window(f, q)
  BY <1>2, <1>5, <1>7, <1>8, <1>9, <1>10 DEF Window, Ticks, s
<1> QED BY <1>11 DEF f, q

-----------------------------------------------------------------------------
(* The invariant of the limit.                                             *)

\* Retry-After is rounded up.
LEMMA RetryIsLongEnough ==
  ASSUME NEW e \in Entries, tick \in Nat, tick < e.resetAt
  PROVE  /\ tick + TicksPerSecond * RetryAfter(e) \in Nat
         /\ tick + TicksPerSecond * RetryAfter(e) >= e.resetAt
<1> DEFINE n == e.resetAt - tick + TicksPerSecond - 1
           s == n \div TicksPerSecond
<1>1. /\ n \in Nat /\ n = (e.resetAt - tick) + TicksPerSecond - 1 /\ e.resetAt \in Nat
      /\ TicksPerSecond \in Nat /\ TicksPerSecond >= 1 /\ tick \in Nat
  BY RateConstants DEF Entries
<1>2. RetryAfter(e) = IF s < 1 THEN 1 ELSE s
  BY DEF RetryAfter
<1> HIDE DEF n
<1>3. n = TicksPerSecond * s + (n % TicksPerSecond) /\ n % TicksPerSecond < TicksPerSecond
      /\ s \in Nat
  BY <1>1
<1> HIDE DEF s
<1>4. RetryAfter(e) \in Nat /\ RetryAfter(e) >= s
  BY <1>2, <1>3
<1> DEFINE r == RetryAfter(e)
           rest == n % TicksPerSecond
<1>5. rest \in Int /\ n = TicksPerSecond * s + rest /\ rest < TicksPerSecond
  BY <1>1, <1>3
<1>6. r \in Nat /\ r >= s
  BY <1>4
<1> HIDE DEF r, rest
<1>7. TicksPerSecond * r >= TicksPerSecond * s /\ TicksPerSecond * r \in Nat
      /\ TicksPerSecond * s \in Nat
  BY <1>1, <1>3, <1>6
<1> DEFINE x == TicksPerSecond * r
           y == TicksPerSecond * s
<1>8. x >= y /\ x \in Nat /\ y \in Nat /\ n = y + rest
  BY <1>5, <1>7
<1> HIDE DEF x, y
<1>9. tick + x \in Nat /\ tick + x >= e.resetAt
  BY <1>1, <1>5, <1>8
<1> QED BY <1>9 DEF x, r

LEMMA RateInitially == RateLimitInit => RateInv
<1> SUFFICES ASSUME RateLimitInit PROVE RateInv
  OBVIOUS
<1>1. tick \in Ticks
  BY RateConstants DEF RateLimitInit, Ticks
<1>2. NoEntry \in [count : 0..MaxRequests, resetAt : Nat]
  BY RateConstants DEF NoEntry
<1>3. RateTypeOK
  BY <1>1, <1>2, RateConstants DEF RateLimitInit, RateTypeOK, Ticks
<1>4. \A a \in Addresses : entries[a] = NoEntry /\ passed[a] = [t \in Ticks |-> 0]
                           /\ comeBack[a] = 0
  BY DEF RateLimitInit, Ticks
<1> QED BY <1>1, <1>3, <1>4, WindowOfNothing DEF RateInv

LEMMA RateTypes ==
  ASSUME RateInv
  PROVE  /\ tick \in Ticks /\ tick \in Nat
         /\ entries \in [Addresses -> Entries]
         /\ passed \in [Addresses -> [Ticks -> Nat]]
         /\ comeBack \in [Addresses -> Nat]
BY RateConstants DEF RateInv, RateTypeOK, Ticks, Entries

\* A step of one address that leaves the time as it is.
LEMMA OneAddress ==
  ASSUME RateInv, NEW a \in Addresses, tick' = tick,
         NEW e \in Entries, NEW p \in [Ticks -> Nat], NEW c \in Nat,
         entries' = [entries EXCEPT ![a] = e], passed' = [passed EXCEPT ![a] = p],
         comeBack' = [comeBack EXCEPT ![a] = c],
         Window(e, p), c # 0 => c >= e.resetAt
  PROVE  RateInv'
<1>1. /\ tick \in Ticks
      /\ entries \in [Addresses -> Entries]
      /\ passed \in [Addresses -> [Ticks -> Nat]]
      /\ comeBack \in [Addresses -> Nat]
  BY RateTypes
<1>2. RateTypeOK'
  BY <1>1 DEF RateTypeOK, Entries, Ticks
<1>3. \A b \in Addresses : /\ entries'[b] = IF b = a THEN e ELSE entries[b]
                           /\ passed'[b] = IF b = a THEN p ELSE passed[b]
                           /\ comeBack'[b] = IF b = a THEN c ELSE comeBack[b]
  BY <1>1
<1>4. ASSUME NEW b \in Addresses PROVE Window(entries[b], passed[b])'
  <2>1. Window(entries'[b], passed'[b])
    BY <1>3 DEF RateInv
  <2> QED BY <2>1 DEF Window
<1>5. \A b \in Addresses : comeBack'[b] # 0 => comeBack'[b] >= entries'[b].resetAt
  BY <1>3 DEF RateInv
<1> QED BY <1>2, <1>4, <1>5 DEF RateInv

LEMMA RateStep == RateInv /\ [RateLimitNext]_limitVars => RateInv'
<1> SUFFICES ASSUME RateInv, [RateLimitNext]_limitVars PROVE RateInv'
  OBVIOUS
<1>t. /\ tick \in Ticks /\ tick \in Nat
      /\ entries \in [Addresses -> Entries]
      /\ passed \in [Addresses -> [Ticks -> Nat]]
      /\ comeBack \in [Addresses -> Nat]
  BY RateTypes
<1>w. \A a \in Addresses : /\ Window(entries[a], passed[a])
                           /\ comeBack[a] # 0 => comeBack[a] >= entries[a].resetAt
  BY DEF RateInv
<1>1. CASE TickPasses
  <2>1. tick' = tick + 1 /\ tick' \in 0..LastTick /\ UNCHANGED <<entries, passed, comeBack>>
    BY <1>1, <1>t, RateConstants DEF TickPasses
  <2>2. RateTypeOK'
    BY <2>1 DEF RateInv, RateTypeOK
  <2>3. ASSUME NEW a \in Addresses PROVE Window(entries[a], passed[a])'
    <3> DEFINE e == entries[a]
               p == passed[a]
    <3>1. Window(e, p) /\ e \in Entries
      BY <1>t, <1>w
    <3>2. e.resetAt - WindowTicks \in Int /\ e.resetAt \in Nat
      BY <3>1, RateConstants DEF Entries
    <3>3. e' = e /\ p' = p
      BY <2>1
    <3> HIDE DEF e, p
    <3>4. e.resetAt - WindowTicks <= tick'
      BY <1>t, <2>1, <3>1, <3>2 DEF Window
    <3>5. \A t \in 0..LastTick : t > tick' \/ t >= e.resetAt => p[t] = 0
      BY <1>t, <2>1, <3>1 DEF Window
    <3>6. Window(e, p)'
      BY <3>1, <3>3, <3>4, <3>5 DEF Window
    <3> QED BY <3>6 DEF e, p
  <2> QED BY <1>w, <2>1, <2>2, <2>3 DEF RateInv
<1>2. CASE Restart
  <2>1. /\ tick' = tick /\ entries' = [a \in Addresses |-> NoEntry]
        /\ passed' = [a \in Addresses |-> [t \in Ticks |-> 0]]
        /\ comeBack' = [a \in Addresses |-> 0]
    BY <1>2 DEF Restart, Forget, Ticks
  <2>2. NoEntry \in Entries
    BY RateConstants DEF NoEntry, Entries
  <2>3. RateTypeOK'
    BY <1>t, <2>1, <2>2 DEF RateTypeOK, Ticks, Entries
  <2>4. ASSUME NEW a \in Addresses PROVE Window(entries[a], passed[a])'
    <3>1. Window(NoEntry, [t \in Ticks |-> 0])
      BY <1>t, WindowOfNothing
    <3>2. entries'[a] = NoEntry /\ passed'[a] = [t \in Ticks |-> 0]
      BY <2>1
    <3>3. Window(entries'[a], passed'[a])
      BY <3>1, <3>2
    <3> QED BY <2>1, <3>3 DEF Window
  <2> QED BY <2>1, <2>3, <2>4 DEF RateInv
<1>3. ASSUME NEW a \in Addresses, StartWindow(a) PROVE RateInv'
  <2> DEFINE e == entries[a]
             p == passed[a]
             f == [count |-> 1, resetAt |-> tick + WindowTicks]
             q == [p EXCEPT ![tick] = @ + 1]
  <2>1. /\ tick' = tick /\ entries' = [entries EXCEPT ![a] = f]
        /\ comeBack' = [comeBack EXCEPT ![a] = 0]
    BY <1>3 DEF StartWindow
  <2>2. passed' = [passed EXCEPT ![a] = q]
    BY <1>3, <1>t DEF StartWindow, Passes
  <2>3. e \in Entries /\ p \in [Ticks -> Nat] /\ Window(e, p) /\ e.resetAt <= tick
    BY <1>3, <1>t, <1>w DEF StartWindow, WindowIsOver
  <2>4. f \in Entries /\ q \in [Ticks -> Nat]
    BY <1>t, <2>3, RateConstants DEF Entries
  <2> HIDE DEF e, p
  <2>5. Window(f, q)
    BY <1>t, <2>3, WindowBegins
  <2> HIDE DEF f, q
  <2> QED BY <2>1, <2>2, <2>4, <2>5, OneAddress
<1>4. ASSUME NEW a \in Addresses, CountRequest(a) PROVE RateInv'
  <2> DEFINE e == entries[a]
             p == passed[a]
             f == [e EXCEPT !.count = @ + 1]
             q == [p EXCEPT ![tick] = @ + 1]
             c == comeBack[a]
  <2>1. tick' = tick /\ entries' = [entries EXCEPT ![a] = f] /\ comeBack' = comeBack
    BY <1>4, <1>t DEF CountRequest
  <2>2. passed' = [passed EXCEPT ![a] = q]
    BY <1>4, <1>t DEF CountRequest, Passes
  <2>3. e \in Entries /\ p \in [Ticks -> Nat] /\ Window(e, p)
    BY <1>t, <1>w
  <2>4. tick < e.resetAt /\ e.count < MaxRequests
    BY <1>4, <1>t, <2>3, RateConstants DEF CountRequest, WindowIsOver, WindowIsFull, Entries
  <2>5. f \in Entries /\ q \in [Ticks -> Nat] /\ f.resetAt = e.resetAt
    BY <1>t, <2>3, <2>4, RateConstants DEF Entries
  <2>6. c \in Nat /\ (c # 0 => c >= f.resetAt) /\ comeBack' = [comeBack EXCEPT ![a] = c]
    BY <1>t, <1>w, <2>1, <2>5
  <2> HIDE DEF e, p, c
  <2>7. Window(f, q)
    BY <1>t, <2>3, <2>4, WindowCounts
  <2> HIDE DEF f, q
  <2> QED BY <2>1, <2>2, <2>5, <2>6, <2>7, OneAddress
<1>5. ASSUME NEW a \in Addresses, RefuseRequest(a) PROVE RateInv'
  <2> DEFINE e == entries[a]
             p == passed[a]
             c == tick + TicksPerSecond * RetryAfter(e)
  <2>1. /\ tick' = tick /\ entries' = [entries EXCEPT ![a] = e]
        /\ passed' = [passed EXCEPT ![a] = p]
        /\ comeBack' = [comeBack EXCEPT ![a] = c]
    BY <1>5, <1>t DEF RefuseRequest
  <2>2. e \in Entries /\ p \in [Ticks -> Nat] /\ Window(e, p)
    BY <1>t, <1>w
  <2>3. tick < e.resetAt
    BY <1>5, <1>t, <2>2 DEF RefuseRequest, WindowIsOver, Entries
  <2> HIDE DEF e, p
  <2>4. c \in Nat /\ c >= e.resetAt
    BY <1>t, <2>2, <2>3, RetryIsLongEnough
  <2> HIDE DEF c
  <2> QED BY <2>1, <2>2, <2>4, OneAddress
<1>6. CASE UNCHANGED limitVars
  <2>1. UNCHANGED <<tick, entries, passed, comeBack>>
    BY <1>6 DEF limitVars
  <2> QED BY <2>1 DEF RateInv, RateTypeOK, Window
<1> QED BY <1>1, <1>2, <1>3, <1>4, <1>5, <1>6 DEF RateLimitNext

\* Wherever a window's length is laid over the requests of an address, at most
\* twice the maximum passed in it, and Retry-After is never too short: for any
\* window, maximum and clock, and across restarts, for each process by itself
\* (checkout-rate-limit.middleware.ts).
THEOREM TwiceTheMaximumAtMost == RateLimitSpec => []RateIsBounded
<1>1. RateInv => RateIsBounded
  <2> SUFFICES ASSUME RateInv, NEW a \in Addresses
               PROVE  /\ \A t \in 0..tick :
                           PassedFrom(a, t, IF t + WindowTicks - 1 < tick
                                            THEN t + WindowTicks - 1 ELSE tick)
                             <= 2 * MaxRequests
                      /\ comeBack[a] # 0 => comeBack[a] >= entries[a].resetAt
    BY DEF RateIsBounded
  <2>t. /\ tick \in Ticks /\ tick \in Nat
        /\ entries[a] \in Entries /\ passed[a] \in [Ticks -> Nat]
        /\ Window(entries[a], passed[a])
    BY RateTypes DEF RateInv
  <2>1. ASSUME NEW t \in 0..tick
        PROVE  PassedFrom(a, t, IF t + WindowTicks - 1 < tick
                                THEN t + WindowTicks - 1 ELSE tick) <= 2 * MaxRequests
    <3> DEFINE to == IF t + WindowTicks - 1 < tick THEN t + WindowTicks - 1 ELSE tick
               j == t + WindowTicks - 1
               p == passed[a]
    <3>1. /\ t \in Int /\ j \in Int /\ to \in Int /\ to <= j /\ to <= LastTick /\ t >= 0
      BY <2>t, RateConstants DEF Ticks
    <3>2. Between(p, t, j) <= 2 * MaxRequests
      BY <2>t, <3>1, EveryWindow
    <3>3. p \in [Ticks -> Nat]
      BY <2>t
    <3> HIDE DEF to, j, p
    <3>4. t..to = Span(t, to)
      BY <3>1, RateConstants DEF Span, Ticks
    <3>5. PassedFrom(a, t, to) = Between(p, t, to)
      BY <3>4, BetweenIs DEF PassedFrom, p
    <3>6. Between(p, t, to) <= Between(p, t, j)
      BY <3>1, <3>3, BetweenWider
    <3>7. Between(p, t, to) \in Nat /\ Between(p, t, j) \in Nat
      BY <3>1, <3>3, BetweenNat
    <3>8. PassedFrom(a, t, to) <= 2 * MaxRequests
      BY <3>2, <3>5, <3>6, <3>7, RateConstants
    <3> QED BY <3>8 DEF to
  <2>2. comeBack[a] # 0 => comeBack[a] >= entries[a].resetAt
    BY DEF RateInv
  <2> QED BY <2>1, <2>2
<1> QED BY <1>1, RateInitially, RateStep, PTL DEF RateLimitSpec
=============================================================================
