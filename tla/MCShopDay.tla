------------------------------- MODULE MCShopDay -------------------------------
(***************************************************************************)
(* Small instances for TLC of the machines that share no state: each       *)
(* behaviour runs one of them, `part', and leaves the others as they begin.*)
(* Their state spaces add up and do not multiply.                          *)
(***************************************************************************)
EXTENDS ShopCheckout, ProductionNeeds, CashRegister, RateLimit,
        VisitSessions, Catalogue, BackOffice, Accounts, TLC

VARIABLE part

\* The dates of January 1970: day 3 is Sunday the 4th, day 4 a Monday.
Wednesdays == [weekdays |-> {3}, anchor |-> NoAnchor]
Market == [weekdays |-> {1, 2, 3}, anchor |-> NoAnchor]
Alternating == [weekdays |-> {2}, anchor |-> 5]
Misfit == [weekdays |-> {2}, anchor |-> 6]
Unreadable == [weekdays |-> {1}, anchor |-> BadAnchor]
TwoPoints == 1 :> [calendar |-> Wednesdays, active |-> TRUE]
               @@ 2 :> [calendar |-> Market, active |-> TRUE]
OtherCalendars == {Alternating, Misfit, Unreadable}

\* Hours in Paris: 00:00 of a day, 23:00 of the day when the clocks go forward,
\* 00:00 of the next; 23:00 of the day when they go back, 00:00 of the next.
SpringHours == {23, 45, 46}
AutumnHours == {23, 5014, 5015}
SomeHours == SpringHours \cup AutumnHours
Line(prixCents, quantite, tvaBps) ==
  [prixCents |-> prixCents, quantite |-> quantite, tvaBps |-> tvaBps]
SomeTickets ==
  { [lines |-> <<Line(250, 1, 550)>>, remise |-> 0, mode |-> "cb"],
    [lines |-> <<Line(199, 2, 550), Line(5, 1, 2000)>>, remise |-> 100, mode |-> "especes"],
    [lines |-> <<Line(250, 1, 550)>>, remise |-> 1000, mode |-> "cheque"] }

DayInit ==
  /\ part \in {"checkout", "needs", "spring", "autumn", "limit", "visits", "images",
               "catalogue", "office", "accounts"}
  /\ CheckoutPageInit /\ NeedsInit /\ CashInit /\ RateLimitInit
  /\ VisitInit /\ CatalogueInit /\ OfficeInit /\ AccountsInit
  /\ part # "office" => role = "admin"

Only(p) ==
  /\ part = p /\ UNCHANGED part
  /\ p # "checkout" => UNCHANGED checkoutVars
  /\ p # "needs" => UNCHANGED needsVars
  /\ p \notin {"spring", "autumn"} => UNCHANGED cashVars
  /\ p # "limit" => UNCHANGED limitVars
  /\ p # "visits" => UNCHANGED visitVars
  /\ p \notin {"images", "catalogue"} => UNCHANGED catalogueVars
  /\ p # "office" => UNCHANGED officeVars
  /\ p # "accounts" => UNCHANGED accountVars

DayNext ==
  \/ Only("checkout") /\ ShopCheckoutNext
  \/ Only("needs") /\ NeedsNext
  \* The till around one change of the clock or the other.
  \/ Only("spring") /\ CashNext /\ hour' \in SpringHours
  \/ Only("autumn") /\ CashNext /\ hour' \in AutumnHours
  \/ Only("limit") /\ RateLimitNext
  \/ Only("visits") /\ VisitNext
  \* Two forms and nobody else, or one form and a request of the staff.
  \/ Only("images") /\ CatalogueNext /\ UNCHANGED staff
  \/ /\ Only("catalogue") /\ CatalogueNext
     /\ Cardinality({f \in FormIds : form'[f] # NoForm}) <= 1
  \/ Only("office") /\ OfficeNext
  \/ Only("accounts") /\ AccountsNext

DaySpec == DayInit /\ [][DayNext]_<<part, checkoutVars, needsVars, cashVars,
  limitVars, visitVars, catalogueVars, officeVars, accountVars>>

\* A state is known by what its machine has changed.
View ==
  CASE part = "checkout" -> <<part, checkoutVars>>
    [] part = "needs" -> <<part, needsVars>>
    [] part \in {"spring", "autumn"} -> <<part, cashVars>>
    [] part = "limit" -> <<part, limitVars>>
    [] part = "visits" -> <<part, visitVars>>
    [] part \in {"images", "catalogue"} -> <<part, catalogueVars>>
    [] part = "office" -> <<part, officeVars>>
    [] part = "accounts" -> <<part, accountVars>>

\* The forms are interchangeable.
Symmetry == Permutations(FormIds)
=============================================================================
