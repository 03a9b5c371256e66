------------------------------ MODULE StockLedger ------------------------------
(***************************************************************************)
(* The three books that count the stock: the figure of an article or of a  *)
(* raw material (Article.stock, MatierePremiere.stock), the dated lots     *)
(* (StockLot), and the allocations of orders to lots                       *)
(* (CommandeStockAllocation).  Orders, sales, production, receptions,      *)
(* adjustments and losses write them (mouvements-stock.service.ts,         *)
(* commande-stock-reservation.service.ts, ventes.service.ts,               *)
(* articles.service.ts).                                                   *)
(*                                                                         *)
(* Every operation updates or locks the row of its item before it reads    *)
(* the lots, so two operations on an item never interleave: each is one    *)
(* action.  An order has one line: the lines of an order are on different  *)
(* articles, and go through the same steps one after the other.            *)
(* Quantities are whole numbers and dates are days.                        *)
(***************************************************************************)
EXTENDS Integers, Sequences, FiniteSetsExt

CONSTANTS
  Articles,      \* what is sold
  Matieres,      \* raw materials
  Nomenclature,  \* units of each raw material in one unit of each article
  Orders,        \* the orders that may be placed
  NoArticle,     \* the article of an order that does not exist
  MaxQuantity,   \* bound on the quantity of one operation
  MaxStock,      \* bound on the stock an entry may lead to
  MaxLots,       \* bound on the number of lots
  LastDay        \* bound on the clock, and on the dates of lots

ASSUME LedgerAssumption ==
  /\ Articles \cap Matieres = {}
  /\ NoArticle \notin Articles
  /\ Nomenclature \in [Articles -> [Matieres -> Nat]]
  /\ IsFiniteSet(Orders)
  /\ {MaxQuantity, MaxStock, MaxLots, LastDay} \subseteq Nat

VARIABLES
  stock,       \* the figure of each item
  lots,        \* the lots in the order of their creation
  order,       \* the line of each order
  allocation,  \* what the line of an order took from each lot
  today,       \* startOfToday
  overdrawn    \* history: items an adjustment took below their expired lots

vars == <<stock, lots, order, allocation, today, overdrawn>>

Items == Articles \cup Matieres
Quantities == 1..MaxQuantity
LotIds == 1..MaxLots
NoDate == -1
Dates == 0..LastDay

Lot == [item : Items, expiresAt : Dates, initial : Nat, remaining : Nat]
Line == [status : {"absent", "open", "delivered", "released"},
         article : Articles \cup {NoArticle}, quantity : Nat, preordered : Nat]
NoLine == [status |-> "absent", article |-> NoArticle, quantity |-> 0,
           preordered |-> 0]

\* With the constraints of the schema: a lot never counts less than nothing
\* (Lot), and neither does a raw material.
LedgerTypeOK ==
  /\ stock \in [Items -> Int]
  /\ \A m \in Matieres : stock[m] >= 0
  /\ lots \in Seq(Lot)
  /\ order \in [Orders -> Line]
  /\ allocation \in [Orders -> [LotIds -> Nat]]
  /\ today \in Dates
  /\ overdrawn \subseteq Items

Init ==
  /\ stock = [x \in Items |-> 0]
  /\ lots = <<>>
  /\ order = [o \in Orders |-> NoLine]
  /\ allocation = [o \in Orders |-> [l \in LotIds |-> 0]]
  /\ today = 0
  /\ overdrawn = {}

------------------------------------------------------------------------------
(* Lots *)

AtLeastZero(n) == Max({0, n})

LotsOf(x) == {l \in DOMAIN lots : lots[l].item = x}
Remaining(S) == SumFunctionOnSet([l \in DOMAIN lots |-> lots[l].remaining], S)

Expired(l) == lots[l].expiresAt < today
ExpiredStock(x) == Remaining({l \in LotsOf(x) : Expired(l)})

\* Variant: lots that have expired are used too.
ConsumableOfAnyDate(x) == {l \in LotsOf(x) : lots[l].remaining > 0}

\* lockConsumableLots: a lot may be used on the day it expires.
Consumable(x) == {l \in LotsOf(x) : lots[l].remaining > 0 /\ ~Expired(l)}

\* Variant: lots are used in the order they came in.
CreatedBefore(k, l) == k < l

\* The order of lockConsumableLots: first expired, first out.
Before(k, l) ==
  \/ lots[k].expiresAt < lots[l].expiresAt
  \/ lots[k].expiresAt = lots[l].expiresAt /\ k < l

\* Variant: more than the lot holds may be taken from it.
TakenInFull(x, q) ==
  [l \in LotIds |-> IF l \in Consumable(x) THEN q ELSE 0]

\* consumeLots: what each lot gives of a quantity.  What the lots cannot give
\* is not dated stock, or not there at all.
Taken(x, q) ==
  [l \in LotIds |->
     IF l \in Consumable(x)
       THEN Min({ lots[l].remaining,
                  AtLeastZero(q - Remaining({k \in Consumable(x) : Before(k, l)})) })
       ELSE 0]

\* The lots once each item of "need" has given what it was asked for.
Consumed(need) ==
  [l \in DOMAIN lots |->
     [lots[l] EXCEPT !.remaining = @ - Taken(lots[l].item, need[lots[l].item])[l]]]

\* The lots with a new one, when the entry has a date (applyLotMovement).
Entered(ls, x, q, date) ==
  IF date = NoDate
    THEN ls
    ELSE Append(ls, [item |-> x, expiresAt |-> date, initial |-> q,
                     remaining |-> q])

HasRoom(x, q, date) ==
  /\ stock[x] + q <= MaxStock
  /\ date = NoDate \/ Len(lots) < MaxLots

\* Variant: expired lots are sold with the rest.
SellableWithExpired(x) == AtLeastZero(stock[x])

\* getSellableArticleStock, and getSellableMatiereStock for production.
Sellable(x) == AtLeastZero(stock[x] - ExpiredStock(x))

Only(x, q) == [y \in Items |-> IF y = x THEN q ELSE 0]

------------------------------------------------------------------------------
(* Orders *)

\* Variant: the quantity no lot gave is not recorded.
ReserveWithoutPreorder(o, a, q) ==
  /\ order[o].status = "absent"
  /\ stock' = [stock EXCEPT ![a] = @ - q]
  /\ lots' = Consumed(Only(a, q))
  /\ allocation' = [allocation EXCEPT ![o] = Taken(a, q)]
  /\ order' = [order EXCEPT ![o] = [status |-> "open", article |-> a,
                                    quantity |-> q, preordered |-> 0]]
  /\ UNCHANGED <<today, overdrawn>>

\* CommandeStockReservationService.reserve: the stock may go below zero, the
\* quantity no lot could give is preordered.
Reserve(o, a, q) ==
  LET taken == Taken(a, q) IN
  /\ order[o].status = "absent"
  /\ stock' = [stock EXCEPT ![a] = @ - q]
  /\ lots' = Consumed(Only(a, q))
  /\ allocation' = [allocation EXCEPT ![o] = taken]
  /\ order' =
       [order EXCEPT ![o] =
          [status |-> "open", article |-> a, quantity |-> q,
           preordered |->
             AtLeastZero(q - SumFunctionOnSet(taken, LotIds))]]
  /\ UNCHANGED <<today, overdrawn>>

\* Variant: allocations of a released order are given back again.
ReleaseAgain(o) ==
  /\ order[o].status \in {"open", "released"}
  /\ stock' = [stock EXCEPT ![order[o].article] = @ + order[o].quantity]
  /\ lots' = [l \in DOMAIN lots |->
                [lots[l] EXCEPT !.remaining = @ + allocation[o][l]]]
  /\ order' = [order EXCEPT ![o].status = "released"]
  /\ UNCHANGED <<allocation, today, overdrawn>>

\* restoreReservedStock: allocations go back to the lots they came from, even
\* when these have expired or have been written off since.
Release(o) ==
  /\ order[o].status = "open"
  /\ stock' = [stock EXCEPT ![order[o].article] = @ + order[o].quantity]
  /\ lots' = [l \in DOMAIN lots |->
                [lots[l] EXCEPT !.remaining = @ + allocation[o][l]]]
  /\ order' = [order EXCEPT ![o].status = "released"]
  /\ UNCHANGED <<allocation, today, overdrawn>>

\* The order is handed over (traitee): the stock was counted out before, and
\* what was preordered is taken from no lot.
Deliver(o) ==
  /\ order[o].status = "open"
  /\ order' = [order EXCEPT ![o].status = "delivered"]
  /\ UNCHANGED <<stock, lots, allocation, today, overdrawn>>

------------------------------------------------------------------------------
(* Movements of stock *)

\* VentesService.create.  It asks for the day twice, to see what is sellable and
\* to take it (and so does produce): midnight in between is left out.
Sell(a, q) ==
  /\ q <= Sellable(a)
  /\ stock' = [stock EXCEPT ![a] = @ - q]
  /\ lots' = Consumed(Only(a, q))
  /\ UNCHANGED <<order, allocation, today, overdrawn>>

\* ArticlesService.produce.
Produce(a, q, date) ==
  LET need == [x \in Items |-> IF x \in Matieres THEN Nomenclature[a][x] * q ELSE 0]
  IN
  /\ HasRoom(a, q, date)
  /\ \A m \in Matieres :
       /\ need[m] <= Sellable(m)
       /\ need[m] <= stock[m]
  /\ stock' = [x \in Items |-> IF x = a THEN stock[x] + q ELSE stock[x] - need[x]]
  /\ lots' = Entered(Consumed(need), a, q, date)
  /\ UNCHANGED <<order, allocation, today, overdrawn>>

\* createAjustement and createReceptionMatiere, for an entry.
Enter(x, q, date) ==
  /\ HasRoom(x, q, date)
  /\ stock[x] + q >= 0
  /\ stock' = [stock EXCEPT ![x] = @ + q]
  /\ lots' = Entered(lots, x, q, date)
  /\ UNCHANGED <<order, allocation, today, overdrawn>>

\* createAjustement, for a withdrawal: limited by the stock, not by what of
\* it is sellable, although it only takes from lots that have not expired.
Withdraw(x, q) ==
  /\ stock[x] - q >= 0
  /\ stock' = [stock EXCEPT ![x] = @ - q]
  /\ lots' = Consumed(Only(x, q))
  /\ overdrawn' = overdrawn \cup IF q > Sellable(x) THEN {x} ELSE {}
  /\ UNCHANGED <<order, allocation, today>>

\* markLotAsLoss.  The stock of an article may fall below zero, that of a raw
\* material may not (MatierePremiere_stock_non_negative).
MarkLotAsLoss(l) ==
  LET x == lots[l].item
      q == lots[l].remaining
  IN
  /\ Expired(l)
  /\ q > 0
  /\ x \in Matieres => stock[x] - q >= 0
  /\ stock' = [stock EXCEPT ![x] = @ - q]
  /\ lots' = [lots EXCEPT ![l].remaining = 0]
  /\ UNCHANGED <<order, allocation, today, overdrawn>>

NextDay ==
  /\ today < LastDay
  /\ today' = today + 1
  /\ UNCHANGED <<stock, lots, order, allocation, overdrawn>>

------------------------------------------------------------------------------
OrderStep(o) ==
  \/ \E a \in Articles, q \in Quantities : Reserve(o, a, q)
  \/ Release(o)
  \/ Deliver(o)

Movement(q) ==
  \/ \E a \in Articles : Sell(a, q)
  \/ \E a \in Articles, date \in Dates \cup {NoDate} : Produce(a, q, date)
  \/ \E x \in Items, date \in Dates \cup {NoDate} : Enter(x, q, date)
  \/ \E x \in Items : Withdraw(x, q)

Next ==
  \/ \E o \in Orders : OrderStep(o)
  \/ \E q \in Quantities : Movement(q)
  \/ \E l \in DOMAIN lots : MarkLotAsLoss(l)
  \/ NextDay

Spec == Init /\ [][Next]_vars

------------------------------------------------------------------------------
(* What an order still has from a lot, and from the stock beyond the lots. *)
Held(l) ==
  SumFunctionOnSet([o \in Orders |-> allocation[o][l]],
                   {o \in Orders : order[o].status \in {"open", "delivered"}})
PreorderedAs(a, statuses) ==
  SumFunctionOnSet([o \in Orders |-> order[o].preordered],
                   {o \in Orders : order[o].article = a /\ order[o].status \in statuses})

(* The stock no lot stands for, as if no order had drawn on it. *)
Undated(x) ==
  stock[x] - Remaining(LotsOf(x)) + PreorderedAs(x, {"open", "delivered"})

(***************************************************************************)
(* A lot never has to hold more than it was created with: with what its    *)
(* orders have from it, it stays within its initial quantity.  So the      *)
(* release of an order always fits (StockLot_remaining_lte_initial), after *)
(* any losses, sales and other releases (restoreLineStockAllocations).     *)
(***************************************************************************)
LotsNeverOverdrawn ==
  \A l \in DOMAIN lots : lots[l].remaining + Held(l) <= lots[l].initial

(***************************************************************************)
(* The books agree: the figure of an item covers its lots, less what       *)
(* orders have beyond them.  Only a withdrawal that goes into expired lots *)
(* (overdrawn) breaks this.  It is why a loss can be recorded: the stock   *)
(* of a raw material covers each of its expired lots.                      *)
(***************************************************************************)
LedgerCoversLots == \A x \in Items \ overdrawn : Undated(x) >= 0

(***************************************************************************)
(* First expired, first out: no lot gives anything while an earlier one    *)
(* that has not expired has something left (consumeLots).                  *)
(***************************************************************************)
FirstExpiredFirstOut ==
  [][\A k, l \in DOMAIN lots :
       /\ lots[k].item = lots[l].item
       /\ ~Expired(k)
       /\ lots[k].expiresAt < lots[l].expiresAt
       /\ lots'[l].remaining < lots[l].remaining
       => lots'[k].remaining = 0]_vars

(***************************************************************************)
(* An expired lot is neither sold nor used: its contents only ever leave   *)
(* the books as a whole, with the stock, as a loss.                        *)
(***************************************************************************)
ExpiredOnlyLeavesAsLoss ==
  [][\A l \in DOMAIN lots :
       Expired(l) /\ lots'[l].remaining < lots[l].remaining =>
         /\ lots'[l].remaining = 0
         /\ stock'[lots[l].item] = stock[lots[l].item] - lots[l].remaining]_vars

(***************************************************************************)
(* Orders only move stock between books: whatever happened to the stock    *)
(* between the reservation and the release, neither changes what there is  *)
(* of an item beyond its lots, nor what a lot and its orders have together.*)
(***************************************************************************)
OrdersAreNeutral ==
  [][order' # order =>
       /\ \A x \in Items : Undated(x)' = Undated(x)
       /\ \A l \in DOMAIN lots :
            (lots[l].remaining + Held(l))' = lots[l].remaining + Held(l)]_vars

------------------------------------------------------------------------------
(***************************************************************************)
(* README.md: a negative Article.stock is the preorder deficit, what is    *)
(* left to produce for orders.  So when the stock of an article falls      *)
(* below zero, open orders explain by how much.                            *)
(***************************************************************************)
NegativeStockIsPreorderDeficit ==
  [][\A a \in Articles \ overdrawn :
       stock[a] >= 0 /\ stock'[a] < 0
         => -(stock'[a]) <= PreorderedAs(a, {"open"})']_vars
==============================================================================
