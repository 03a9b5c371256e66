--------------------------- MODULE ProductionNeeds ---------------------------
(***************************************************************************)
(* How much of one article has to be produced for which order: the         *)
(* allocation of the stock to the open orders in the API                   *)
(* (commande-production-needs.service.ts), what the back office makes of   *)
(* it (lib/production-needs.ts), and the allocation it computes itself     *)
(* when the API sent none.  Articles do not influence each other.          *)
(*                                                                         *)
(* An order has at most one line per article (aggregateLines), and its id  *)
(* follows the order of creation.  The reads of a report, which are not    *)
(* one transaction, are taken at one moment here.                          *)
(***************************************************************************)
EXTENDS Integers, Sequences, FiniteSetsExt, OrderStatus

CONSTANTS
  MaxOrder,     \* orders are 1..MaxOrder
  DueDays,      \* pickup days
  NoDue,        \* no pickup date, allowed by the schema
  MaxLine,      \* bound on the quantity of a line
  StockBound    \* bound on what is produced or entered

ASSUME NeedsAssumption ==
  /\ MaxOrder \in Nat
  /\ DueDays \subseteq Int
  /\ NoDue \notin DueDays
  /\ MaxLine \in Nat
  /\ StockBound \in Nat

VARIABLES
  stockLeft,   \* Article.stock, negative when orders exceed what there is
  commandes    \* the orders

needsVars == <<stockLeft, commandes>>

OrderIds == 1..MaxOrder
NoOrderYet == [statut |-> "absent", due |-> NoDue, quantite |-> 0]

ProductionAllocationStatuses ==
  {"paiement_en_attente", "paiement_a_verifier", "nouvelle", "preparee"}
VisibleProductionStatuses == {"paiement_a_verifier", "nouvelle", "preparee"}

OpenIn(os) == {i \in OrderIds : os[i].statut \in ProductionAllocationStatuses}
VisibleIn(os) == {i \in OrderIds : os[i].statut \in VisibleProductionStatuses}

SumFor(S, f) == SumFunctionOnSet(f, S)

Floor0(n) == IF n < 0 THEN 0 ELSE n
Least(m, n) == IF m < n THEN m ELSE n

-----------------------------------------------------------------------------
(* The allocation of the API.                                              *)

\* Order i is served before order j: by date, without a date last, by creation.
ServedBefore(os, i, j) ==
  IF os[i].due = os[j].due THEN i < j
  ELSE os[i].due # NoDue /\ (os[j].due = NoDue \/ os[i].due < os[j].due)

\* The ids of S in the order they are served.
Ordered(Before(_, _, _), S, os) ==
  [k \in 1..Cardinality(S) |->
     CHOOSE i \in S : Cardinality({j \in S : Before(os, j, i)}) = k - 1]

QuantitiesOf(os) == [i \in OrderIds |-> os[i].quantite]

\* Line after line takes what it can of what remains: what each line lacks.
Lacking(lines, available, os) ==
  LET remaining[k \in 0..Len(lines)] ==
        IF k = 0 THEN available
        ELSE Floor0(remaining[k-1] - os[lines[k]].quantite)
      lack(k) == Floor0(os[lines[k]].quantite
                          - Least(Floor0(remaining[k-1]), os[lines[k]].quantite))
  IN  [i \in OrderIds |->
        IF \E k \in DOMAIN lines : lines[k] = i
        THEN lack(CHOOSE k \in DOMAIN lines : lines[k] = i) ELSE 0]

\* Variant: the stock is taken for what the open orders have left.
AllocateWithoutReserved(articleStock, os) ==
  LET lacking == Lacking(Ordered(ServedBefore, OpenIn(os), os), articleStock, os)
  IN  [i \in OrderIds |-> IF i \in VisibleIn(os) THEN lacking[i] ELSE 0]

\* An order has taken its quantity from the stock already, so the open orders
\* share the stock and all they ordered; what a hidden one lacks is not recorded.
AllocateProductionQuantities(articleStock, os) ==
  LET lacking == Lacking(Ordered(ServedBefore, OpenIn(os), os),
                         articleStock + SumFor(OpenIn(os), QuantitiesOf(os)), os)
  IN  [i \in OrderIds |-> IF i \in VisibleIn(os) THEN lacking[i] ELSE 0]

-----------------------------------------------------------------------------
(* The back office.                                                        *)

\* getExplicitProductionNeeds: what the visible orders lack, by pickup day.
ExplicitNeeds(os, quantities) ==
  [d \in DueDays \cup {NoDue} |->
     SumFor({i \in VisibleIn(os) : os[i].due = d}, quantities)]

\* The page's own order: day keys, "unknown" last.
DueKeyBefore(os, i, j) ==
  \/ os[i].due = os[j].due /\ i < j
  \/ os[i].due # os[j].due /\ os[j].due = NoDue
  \/ os[i].due # os[j].due /\ NoDue \notin {os[i].due, os[j].due}
       /\ os[i].due < os[j].due

\* getProductionNeeds on orders without quantities: the page allocates the
\* stock it was sent to the orders it was sent.
FallbackNeeds(articleStock, os) ==
  ExplicitNeeds(os, Lacking(Ordered(DueKeyBefore, OpenIn(os), os),
                            articleStock + SumFor(OpenIn(os), QuantitiesOf(os)), os))

-----------------------------------------------------------------------------
(* The orders and the stock.                                               *)

NeedsInit ==
  /\ stockLeft = 0
  /\ commandes = [i \in OrderIds |-> NoOrderYet]

\* A checkout: the order takes its quantity from the stock, below zero if it must.
PlaceOrder(i) ==
  /\ commandes[i].statut = "absent"
  /\ \A j \in 1..(i - 1) : commandes[j].statut # "absent"
  /\ \E q \in 1..MaxLine, d \in DueDays \cup {NoDue} :
       /\ commandes' = [commandes EXCEPT ![i] =
                       [statut |-> "paiement_en_attente", due |-> d, quantite |-> q]]
       /\ stockLeft' = stockLeft - q

\* A change of status; a cancellation gives the quantity back.
ChangeStatus(i, s) ==
  /\ CanTransition(commandes[i].statut, s)
  /\ commandes' = [commandes EXCEPT ![i].statut = s]
  /\ stockLeft' = IF s = "annulee" THEN stockLeft + commandes[i].quantite ELSE stockLeft

\* Production, an entry, a sale, a loss: the stock moves by itself.
StockMoves ==
  /\ \/ stockLeft < StockBound /\ stockLeft' = stockLeft + 1
     \/ stockLeft > 0 /\ stockLeft' = stockLeft - 1
  /\ UNCHANGED commandes

\* findAll: the orders the back office is sent.
Listed(os) == [i \in OrderIds |-> IF os[i].statut \in {"absent", "paiement_en_attente"}
                             THEN NoOrderYet ELSE os[i]]

NeedsNext ==
  \/ \E i \in OrderIds : PlaceOrder(i) \/ \E s \in OrderStatuses : ChangeStatus(i, s)
  \/ StockMoves

NeedsSpec == NeedsInit /\ [][NeedsNext]_needsVars

-----------------------------------------------------------------------------
(* Properties.                                                             *)

\* What an order lacks, whatever the way it is computed: the open orders up to
\* it, less all the stock there would be without them, and no more than it orders.
Shortfall(articleStock, os, i) ==
  LET upTo == {j \in OpenIn(os) : i = j \/ ServedBefore(os, j, i)}
  IN  Least(os[i].quantite,
            Floor0(SumFor(upTo, QuantitiesOf(os))
                     - articleStock - SumFor(OpenIn(os), QuantitiesOf(os))))

\* The back office shows, for each day, the shortfall of the visible orders of
\* that day, orders that still wait for their payment being served in their
\* turn; the page's own allocation, which is not sent those, never shows less,
\* and the same when there are none.
NeedsAreTheShortfall ==
  LET shown == ExplicitNeeds(Listed(commandes), AllocateProductionQuantities(stockLeft, commandes))
      fallback == FallbackNeeds(stockLeft, Listed(commandes))
  IN  \A d \in DueDays \cup {NoDue} :
        /\ shown[d] = SumFor({i \in VisibleIn(commandes) : commandes[i].due = d},
                           [i \in OrderIds |-> Shortfall(stockLeft, commandes, i)])
        /\ shown[d] <= fallback[d]
        /\ OpenIn(commandes) = VisibleIn(commandes) => shown[d] = fallback[d]
=============================================================================
