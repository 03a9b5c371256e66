-------------------------- MODULE StockLedgerProofs --------------------------
(***************************************************************************)
(* The books of StockLedger, for any articles, recipes, orders and         *)
(* quantities, and any number of lots and days.                            *)
(***************************************************************************)
EXTENDS StockLedger, SumLemmas

\* What an order drew on is a lot of its article.
AllocationIsOfLots ==
  \A o \in Orders, l \in LotIds : allocation[o][l] # 0 =>
    l \in DOMAIN lots /\ lots[l].item = order[o].article

\* The line of an order is what the lots gave it and what was preordered.
LinesAddUp ==
  \A o \in Orders : order[o].status # "absent" =>
    /\ order[o].article \in Articles
    /\ order[o].quantity = order[o].preordered + SumFunctionOnSet(allocation[o], LotIds)

\* The lots that there are have room.
Typed == LedgerTypeOK /\ Len(lots) <= MaxLots

LInv ==
  /\ Typed
  /\ AllocationIsOfLots
  /\ LinesAddUp
  /\ LotsNeverOverdrawn
  /\ LedgerCoversLots

-----------------------------------------------------------------------------
(* The sums of the model, over all lots or all orders.                     *)

LEMMA BoundsAreNat ==
  MaxQuantity \in Nat /\ MaxStock \in Nat /\ MaxLots \in Nat /\ LastDay \in Nat
BY LedgerAssumption

LEMMA OrdersFinite == IsFiniteSet(Orders)
BY LedgerAssumption

LEMMA LotIdsFinite == IsFiniteSet(LotIds)
BY BoundsAreNat, FS_Interval DEF LotIds

LEMMA AtLeastZeroIs ==
  ASSUME NEW n \in Int
  PROVE  AtLeastZero(n) = IF n < 0 THEN 0 ELSE n
<1> DEFINE m == IF n < 0 THEN 0 ELSE n
<1>1. m \in {0, n} /\ \A y \in {0, n} : m >= y
  OBVIOUS
<1>2. \A x \in {0, n} : (\A y \in {0, n} : x >= y) => x = m
  OBVIOUS
<1> HIDE DEF m
<1>3. (CHOOSE x \in {0, n} : \A y \in {0, n} : x >= y) = m
  BY <1>1, <1>2
<1> QED BY <1>3 DEF AtLeastZero, Max, m

LEMMA MinIs ==
  ASSUME NEW m \in Int, NEW n \in Int
  PROVE  Min({m, n}) = IF m <= n THEN m ELSE n
<1> DEFINE k == IF m <= n THEN m ELSE n
<1>1. k \in {m, n} /\ \A y \in {m, n} : k <= y
  OBVIOUS
<1>2. \A x \in {m, n} : (\A y \in {m, n} : x <= y) => x = k
  OBVIOUS
<1> HIDE DEF k
<1>3. (CHOOSE x \in {m, n} : \A y \in {m, n} : x <= y) = k
  BY <1>1, <1>2
<1> QED BY <1>3 DEF Min, k

\* What the lots of an item hold, as a function of the lots.
ContentOf(ls, x) ==
  [l \in LotIds |-> IF l \in DOMAIN ls /\ ls[l].item = x THEN ls[l].remaining ELSE 0]

IsBook(ls) == ls \in Seq(Lot) /\ Len(ls) <= MaxLots

LEMMA BookFacts ==
  ASSUME NEW ls, IsBook(ls)
  PROVE  /\ DOMAIN ls = 1..Len(ls) /\ Len(ls) \in Nat /\ DOMAIN ls \subseteq LotIds
         /\ \A l \in DOMAIN ls : ls[l] \in Lot
         /\ \A l \in DOMAIN ls : /\ ls[l].item \in Items /\ ls[l].expiresAt \in Int
                                 /\ ls[l].initial \in Nat /\ ls[l].remaining \in Nat
<1>1. /\ DOMAIN ls = 1..Len(ls) /\ Len(ls) \in Nat
      /\ \A l \in DOMAIN ls : ls[l] \in Lot
  BY DEF IsBook
<1>2. DOMAIN ls \subseteq LotIds
  BY <1>1, BoundsAreNat DEF IsBook, LotIds
<1>3. \A l \in DOMAIN ls : /\ ls[l].item \in Items /\ ls[l].expiresAt \in Int
                           /\ ls[l].initial \in Nat /\ ls[l].remaining \in Nat
  BY <1>1, BoundsAreNat DEF Lot, Dates
<1> QED BY <1>1, <1>2, <1>3

LEMMA ContentType ==
  ASSUME NEW ls, IsBook(ls), NEW x
  PROVE  /\ \A l \in LotIds : ContentOf(ls, x)[l] \in Nat
         /\ SumFunctionOnSet(ContentOf(ls, x), LotIds) \in Nat
<1>1. \A l \in LotIds : ContentOf(ls, x)[l] \in Nat
  BY BookFacts DEF ContentOf
<1> QED BY <1>1, LotIdsFinite, SumNat

LEMMA RemainingIs ==
  ASSUME NEW ls, IsBook(ls), NEW x
  PROVE  SumFunctionOnSet([l \in DOMAIN ls |-> ls[l].remaining],
                          {l \in DOMAIN ls : ls[l].item = x})
           = SumFunctionOnSet(ContentOf(ls, x), LotIds)
<1> DEFINE T == {l \in DOMAIN ls : ls[l].item = x}
           f == [l \in DOMAIN ls |-> ls[l].remaining]
           h == [l \in LotIds |-> IF l \in DOMAIN ls THEN ls[l].remaining ELSE 0]
<1>1. T \in SUBSET LotIds /\ T \subseteq DOMAIN ls /\ IsFiniteSet(T)
  BY BookFacts, LotIdsFinite, FS_Subset
<1>2. \A l \in T : f[l] = h[l]
  BY <1>1
<1>3. \A l \in LotIds : h[l] \in Int
  BY BookFacts
<1>4. \A l \in LotIds : ContentOf(ls, x)[l] = IF l \in T THEN h[l] ELSE 0
  BY DEF ContentOf
<1> HIDE DEF T, f, h
<1>5. SumFunctionOnSet(f, T) = SumFunctionOnSet(h, T)
  BY <1>1, <1>2, SumEqual
<1>6. SumFunctionOnSet(h, T) = SumFunctionOnSet(ContentOf(ls, x), LotIds)
  BY <1>1, <1>3, <1>4, LotIdsFinite, SumOfPart
<1> QED BY <1>5, <1>6 DEF f, T

\* The orders that hold something.
Holds(ord, o) == ord[o].status \in {"open", "delivered"}

HeldFrom(ord, alloc, l) ==
  [o \in Orders |-> IF Holds(ord, o) THEN alloc[o][l] ELSE 0]
PreorderOf(ord, x) ==
  [o \in Orders |-> IF ord[o].article = x /\ Holds(ord, o) THEN ord[o].preordered ELSE 0]

LEMMA HeldIs ==
  ASSUME NEW ord, NEW alloc \in [Orders -> [LotIds -> Nat]], NEW l \in LotIds
  PROVE  SumFunctionOnSet([o \in Orders |-> alloc[o][l]],
                          {o \in Orders : ord[o].status \in {"open", "delivered"}})
           = SumFunctionOnSet(HeldFrom(ord, alloc, l), Orders)
<1> DEFINE T == {o \in Orders : ord[o].status \in {"open", "delivered"}}
           f == [o \in Orders |-> alloc[o][l]]
<1>1. \A o \in Orders : f[o] \in Int
  OBVIOUS
<1>2. \A o \in Orders : HeldFrom(ord, alloc, l)[o] = IF o \in T THEN f[o] ELSE 0
  BY DEF HeldFrom, Holds
<1>3. T \in SUBSET Orders /\ IsFiniteSet(Orders)
  BY LedgerAssumption
<1> HIDE DEF T, f
<1>4. SumFunctionOnSet(f, T) = SumFunctionOnSet(HeldFrom(ord, alloc, l), Orders)
  BY <1>1, <1>2, <1>3, SumOfPart
<1> QED BY <1>4 DEF f, T

LEMMA PreorderIs ==
  ASSUME NEW ord \in [Orders -> Line], NEW x
  PROVE  SumFunctionOnSet([o \in Orders |-> ord[o].preordered],
                          {o \in Orders : /\ ord[o].article = x
                                          /\ ord[o].status \in {"open", "delivered"}})
           = SumFunctionOnSet(PreorderOf(ord, x), Orders)
<1> DEFINE T == {o \in Orders : /\ ord[o].article = x
                                /\ ord[o].status \in {"open", "delivered"}}
           f == [o \in Orders |-> ord[o].preordered]
<1>1. \A o \in Orders : f[o] \in Int
  BY DEF Line
<1>2. \A o \in Orders : PreorderOf(ord, x)[o] = IF o \in T THEN f[o] ELSE 0
  BY DEF PreorderOf, Holds
<1>3. T \in SUBSET Orders /\ IsFiniteSet(Orders)
  BY LedgerAssumption
<1> HIDE DEF T, f
<1>4. SumFunctionOnSet(f, T) = SumFunctionOnSet(PreorderOf(ord, x), Orders)
  BY <1>1, <1>2, <1>3, SumOfPart
<1> QED BY <1>4 DEF f, T

\* The books of an item and of a lot, written over all lots and all orders.
Book(st, ls, ord, x) ==
  st[x] - SumFunctionOnSet(ContentOf(ls, x), LotIds)
    + SumFunctionOnSet(PreorderOf(ord, x), Orders)

LEMMA UndatedIs ==
  ASSUME IsBook(lots), order \in [Orders -> Line], NEW x
  PROVE  Undated(x) = Book(stock, lots, order, x)
BY RemainingIs, PreorderIs DEF Undated, Remaining, LotsOf, PreorderedAs, Book

LEMMA UndatedNextIs ==
  ASSUME IsBook(lots'), order' \in [Orders -> Line], NEW CONSTANT x
  PROVE  Undated(x)' = Book(stock', lots', order', x)
BY RemainingIs, PreorderIs DEF Undated, Remaining, LotsOf, PreorderedAs, Book

LEMMA HeldNowIs ==
  ASSUME allocation \in [Orders -> [LotIds -> Nat]], NEW l \in LotIds
  PROVE  Held(l) = SumFunctionOnSet(HeldFrom(order, allocation, l), Orders)
BY HeldIs DEF Held

LEMMA HeldNextIs ==
  ASSUME allocation' \in [Orders -> [LotIds -> Nat]], NEW CONSTANT l \in LotIds
  PROVE  Held(l)' = SumFunctionOnSet(HeldFrom(order', allocation', l), Orders)
BY HeldIs DEF Held

-----------------------------------------------------------------------------
(* What is taken from the lots.                                            *)

LEMMA RemainingNat ==
  ASSUME IsBook(lots), NEW S \in SUBSET DOMAIN lots
  PROVE  /\ IsFiniteSet(S) /\ Remaining(S) \in Nat
         /\ \A T \in SUBSET S : Remaining(T) <= Remaining(S)
         /\ \A l \in S : Remaining(S) = lots[l].remaining + Remaining(S \ {l})
<1> DEFINE f == [l \in DOMAIN lots |-> lots[l].remaining]
<1>1. IsFiniteSet(S)
  BY BookFacts, LotIdsFinite, FS_Subset
<1>2. \A l \in S : f[l] \in Nat /\ f[l] \in Int /\ f[l] = lots[l].remaining
  BY BookFacts
<1> HIDE DEF f
<1>3. SumFunctionOnSet(f, S) \in Nat
  BY <1>1, <1>2, SumNat
<1>4. \A T \in SUBSET S : SumFunctionOnSet(f, T) <= SumFunctionOnSet(f, S)
  BY <1>1, <1>2, SumSubset
<1>5. \A l \in S : SumFunctionOnSet(f, S) = lots[l].remaining + SumFunctionOnSet(f, S \ {l})
  BY <1>1, <1>2, SumRemove
<1> QED BY <1>1, <1>3, <1>4, <1>5 DEF f, Remaining

\* The lots an operation uses before another.
Earlier(x, l) == {k \in Consumable(x) : Before(k, l)}

LEMMA ConsumableFacts ==
  ASSUME IsBook(lots), NEW x
  PROVE  /\ Consumable(x) \in SUBSET DOMAIN lots
         /\ \A l \in Consumable(x) : lots[l].item = x /\ ~Expired(l)
         /\ \A l : Earlier(x, l) \in SUBSET DOMAIN lots /\ Remaining(Earlier(x, l)) \in Nat
<1>1. /\ Consumable(x) \in SUBSET DOMAIN lots
      /\ \A l \in Consumable(x) : lots[l].item = x /\ ~Expired(l)
  BY DEF Consumable, LotsOf
<1>2. \A l : Earlier(x, l) \in SUBSET DOMAIN lots
  BY <1>1 DEF Earlier
<1>3. \A l : Remaining(Earlier(x, l)) \in Nat
  BY <1>2, RemainingNat
<1> QED BY <1>1, <1>2, <1>3

LEMMA TakenIs ==
  ASSUME IsBook(lots), NEW x, NEW q \in Nat, NEW l \in Consumable(x)
  PROVE  Taken(x, q)[l] = IF q <= Remaining(Earlier(x, l)) THEN 0
                          ELSE IF lots[l].remaining <= q - Remaining(Earlier(x, l))
                               THEN lots[l].remaining ELSE q - Remaining(Earlier(x, l))
<1> DEFINE R == Remaining(Earlier(x, l))
           r == lots[l].remaining
<1>1. R \in Nat
  BY ConsumableFacts
<1>2. r \in Nat /\ l \in LotIds
  BY ConsumableFacts, BookFacts
<1>3. Taken(x, q)[l] = Min({r, AtLeastZero(q - R)})
  BY <1>2 DEF Taken, Earlier
<1> HIDE DEF R, r
<1>4. q - R \in Int
  BY <1>1
<1>5. AtLeastZero(q - R) = IF q - R < 0 THEN 0 ELSE q - R
  BY <1>4, AtLeastZeroIs
<1> DEFINE n == AtLeastZero(q - R)
<1>6. n \in Int
  BY <1>1, <1>5
<1> HIDE DEF n
<1>7. Min({r, n}) = IF r <= n THEN r ELSE n
  BY <1>2, <1>6, MinIs
<1>8. Taken(x, q)[l] = IF q <= R THEN 0 ELSE IF r <= q - R THEN r ELSE q - R
  BY <1>1, <1>2, <1>3, <1>5, <1>7 DEF n
<1> QED BY <1>8 DEF R, r

LEMMA TakenType ==
  ASSUME IsBook(lots), NEW x, NEW q \in Nat
  PROVE  /\ Taken(x, q) \in [LotIds -> Nat]
         /\ \A l \in LotIds : l \notin Consumable(x) => Taken(x, q)[l] = 0
         /\ \A l \in DOMAIN lots : Taken(x, q)[l] <= lots[l].remaining
         /\ q = 0 => \A l \in LotIds : Taken(x, q)[l] = 0
<1>1. \A l \in LotIds : l \notin Consumable(x) => Taken(x, q)[l] = 0
  BY DEF Taken
<1>2. ASSUME NEW l \in Consumable(x)
      PROVE  /\ Taken(x, q)[l] \in Nat /\ Taken(x, q)[l] <= lots[l].remaining
             /\ q = 0 => Taken(x, q)[l] = 0
  <2> DEFINE R == Remaining(Earlier(x, l))
             r == lots[l].remaining
  <2>1. R \in Nat /\ r \in Nat
    BY ConsumableFacts, BookFacts
  <2>2. Taken(x, q)[l] = IF q <= R THEN 0 ELSE IF r <= q - R THEN r ELSE q - R
    BY TakenIs
  <2> HIDE DEF R, r
  <2>3. /\ Taken(x, q)[l] \in Nat /\ Taken(x, q)[l] <= r
        /\ q = 0 => Taken(x, q)[l] = 0
    BY <2>1, <2>2
  <2> QED BY <2>3 DEF r
<1>3. DOMAIN lots \subseteq LotIds /\ \A l \in DOMAIN lots : lots[l].remaining \in Nat
  BY BookFacts
<1>4. \A l \in LotIds : Taken(x, q)[l] \in Nat
  BY <1>1, <1>2
<1>5. Taken(x, q) = [l \in LotIds |-> Taken(x, q)[l]]
  BY DEF Taken
<1>6. Taken(x, q) \in [LotIds -> Nat]
  BY <1>4, <1>5
<1>7. \A l \in DOMAIN lots : Taken(x, q)[l] <= lots[l].remaining
  BY <1>1, <1>2, <1>3
<1> QED BY <1>1, <1>2, <1>6, <1>7

\* Of some lots one is used last.
LEMMA LastLot ==
  ASSUME IsBook(lots), NEW D \in SUBSET DOMAIN lots, D # {}
  PROVE  \E l \in D : \A k \in D : k # l => Before(k, l)
<1> DEFINE C == {T \in SUBSET D : T # {} /\ ~ \E l \in T : \A k \in T : k # l => Before(k, l)}
<1> SUFFICES ASSUME C # {} PROVE FALSE
  <2>1. D \in SUBSET D
    OBVIOUS
  <2> QED BY <2>1, Zenon
<1>0. IsFiniteSet(D)
  BY RemainingNat
<1>1. PICK T \in C : \A U \in SUBSET T : U # T => U \notin C
  <2>1. C \in SUBSET SUBSET D
    OBVIOUS
  <2> HIDE DEF C
  <2> QED BY <1>0, <2>1, SmallestSubset, Zenon
<1>2. T \in SUBSET D /\ T # {} /\ ~ \E l \in T : \A k \in T : k # l => Before(k, l)
  OBVIOUS
<1>3. PICK e \in T : TRUE
  BY <1>2
<1>4. T \ {e} # {}
  BY <1>2
<1>5. PICK m \in T \ {e} : \A k \in T \ {e} : k # m => Before(k, m)
  BY <1>1, <1>2, <1>3, <1>4
<1>6. \A i, j \in T : i \in Int /\ lots[i].expiresAt \in Int
  BY <1>2, BookFacts
<1>7. CASE Before(m, e)
  <2>1. \A k \in T : k # e => Before(k, e)
    BY <1>3, <1>5, <1>6, <1>7 DEF Before
  <2> QED BY <1>2, <2>1
<1>8. CASE ~Before(m, e)
  <2>1. Before(e, m)
    BY <1>3, <1>5, <1>6, <1>8 DEF Before
  <2>2. \A k \in T : k # m => Before(k, m)
    BY <1>5, <2>1
  <2> QED BY <1>2, <1>5, <2>2
<1> QED BY <1>7, <1>8

\* The first lots of an item give what they hold, or all that is asked for.
LEMMA FirstLotsGive ==
  ASSUME IsBook(lots), NEW x, NEW q \in Nat, NEW D \in SUBSET Consumable(x),
         \A k \in Consumable(x), l \in D : Before(k, l) => k \in D
  PROVE  SumFunctionOnSet(Taken(x, q), D) = IF q <= Remaining(D) THEN q ELSE Remaining(D)
<1> DEFINE Closed(T) == \A k \in Consumable(x), l \in T : Before(k, l) => k \in T
           Gives(T) == SumFunctionOnSet(Taken(x, q), T)
                         = IF q <= Remaining(T) THEN q ELSE Remaining(T)
           C == {T \in SUBSET D : Closed(T) /\ ~Gives(T)}
<1>0. Consumable(x) \in SUBSET DOMAIN lots /\ DOMAIN lots \subseteq LotIds
  BY ConsumableFacts, BookFacts
<1> SUFFICES ASSUME C # {} PROVE FALSE
  <2>1. D \in SUBSET D /\ Closed(D)
    OBVIOUS
  <2> QED BY <2>1, Zenon
<1>1. PICK T \in C : \A U \in SUBSET T : U # T => U \notin C
  <2>1. C \in SUBSET SUBSET D
    OBVIOUS
  <2>2. IsFiniteSet(D)
    BY <1>0, RemainingNat
  <2> HIDE DEF C
  <2> QED BY <2>1, <2>2, SmallestSubset, Zenon
<1>2. T \in SUBSET D /\ Closed(T) /\ ~Gives(T)
  OBVIOUS
<1>3. T \in SUBSET DOMAIN lots /\ T \in SUBSET Consumable(x)
  BY <1>0, <1>2
<1>4. T # {}
  <2>1. ASSUME T = {} PROVE Gives(T)
    <3>1. Remaining({}) = 0 /\ SumFunctionOnSet(Taken(x, q), {}) = 0
      BY SumEmpty DEF Remaining
    <3> QED BY <2>1, <3>1
  <2> HIDE DEF Gives
  <2> QED BY <1>2, <2>1
<1>5. PICK e \in T : \A k \in T : k # e => Before(k, e)
  BY <1>3, <1>4, LastLot
<1> DEFINE U == T \ {e}
<1>6. U = Earlier(x, e)
  <2>1. ~Before(e, e)
    BY <1>3, <1>5, BookFacts DEF Before
  <2> QED BY <1>2, <1>3, <1>5, <2>1 DEF Earlier
<1>7. \A k \in Consumable(x), l \in U : Before(k, l) => k # e
  <2>1. \A i, j \in T : i \in Int /\ lots[i].expiresAt \in Int
    BY <1>3, BookFacts
  <2>2. \A l \in U : Before(l, e)
    BY <1>5
  <2> QED BY <1>5, <2>1, <2>2 DEF Before
<1>8. U \in SUBSET D /\ Closed(U) /\ U \in SUBSET T /\ U # T
  BY <1>2, <1>5, <1>7
<1>9. Gives(U)
  BY <1>1, <1>8
<1> DEFINE R == Remaining(U)
           r == lots[e].remaining
           t == Taken(x, q)[e]
<1>10. R \in Nat /\ r \in Nat /\ IsFiniteSet(T)
  BY <1>3, <1>8, RemainingNat, BookFacts
<1>11. t = IF q <= R THEN 0 ELSE IF r <= q - R THEN r ELSE q - R
  BY <1>3, <1>6, TakenIs
<1>12. Remaining(T) = r + R
  BY <1>3, RemainingNat
<1>13. SumFunctionOnSet(Taken(x, q), T) = t + SumFunctionOnSet(Taken(x, q), U)
  <2>1. \A l \in T : Taken(x, q)[l] \in Int
    BY <1>0, <1>3, TakenType
  <2> QED BY <1>10, <2>1, SumRemove
<1>14. SumFunctionOnSet(Taken(x, q), U) = IF q <= R THEN q ELSE R
  BY <1>9
<1> DEFINE s == SumFunctionOnSet(Taken(x, q), U)
<1> HIDE DEF R, r, t, U
<1>15. SumFunctionOnSet(Taken(x, q), T) = IF q <= r + R THEN q ELSE r + R
  BY <1>10, <1>11, <1>13, <1>14
<1> QED BY <1>2, <1>12, <1>15

LEMMA TakenSum ==
  ASSUME IsBook(lots), NEW x, NEW q \in Nat
  PROVE  SumFunctionOnSet(Taken(x, q), LotIds)
           = IF q <= Remaining(Consumable(x)) THEN q ELSE Remaining(Consumable(x))
<1> DEFINE C == Consumable(x)
           t == Taken(x, q)
<1>1. SumFunctionOnSet(t, C) = IF q <= Remaining(C) THEN q ELSE Remaining(C)
  BY FirstLotsGive
<1>2. C \in SUBSET LotIds
  BY ConsumableFacts, BookFacts
<1>3. /\ \A l \in LotIds : t[l] \in Int
      /\ \A l \in LotIds : t[l] = IF l \in C THEN t[l] ELSE 0
  BY TakenType
<1> HIDE DEF C, t
<1>4. SumFunctionOnSet(t, C) = SumFunctionOnSet(t, LotIds)
  BY <1>2, <1>3, LotIdsFinite, SumOfPart
<1> QED BY <1>1, <1>4 DEF C, t

\* The lots of an item have expired, can be used or are empty.
LEMMA ContentSplit ==
  ASSUME IsBook(lots), NEW x
  PROVE  /\ ExpiredStock(x) \in Nat /\ Remaining(Consumable(x)) \in Nat
         /\ SumFunctionOnSet(ContentOf(lots, x), LotIds)
              = Remaining(Consumable(x)) + ExpiredStock(x)
<1> DEFINE f == [l \in DOMAIN lots |-> lots[l].remaining]
           C == Consumable(x)
           E == {l \in LotsOf(x) : Expired(l)}
           Z == {l \in LotsOf(x) : ~Expired(l) /\ lots[l].remaining = 0}
<1>1. C \in SUBSET DOMAIN lots /\ E \in SUBSET DOMAIN lots /\ Z \in SUBSET DOMAIN lots
  BY DEF Consumable, LotsOf
<1>2. (C \cup E) \cup Z = {l \in DOMAIN lots : lots[l].item = x}
  BY BookFacts DEF Consumable, LotsOf
<1>3. C \cap E = {} /\ (C \cup E) \cap Z = {}
  BY DEF Consumable
<1>4. IsFiniteSet(C) /\ IsFiniteSet(E) /\ IsFiniteSet(Z) /\ IsFiniteSet(C \cup E)
  BY <1>1, RemainingNat, FS_Union
<1>5. \A l \in DOMAIN lots : f[l] \in Nat /\ f[l] \in Int
  BY BookFacts
<1>6. \A l \in Z : f[l] = 0
  BY <1>1
<1>7. ExpiredStock(x) = SumFunctionOnSet(f, E) /\ Remaining(C) = SumFunctionOnSet(f, C)
  BY DEF ExpiredStock, Remaining
<1>8. SumFunctionOnSet(f, {l \in DOMAIN lots : lots[l].item = x})
        = SumFunctionOnSet(ContentOf(lots, x), LotIds)
  BY RemainingIs
<1> HIDE DEF C, E, Z, f
<1>9. SumFunctionOnSet(f, E) \in Nat /\ SumFunctionOnSet(f, C) \in Nat
  BY <1>1, <1>4, <1>5, SumNat
<1>10. SumFunctionOnSet(f, Z) = 0
  BY <1>4, <1>6, SumZero
<1>11. SumFunctionOnSet(f, C \cup E) = SumFunctionOnSet(f, C) + SumFunctionOnSet(f, E)
  BY <1>1, <1>3, <1>4, <1>5, SumUnion
<1>12. SumFunctionOnSet(f, (C \cup E) \cup Z)
         = SumFunctionOnSet(f, C \cup E) + SumFunctionOnSet(f, Z)
  BY <1>1, <1>3, <1>4, <1>5, SumUnion
<1>13. SumFunctionOnSet(ContentOf(lots, x), LotIds)
         = SumFunctionOnSet(f, C) + SumFunctionOnSet(f, E)
  <2>1. SumFunctionOnSet(f, (C \cup E) \cup Z)
          = SumFunctionOnSet(ContentOf(lots, x), LotIds)
    BY <1>2, <1>8, Zenon
  <2> QED BY <2>1, <1>9, <1>10, <1>11, <1>12
<1> QED BY <1>7, <1>9, <1>13 DEF C

\* The lots after each item has given what is needed of it.
LEMMA ConsumedFacts ==
  ASSUME IsBook(lots), NEW need \in [Items -> Nat], NEW ls, ls = Consumed(need)
  PROVE  /\ IsBook(ls) /\ DOMAIN ls = DOMAIN lots /\ Len(ls) = Len(lots)
         /\ \A l \in DOMAIN lots :
              /\ ls[l].item = lots[l].item
              /\ ls[l].expiresAt = lots[l].expiresAt
              /\ ls[l].initial = lots[l].initial
              /\ ls[l].remaining
                   = lots[l].remaining - Taken(lots[l].item, need[lots[l].item])[l]
              /\ ls[l].remaining <= lots[l].remaining
<1>1. DOMAIN ls = DOMAIN lots
      /\ \A l \in DOMAIN lots :
           ls[l] = [lots[l] EXCEPT
             !.remaining = @ - Taken(lots[l].item, need[lots[l].item])[l]]
  BY DEF Consumed
<1>2. ASSUME NEW l \in DOMAIN lots
      PROVE  /\ ls[l].item = lots[l].item
             /\ ls[l].expiresAt = lots[l].expiresAt
             /\ ls[l].initial = lots[l].initial
             /\ ls[l].remaining
                  = lots[l].remaining - Taken(lots[l].item, need[lots[l].item])[l]
             /\ ls[l].remaining <= lots[l].remaining
             /\ ls[l] \in Lot
  <2> DEFINE t == Taken(lots[l].item, need[lots[l].item])[l]
  <2>1. lots[l] \in Lot /\ need[lots[l].item] \in Nat /\ l \in LotIds
        /\ lots[l].remaining \in Nat
    BY BookFacts
  <2>2. t \in Nat /\ t <= lots[l].remaining
    BY <2>1, TakenType
  <2>3. ls[l] = [lots[l] EXCEPT !.remaining = @ - t]
    BY <1>1
  <2> HIDE DEF t
  <2>4. /\ ls[l].item = lots[l].item
        /\ ls[l].expiresAt = lots[l].expiresAt
        /\ ls[l].initial = lots[l].initial
        /\ ls[l].remaining = lots[l].remaining - t
        /\ ls[l] \in Lot
    BY <2>1, <2>2, <2>3 DEF Lot
  <2> QED BY <2>1, <2>2, <2>4 DEF t
<1>3. DOMAIN lots = 1..Len(lots) /\ Len(lots) \in Nat /\ Len(lots) <= MaxLots
  BY BookFacts DEF IsBook
<1>4. ls = [l \in 1..Len(lots) |-> ls[l]]
  BY <1>1, <1>3 DEF Consumed
<1>5. ls \in [1..Len(lots) -> Lot]
  BY <1>2, <1>3, <1>4
<1>6. ls \in Seq(Lot) /\ Len(ls) = Len(lots)
  BY <1>3, <1>5
<1> QED BY <1>1, <1>2, <1>3, <1>6 DEF IsBook

LEMMA ConsumedContent ==
  ASSUME IsBook(lots), NEW need \in [Items -> Nat], NEW ls, ls = Consumed(need), NEW x \in Items
  PROVE  SumFunctionOnSet(ContentOf(ls, x), LotIds)
           = SumFunctionOnSet(ContentOf(lots, x), LotIds)
               - SumFunctionOnSet(Taken(x, need[x]), LotIds)
<1> DEFINE t == Taken(x, need[x])
           new == ContentOf(ls, x)
           old == ContentOf(lots, x)
<1>1. need[x] \in Nat
  OBVIOUS
<1>2. /\ \A l \in LotIds : t[l] \in Nat
      /\ \A l \in LotIds : l \notin Consumable(x) => t[l] = 0
  BY <1>1, TakenType
<1>3. IsBook(ls) /\ DOMAIN ls = DOMAIN lots
  BY ConsumedFacts
<1>4. \A l \in LotIds : new[l] \in Nat /\ old[l] \in Nat
  BY <1>3, ContentType
<1>5. ASSUME NEW l \in LotIds PROVE old[l] = new[l] + t[l]
  <2>1. CASE l \in DOMAIN lots /\ lots[l].item = x
    <3>1. ls[l].item = x /\ ls[l].remaining = lots[l].remaining - t[l]
      BY <2>1, ConsumedFacts
    <3>2. lots[l].remaining \in Nat
      BY <2>1, BookFacts
    <3>3. new[l] = lots[l].remaining - t[l] /\ old[l] = lots[l].remaining
      BY <1>3, <2>1, <3>1 DEF ContentOf
    <3> HIDE DEF t, new, old
    <3> QED BY <1>2, <3>2, <3>3
  <2>2. CASE ~(l \in DOMAIN lots /\ lots[l].item = x)
    <3>1. l \in DOMAIN ls => ls[l].item = lots[l].item
      BY <1>3, ConsumedFacts
    <3>2. new[l] = 0 /\ old[l] = 0
      BY <1>3, <2>2, <3>1 DEF ContentOf
    <3>3. t[l] = 0
      BY <1>2, <2>2 DEF Consumable, LotsOf
    <3> QED BY <3>2, <3>3
  <2> QED BY <2>1, <2>2
<1> HIDE DEF t, new, old
<1>6. SumFunctionOnSet(old, LotIds) = SumFunctionOnSet(new, LotIds) + SumFunctionOnSet(t, LotIds)
  BY <1>2, <1>4, <1>5, LotIdsFinite, SumPlus
<1>7. SumFunctionOnSet(new, LotIds) \in Int /\ SumFunctionOnSet(t, LotIds) \in Int
  BY <1>2, <1>4, LotIdsFinite, SumInt
<1> QED BY <1>6, <1>7 DEF t, new, old

\* The lots after an entry.
LEMMA EnteredFacts ==
  ASSUME NEW ls, IsBook(ls), NEW x \in Items, NEW q \in Nat,
         NEW date \in Dates \cup {NoDate}, date = NoDate \/ Len(ls) < MaxLots,
         NEW new, new = Entered(ls, x, q, date)
  PROVE  /\ IsBook(new) /\ DOMAIN ls \subseteq DOMAIN new
         /\ \A l \in DOMAIN ls : new[l] = ls[l]
         /\ \A l \in DOMAIN new \ DOMAIN ls : new[l].remaining = new[l].initial
         /\ \A y \in Items :
              SumFunctionOnSet(ContentOf(new, y), LotIds)
                = SumFunctionOnSet(ContentOf(ls, y), LotIds)
                    + IF y = x /\ date # NoDate THEN q ELSE 0
<1>1. CASE date = NoDate
  <2>1. new = ls
    BY <1>1 DEF Entered
  <2>2. \A y : SumFunctionOnSet(ContentOf(ls, y), LotIds) \in Nat
    BY ContentType
  <2> QED BY <1>1, <2>1, <2>2
<1>2. CASE date # NoDate
  <2> DEFINE lot == [item |-> x, expiresAt |-> date, initial |-> q, remaining |-> q]
             n == Len(ls) + 1
  <2>1. lot \in Lot /\ lot.item = x /\ lot.initial = q /\ lot.remaining = q
    BY <1>2 DEF Lot
  <2>2. new = Append(ls, lot)
    BY <1>2 DEF Entered
  <2>3. ls \in Seq(Lot) /\ DOMAIN ls = 1..Len(ls) /\ Len(ls) \in Nat /\ n \in LotIds
        /\ n \notin DOMAIN ls
    BY <1>2, BookFacts, BoundsAreNat DEF IsBook, LotIds
  <2> HIDE DEF lot
  <2>4. /\ new \in Seq(Lot) /\ Len(new) = n /\ DOMAIN new = DOMAIN ls \cup {n}
        /\ \A l \in DOMAIN ls : new[l] = ls[l]
        /\ new[n] = lot
    BY <2>1, <2>2, <2>3
  <2>5. IsBook(new)
    BY <1>2, <2>3, <2>4, BoundsAreNat DEF IsBook
  <2>6. ASSUME NEW y \in Items
        PROVE SumFunctionOnSet(ContentOf(new, y), LotIds)
                = SumFunctionOnSet(ContentOf(ls, y), LotIds) + IF y = x THEN q ELSE 0
    <3> DEFINE f == ContentOf(ls, y)
               h == ContentOf(new, y)
    <3>1. \A l \in LotIds : f[l] \in Int /\ h[l] \in Int
      BY <2>5, ContentType
    <3>2. \A l \in LotIds : l # n => h[l] = f[l]
      BY <2>4 DEF ContentOf
    <3>3. f[n] = 0
      BY <2>3 DEF ContentOf
    <3>4. h[n] = IF y = x THEN q ELSE 0
      BY <2>1, <2>3, <2>4 DEF ContentOf
    <3>5. SumFunctionOnSet(f, LotIds) \in Nat
      BY ContentType
    <3>6. n \in LotIds
      BY <2>3
    <3> HIDE DEF f, h, n
    <3>7. SumFunctionOnSet(h, LotIds) = SumFunctionOnSet(f, LotIds) - f[n] + h[n]
      BY <3>1, <3>2, <3>6, LotIdsFinite, SumChange
    <3> QED BY <3>3, <3>4, <3>5, <3>7 DEF f, h
  <2> QED BY <1>2, <2>1, <2>4, <2>5, <2>6
<1> QED BY <1>1, <1>2

\* The lots that have not expired give in the order of their dates, the others
\* give nothing.
LEMMA ConsumedInOrder ==
  ASSUME IsBook(lots), NEW need \in [Items -> Nat], NEW ls, ls = Consumed(need),
         NEW k \in DOMAIN lots, NEW l \in DOMAIN lots,
         ls[l].remaining < lots[l].remaining
  PROVE  /\ ~Expired(l)
         /\ (/\ lots[k].item = lots[l].item /\ ~Expired(k)
             /\ lots[k].expiresAt < lots[l].expiresAt) => ls[k].remaining = 0
<1> DEFINE x == lots[l].item
           q == need[x]
<1>1. k \in LotIds /\ l \in LotIds /\ x \in Items /\ q \in Nat
      /\ lots[k].remaining \in Nat /\ lots[l].remaining \in Nat
      /\ lots[k].expiresAt \in Int /\ lots[l].expiresAt \in Int
  BY BookFacts
<1> DEFINE t == Taken(x, q)
<1>2. ls[l].remaining = lots[l].remaining - t[l]
  BY ConsumedFacts
<1>3. lots[k].item = lots[l].item => ls[k].remaining = lots[k].remaining - t[k]
  BY ConsumedFacts
<1>4. t[l] \in Nat /\ t[k] \in Nat
  BY <1>1, TakenType
<1> HIDE DEF t
<1>5. t[l] # 0
  BY <1>1, <1>2, <1>4
<1>6. l \in Consumable(x)
  BY <1>1, <1>5, TakenType DEF t
<1>7. ~Expired(l)
  BY <1>6, ConsumableFacts
<1>8. ASSUME lots[k].item = x, ~Expired(k), lots[k].expiresAt < lots[l].expiresAt
      PROVE  ls[k].remaining = 0
  <2>1. CASE lots[k].remaining = 0
    <3>1. t[k] <= lots[k].remaining
      BY <1>1, TakenType DEF t
    <3> QED BY <1>3, <1>4, <1>8, <2>1, <3>1
  <2>2. CASE lots[k].remaining # 0
    <3>1. k \in Consumable(x)
      BY <1>1, <1>8, <2>2 DEF Consumable, LotsOf
    <3> DEFINE K == Earlier(x, k)
               L == Earlier(x, l)
    <3>2. Consumable(x) \in SUBSET DOMAIN lots /\ L \in SUBSET DOMAIN lots
          /\ K \in SUBSET DOMAIN lots /\ Remaining(K) \in Nat /\ Remaining(L) \in Nat
      BY ConsumableFacts
    <3>3. k \in L
      BY <1>8, <3>1 DEF Earlier, Before
    <3>4. k \notin K
      <4>1. k \in Int
        BY <1>1, BoundsAreNat DEF LotIds
      <4>2. ~Before(k, k)
        BY <1>1, <4>1 DEF Before
      <4> QED BY <4>2 DEF Earlier
    <3>5. K \in SUBSET (L \ {k})
      <4>1. \A j \in Consumable(x) : Before(j, k) => Before(j, l)
        BY <1>1, <1>8, <3>2, BookFacts DEF Before
      <4> QED BY <3>4, <4>1 DEF Earlier
    <3>6. Remaining(L) = lots[k].remaining + Remaining(L \ {k})
      BY <3>2, <3>3, RemainingNat
    <3>7. L \ {k} \in SUBSET DOMAIN lots
      BY <3>2
    <3> HIDE DEF K, L
    <3>8. Remaining(K) <= Remaining(L \ {k}) /\ Remaining(L \ {k}) \in Nat
      BY <3>5, <3>7, RemainingNat
    <3>9. t[l] = IF q <= Remaining(L) THEN 0
                 ELSE IF lots[l].remaining <= q - Remaining(L)
                      THEN lots[l].remaining ELSE q - Remaining(L)
      BY <1>1, <1>6, TakenIs DEF t, L
    <3>10. t[k] = IF q <= Remaining(K) THEN 0
                  ELSE IF lots[k].remaining <= q - Remaining(K)
                       THEN lots[k].remaining ELSE q - Remaining(K)
      BY <1>1, <3>1, TakenIs DEF t, K
    <3> HIDE DEF q
    <3>11. ~(q <= Remaining(L))
      BY <1>5, <3>9
    <3>12. lots[k].remaining <= q - Remaining(K) /\ ~(q <= Remaining(K))
      BY <1>1, <2>2, <3>2, <3>6, <3>8, <3>11
    <3>13. t[k] = lots[k].remaining
      BY <3>10, <3>12
    <3> QED BY <1>1, <1>3, <1>8, <3>13
  <2> QED BY <2>1, <2>2
<1> QED BY <1>7, <1>8

-----------------------------------------------------------------------------
(* Movements of stock, which leave the orders alone.                       *)

LEMMA TypedFacts ==
  ASSUME Typed
  PROVE  /\ IsBook(lots) /\ stock \in [Items -> Int]
         /\ order \in [Orders -> Line]
         /\ allocation \in [Orders -> [LotIds -> Nat]]
BY DEF Typed, LedgerTypeOK, IsBook

LEMMA BookParts ==
  ASSUME Typed, NEW x \in Items
  PROVE  /\ stock[x] \in Int
         /\ SumFunctionOnSet(ContentOf(lots, x), LotIds) \in Nat
         /\ SumFunctionOnSet(PreorderOf(order, x), Orders) \in Nat
         /\ Undated(x) = Book(stock, lots, order, x)
         /\ Book(stock, lots, order, x) \in Int
<1>1. /\ stock[x] \in Int /\ IsBook(lots) /\ order \in [Orders -> Line]
      /\ IsFiniteSet(Orders)
  BY TypedFacts, LedgerAssumption
<1>2. SumFunctionOnSet(ContentOf(lots, x), LotIds) \in Nat
  BY <1>1, ContentType
<1>3. \A o \in Orders : PreorderOf(order, x)[o] \in Nat
  BY <1>1 DEF PreorderOf, Line
<1>4. SumFunctionOnSet(PreorderOf(order, x), Orders) \in Nat
  BY <1>1, <1>3, SumNat
<1>5. Undated(x) = Book(stock, lots, order, x)
  BY <1>1, UndatedIs
<1>6. Book(stock, lots, order, x) \in Int
  BY <1>1, <1>2, <1>4 DEF Book
<1> QED BY <1>1, <1>2, <1>4, <1>5, <1>6

\* No lot gets more than it holds; a new one starts full.
LotsOnlyShrink ==
  /\ IsBook(lots')
  /\ DOMAIN lots \subseteq DOMAIN lots'
  /\ \A l \in DOMAIN lots :
       /\ lots'[l].item = lots[l].item /\ lots'[l].initial = lots[l].initial
       /\ lots'[l].remaining <= lots[l].remaining
  /\ \A l \in DOMAIN lots' \ DOMAIN lots : lots'[l].remaining = lots'[l].initial

\* What is in the books stays covered, but for the items overdrawn.
StaysCovered ==
  \A x \in Items \ overdrawn' :
    /\ x \notin overdrawn
    /\ Book(stock', lots', order', x) >= Book(stock, lots, order, x)
         \/ Book(stock', lots', order', x) >= 0

LEMMA CoveredNext ==
  ASSUME LInv, IsBook(lots'), order' \in [Orders -> Line], StaysCovered,
         \A x \in Items : Book(stock', lots', order', x) \in Int
  PROVE  LedgerCoversLots'
<1>1. ASSUME NEW x \in Items, x \notin overdrawn'
      PROVE  Undated(x)' >= 0
  <2>1. Book(stock, lots, order, x) >= 0 /\ Book(stock, lots, order, x) \in Int
    BY <1>1, BookParts DEF LInv, LedgerCoversLots, StaysCovered
  <2>2. Undated(x)' = Book(stock', lots', order', x)
    BY UndatedNextIs
  <2> QED BY <1>1, <2>1, <2>2 DEF StaysCovered
<1>2. Items' = Items
  BY DEF Items
<1> QED BY <1>1, <1>2 DEF LedgerCoversLots

LEMMA HeldNat ==
  ASSUME Typed, NEW l \in LotIds
  PROVE  /\ \A o \in Orders : HeldFrom(order, allocation, l)[o] \in Nat
         /\ Held(l) = SumFunctionOnSet(HeldFrom(order, allocation, l), Orders)
         /\ Held(l) \in Nat
<1>1. allocation \in [Orders -> [LotIds -> Nat]] /\ IsFiniteSet(Orders)
  BY TypedFacts, LedgerAssumption
<1>2. \A o \in Orders : HeldFrom(order, allocation, l)[o] \in Nat
  BY <1>1 DEF HeldFrom
<1>3. SumFunctionOnSet(HeldFrom(order, allocation, l), Orders) \in Nat
  BY <1>1, <1>2, SumNat
<1>4. Held(l) = SumFunctionOnSet(HeldFrom(order, allocation, l), Orders)
  BY <1>1, HeldNowIs
<1> QED BY <1>2, <1>3, <1>4

LEMMA MovementKeepsOrders ==
  ASSUME LInv, LotsOnlyShrink, order' = order, allocation' = allocation
  PROVE  AllocationIsOfLots' /\ LinesAddUp' /\ LotsNeverOverdrawn'
<1>1. Typed /\ IsBook(lots) /\ IsBook(lots')
  BY TypedFacts DEF LInv, LotsOnlyShrink
<1>2. AllocationIsOfLots'
  BY DEF LInv, AllocationIsOfLots, LotsOnlyShrink, LotIds
<1>3. LinesAddUp'
  BY DEF LInv, LinesAddUp, LotIds
<1>4. ASSUME NEW l \in DOMAIN lots'
      PROVE  (lots[l].remaining + Held(l) <= lots[l].initial)'
  <2>1. l \in LotIds /\ lots'[l].remaining \in Nat /\ lots'[l].initial \in Nat
    BY <1>1, BookFacts
  <2>2. allocation' \in [Orders -> [LotIds -> Nat]]
    BY <1>1, TypedFacts
  <2>3. Held(l)' = Held(l) /\ Held(l) \in Nat
        /\ Held(l) = SumFunctionOnSet(HeldFrom(order, allocation, l), Orders)
    BY <1>1, <2>1, <2>2, HeldNextIs, HeldNat
  <2>4. CASE l \in DOMAIN lots
    <3>1. lots[l].remaining \in Nat /\ lots[l].initial \in Nat
      BY <1>1, <2>4, BookFacts
    <3>2. lots[l].remaining + Held(l) <= lots[l].initial
      BY <2>4 DEF LInv, LotsNeverOverdrawn
    <3> QED BY <2>1, <2>3, <2>4, <3>1, <3>2 DEF LotsOnlyShrink
  <2>5. CASE l \notin DOMAIN lots
    <3>1. \A o \in Orders : allocation[o][l] = 0
      BY <2>1, <2>5 DEF LInv, AllocationIsOfLots
    <3>2. \A o \in Orders : HeldFrom(order, allocation, l)[o] = 0
      BY <3>1 DEF HeldFrom
    <3>3. Held(l) = 0
      BY <2>3, <3>2, SumZero, OrdersFinite
    <3> QED BY <2>1, <2>3, <2>5, <3>3 DEF LotsOnlyShrink
  <2> QED BY <2>4, <2>5
<1> QED BY <1>2, <1>3, <1>4 DEF LotsNeverOverdrawn

\* What is drawn from the lots of an item is drawn from its figure too.
LEMMA DrawnFrom ==
  ASSUME Typed, NEW need \in [Items -> Nat], NEW ls, ls = Consumed(need),
         NEW st \in [Items -> Int], NEW x \in Items, st[x] = stock[x] - need[x]
  PROVE  /\ need[x] <= Sellable(x) /\ Book(stock, lots, order, x) >= 0
              => Book(st, ls, order, x) >= 0
         /\ need[x] = 0 => Book(st, ls, order, x) = Book(stock, lots, order, x)
         /\ Book(st, ls, order, x) \in Int
<1> DEFINE c == SumFunctionOnSet(ContentOf(lots, x), LotIds)
           d == SumFunctionOnSet(ContentOf(ls, x), LotIds)
           p == SumFunctionOnSet(PreorderOf(order, x), Orders)
           t == SumFunctionOnSet(Taken(x, need[x]), LotIds)
           R == Remaining(Consumable(x))
           E == ExpiredStock(x)
           n == need[x]
<1>1. IsBook(lots) /\ n \in Nat
  BY TypedFacts
<1>2. stock[x] \in Int /\ c \in Nat /\ p \in Nat
  BY BookParts
<1>3. d = c - t
  BY <1>1, ConsumedContent
<1>4. t = IF n <= R THEN n ELSE R
  BY <1>1, TakenSum
<1>5. E \in Nat /\ R \in Nat /\ c = R + E
  BY <1>1, ContentSplit
<1>6. Book(stock, lots, order, x) = stock[x] - c + p
  BY DEF Book
<1>7. Book(st, ls, order, x) = stock[x] - n - d + p
  BY DEF Book
<1>8. stock[x] - E \in Int
  BY <1>2, <1>5
<1>9. Sellable(x) = IF stock[x] - E < 0 THEN 0 ELSE stock[x] - E
  BY <1>8, AtLeastZeroIs DEF Sellable
<1> HIDE DEF c, d, p, t, R, E, n
<1>10. n <= Sellable(x) /\ stock[x] - c + p >= 0 => stock[x] - n - d + p >= 0
  BY <1>1, <1>2, <1>3, <1>4, <1>5, <1>9
<1>11. n = 0 => stock[x] - n - d + p = stock[x] - c + p
  BY <1>1, <1>2, <1>3, <1>4, <1>5
<1>12. stock[x] - n - d + p \in Int
  BY <1>1, <1>2, <1>3, <1>4, <1>5
<1> QED BY <1>6, <1>7, <1>10, <1>11, <1>12 DEF n

LEMMA OnlyIs ==
  ASSUME NEW x \in Items, NEW q \in Nat
  PROVE  /\ Only(x, q) \in [Items -> Nat] /\ Only(x, q)[x] = q
         /\ \A y \in Items : y # x => Only(x, q)[y] = 0
BY DEF Only

LEMMA ConsumedShrinks ==
  ASSUME Typed, NEW need \in [Items -> Nat], lots' = Consumed(need)
  PROVE  LotsOnlyShrink
<1>1. IsBook(lots)
  BY TypedFacts
<1> QED BY <1>1, ConsumedFacts DEF LotsOnlyShrink

LEMMA TypedNext ==
  ASSUME Typed, IsBook(lots'), stock' \in [Items -> Int], order' = order,
         \A m \in Matieres : stock'[m] >= 0, allocation' = allocation,
         today' = today, overdrawn' \subseteq Items
  PROVE  Typed'
<1>1. (Items = Items)' /\ Items' = Items /\ Dates' = Dates /\ LotIds' = LotIds /\ Lot' = Lot /\ Line' = Line
  BY DEF Items, Dates, LotIds, Lot, Line
<1> QED BY <1>1 DEF Typed, LedgerTypeOK, IsBook

LEMMA QuantitiesAreNat == Quantities \subseteq Nat
BY BoundsAreNat DEF Quantities

LEMMA DrawOne ==
  ASSUME Typed, NEW x \in Items, NEW q \in Nat,
         stock' = [stock EXCEPT ![x] = @ - q], lots' = Consumed(Only(x, q)), order' = order
  PROVE  /\ LotsOnlyShrink /\ stock' \in [Items -> Int]
         /\ stock'[x] = stock[x] - q
         /\ \A y \in Items : y # x => /\ stock'[y] = stock[y]
                                      /\ Book(stock', lots', order', y)
                                           = Book(stock, lots, order, y)
         /\ \A y \in Items : Book(stock', lots', order', y) \in Int
         /\ q <= Sellable(x) /\ Book(stock, lots, order, x) >= 0
              => Book(stock', lots', order', x) >= 0
<1> DEFINE need == Only(x, q)
<1>1. need \in [Items -> Nat] /\ need[x] = q /\ \A y \in Items : y # x => need[y] = 0
  BY OnlyIs
<1>2. stock \in [Items -> Int]
  BY TypedFacts
<1>3. /\ stock' \in [Items -> Int] /\ stock'[x] = stock[x] - q
      /\ \A y \in Items : y # x => stock'[y] = stock[y]
  BY <1>2
<1>4. \A y \in Items : stock'[y] = stock[y] - need[y]
  <2>1. \A y \in Items : stock[y] \in Int
    BY <1>2
  <2> HIDE DEF need
  <2> QED BY <1>1, <1>3, <2>1
<1> HIDE DEF need
<1>5. lots' = Consumed(need)
  BY DEF need
<1>6. LotsOnlyShrink
  BY <1>1, <1>5, ConsumedShrinks
<1>7. ASSUME NEW y \in Items
      PROVE  /\ need[y] <= Sellable(y) /\ Book(stock, lots, order, y) >= 0
                  => Book(stock', lots', order, y) >= 0
             /\ need[y] = 0 => Book(stock', lots', order, y) = Book(stock, lots, order, y)
             /\ Book(stock', lots', order, y) \in Int
  <2> DEFINE st == stock'
             ls == lots'
  <2>1. st \in [Items -> Int] /\ st[y] = stock[y] - need[y] /\ ls = Consumed(need)
        /\ need \in [Items -> Nat]
    BY <1>1, <1>3, <1>4, <1>5
  <2> HIDE DEF st, ls
  <2>2. /\ need[y] <= Sellable(y) /\ Book(stock, lots, order, y) >= 0
             => Book(st, ls, order, y) >= 0
        /\ need[y] = 0 => Book(st, ls, order, y) = Book(stock, lots, order, y)
        /\ Book(st, ls, order, y) \in Int
    BY <2>1, DrawnFrom
  <2> QED BY <2>2 DEF st, ls
<1> QED BY <1>1, <1>3, <1>6, <1>7

\* A movement that keeps the lots, the types and the cover keeps the books.
LEMMA MovementKeepsBooks ==
  ASSUME LInv, LotsOnlyShrink, Typed', StaysCovered, order' = order,
         allocation' = allocation,
         \A x \in Items : Book(stock', lots', order', x) \in Int
  PROVE  LInv'
<1>1. IsBook(lots') /\ order' \in [Orders -> Line]
  BY TypedFacts DEF LotsOnlyShrink, LInv
<1>2. LedgerCoversLots'
  BY <1>1, CoveredNext
<1> QED BY <1>2, MovementKeepsOrders DEF LInv

LEMMA SellKeeps ==
  ASSUME LInv, NEW a \in Articles, NEW q \in Quantities, Sell(a, q) PROVE LInv'
<1>1. Typed /\ a \in Items /\ q \in Nat /\ a \notin Matieres
  BY QuantitiesAreNat, LedgerAssumption DEF LInv, Items
<1>2. /\ stock' = [stock EXCEPT ![a] = @ - q] /\ lots' = Consumed(Only(a, q))
      /\ order' = order /\ allocation' = allocation /\ today' = today
      /\ overdrawn' = overdrawn /\ q <= Sellable(a)
  BY DEF Sell
<1>3. /\ LotsOnlyShrink /\ stock' \in [Items -> Int]
      /\ \A y \in Items : y # a => /\ stock'[y] = stock[y]
                                   /\ Book(stock', lots', order', y) = Book(stock, lots, order, y)
      /\ \A y \in Items : Book(stock', lots', order', y) \in Int
      /\ Book(stock, lots, order, a) >= 0 => Book(stock', lots', order', a) >= 0
  BY <1>1, <1>2, DrawOne
<1>4. \A m \in Matieres : stock'[m] >= 0
  BY <1>1, <1>3 DEF Typed, LedgerTypeOK, Items
<1>5. Typed'
  BY <1>1, <1>2, <1>3, <1>4, TypedNext DEF LotsOnlyShrink, Typed, LedgerTypeOK
<1>6. \A x \in Items \ overdrawn : Book(stock, lots, order, x) >= 0
  BY <1>1, BookParts DEF LInv, LedgerCoversLots
<1>7. StaysCovered
  BY <1>1, <1>2, <1>3, <1>6, BookParts DEF StaysCovered
<1> QED BY <1>2, <1>3, <1>5, <1>7, MovementKeepsBooks

LEMMA WithdrawKeeps ==
  ASSUME LInv, NEW x \in Items, NEW q \in Quantities, Withdraw(x, q) PROVE LInv'
<1>1. Typed /\ q \in Nat
  BY QuantitiesAreNat DEF LInv
<1>2. /\ stock' = [stock EXCEPT ![x] = @ - q] /\ lots' = Consumed(Only(x, q))
      /\ order' = order /\ allocation' = allocation /\ today' = today
      /\ stock[x] - q >= 0
      /\ overdrawn' = overdrawn \cup IF q > Sellable(x) THEN {x} ELSE {}
  BY DEF Withdraw
<1>3. /\ LotsOnlyShrink /\ stock' \in [Items -> Int] /\ stock'[x] = stock[x] - q
      /\ \A y \in Items : y # x => /\ stock'[y] = stock[y]
                                   /\ Book(stock', lots', order', y) = Book(stock, lots, order, y)
      /\ \A y \in Items : Book(stock', lots', order', y) \in Int
      /\ q <= Sellable(x) /\ Book(stock, lots, order, x) >= 0
           => Book(stock', lots', order', x) >= 0
  BY <1>1, <1>2, DrawOne
<1>4. \A m \in Matieres : stock'[m] >= 0
  BY <1>1, <1>2, <1>3 DEF Typed, LedgerTypeOK, Items
<1>5. Typed'
  <2>1. overdrawn' \subseteq Items
    BY <1>1, <1>2 DEF Typed, LedgerTypeOK
  <2> QED BY <1>1, <1>2, <1>3, <1>4, <2>1, TypedNext DEF LotsOnlyShrink
<1>6. \A y \in Items \ overdrawn : Book(stock, lots, order, y) >= 0
  BY <1>1, BookParts DEF LInv, LedgerCoversLots
<1>7. Sellable(x) \in Int
  <2>1. stock[x] - ExpiredStock(x) \in Int
    BY <1>1, BookParts, ContentSplit, TypedFacts
  <2> QED BY <2>1, AtLeastZeroIs DEF Sellable
<1>8. x \notin overdrawn' => q <= Sellable(x)
  BY <1>1, <1>2, <1>7
<1>9. StaysCovered
  BY <1>1, <1>2, <1>3, <1>6, <1>8, BookParts DEF StaysCovered
<1> QED BY <1>2, <1>3, <1>5, <1>9, MovementKeepsBooks

LEMMA ProduceShrinks ==
  ASSUME Typed, NEW a \in Articles, NEW q \in Nat, NEW date \in Dates \cup {NoDate},
         Produce(a, q, date)
  PROVE  \E need \in [Items -> Nat] :
           /\ lots' = Entered(Consumed(need), a, q, date)
           /\ need[a] = 0
           /\ \A x \in Items : need[x] <= Sellable(x)
           /\ \A m \in Matieres : need[m] <= stock[m]
           /\ \A x \in Items : stock'[x] = IF x = a THEN stock[x] + q ELSE stock[x] - need[x]
           /\ stock' = [x \in Items |-> stock'[x]]
           /\ date = NoDate \/ Len(Consumed(need)) < MaxLots
           /\ LotsOnlyShrink
<1> DEFINE need == [x \in Items |-> IF x \in Matieres THEN Nomenclature[a][x] * q ELSE 0]
           ls == Consumed(need)
<1>1. a \in Items /\ a \notin Matieres
      /\ \A m \in Matieres : m \in Items /\ Nomenclature[a][m] \in Nat
  BY LedgerAssumption DEF Items
<1>2. \A m \in Matieres : Nomenclature[a][m] * q \in Nat
  BY <1>1
<1>3. need \in [Items -> Nat] /\ need[a] = 0
      /\ \A x \in Items : x \notin Matieres => need[x] = 0
  BY <1>1, <1>2
<1>4. /\ HasRoom(a, q, date)
      /\ \A m \in Matieres : need[m] <= Sellable(m) /\ need[m] <= stock[m]
      /\ stock' = [x \in Items |-> IF x = a THEN stock[x] + q ELSE stock[x] - need[x]]
      /\ lots' = Entered(ls, a, q, date)
  BY DEF Produce
<1> HIDE DEF need
<1>5. IsBook(lots)
  BY TypedFacts
<1>6. \A x \in Items : Sellable(x) \in Nat
  <2> TAKE x \in Items
  <2>1. stock[x] - ExpiredStock(x) \in Int
    BY <1>5, BookParts, ContentSplit, TypedFacts
  <2> QED BY <2>1, AtLeastZeroIs DEF Sellable
<1>7. \A x \in Items : need[x] <= Sellable(x)
  BY <1>3, <1>4, <1>6
<1>8. /\ IsBook(ls) /\ DOMAIN ls = DOMAIN lots /\ Len(ls) = Len(lots)
      /\ \A l \in DOMAIN lots :
           /\ ls[l].item = lots[l].item /\ ls[l].initial = lots[l].initial
           /\ ls[l].remaining <= lots[l].remaining
  BY <1>3, <1>5, ConsumedFacts
<1> HIDE DEF ls
<1>9. date = NoDate \/ Len(ls) < MaxLots
  BY <1>4, <1>8 DEF HasRoom
<1>10. /\ IsBook(lots') /\ DOMAIN ls \subseteq DOMAIN lots'
       /\ \A l \in DOMAIN ls : lots'[l] = ls[l]
       /\ \A l \in DOMAIN lots' \ DOMAIN ls : lots'[l].remaining = lots'[l].initial
  BY <1>1, <1>4, <1>8, <1>9, EnteredFacts
<1>11. LotsOnlyShrink
  BY <1>8, <1>10 DEF LotsOnlyShrink
<1> QED BY <1>3, <1>4, <1>7, <1>9, <1>11 DEF ls

LEMMA ProduceKeeps ==
  ASSUME LInv, NEW a \in Articles, NEW q \in Quantities, NEW date \in Dates \cup {NoDate},
         Produce(a, q, date)
  PROVE  LInv'
<1>1. Typed /\ a \in Items /\ q \in Nat /\ a \notin Matieres /\ IsBook(lots)
  BY QuantitiesAreNat, LedgerAssumption, TypedFacts DEF LInv, Items
<1>2. PICK need \in [Items -> Nat] :
           /\ lots' = Entered(Consumed(need), a, q, date)
           /\ need[a] = 0
           /\ \A x \in Items : need[x] <= Sellable(x)
           /\ \A m \in Matieres : need[m] <= stock[m]
           /\ \A x \in Items : stock'[x] = IF x = a THEN stock[x] + q ELSE stock[x] - need[x]
           /\ stock' = [x \in Items |-> stock'[x]]
           /\ date = NoDate \/ Len(Consumed(need)) < MaxLots
           /\ LotsOnlyShrink
  BY <1>1, ProduceShrinks
<1> DEFINE ls == Consumed(need)
<1> HIDE DEF ls
<1>0. /\ ls = Consumed(need) /\ lots' = Entered(ls, a, q, date)
      /\ date = NoDate \/ Len(ls) < MaxLots
  BY <1>2 DEF ls
<1>3. /\ order' = order /\ allocation' = allocation /\ today' = today
      /\ overdrawn' = overdrawn
  BY DEF Produce
<1>4. \A x \in Items : stock[x] \in Int /\ need[x] \in Nat
  BY <1>1, TypedFacts
<1>5. stock' \in [Items -> Int]
  <2>1. \A x \in Items : stock'[x] \in Int
    BY <1>1, <1>2, <1>4
  <2> QED BY <1>2, <2>1
<1>6. \A m \in Matieres : stock'[m] >= 0
  <2>1. \A m \in Matieres : m \in Items /\ m # a
    BY <1>1 DEF Items
  <2> QED BY <1>2, <1>4, <2>1
<1>7. Typed'
  BY <1>1, <1>3, <1>2, <1>5, <1>6, TypedNext DEF LotsOnlyShrink, Typed, LedgerTypeOK
<1>8. IsBook(ls)
  BY <1>0, <1>1, ConsumedFacts
<1>9. ASSUME NEW x \in Items
      PROVE  /\ Book(stock', lots', order', x) \in Int
             /\ Book(stock, lots, order, x) >= 0 => Book(stock', lots', order', x) >= 0
  <2> DEFINE st == [y \in Items |-> stock[y] - need[y]]
  <2>1. st \in [Items -> Int] /\ st[x] = stock[x] - need[x]
    BY <1>4
  <2> HIDE DEF st
  <2>2. /\ need[x] <= Sellable(x) /\ Book(stock, lots, order, x) >= 0
             => Book(st, ls, order, x) >= 0
        /\ Book(st, ls, order, x) \in Int
    BY <1>0, <1>1, <1>2, <2>1, DrawnFrom
  <2> DEFINE c == SumFunctionOnSet(ContentOf(ls, x), LotIds)
             d == SumFunctionOnSet(ContentOf(lots', x), LotIds)
             p == SumFunctionOnSet(PreorderOf(order, x), Orders)
  <2>3. d = c + IF x = a /\ date # NoDate THEN q ELSE 0
    BY <1>0, <1>1, <1>8, EnteredFacts
  <2>4. c \in Nat /\ p \in Nat
    BY <1>1, <1>8, ContentType, BookParts
  <2>5. Book(st, ls, order, x) = stock[x] - need[x] - c + p
    BY <2>1 DEF Book
  <2>6. Book(stock', lots', order', x) = stock'[x] - d + p
    BY <1>3 DEF Book
  <2>7. stock'[x] = IF x = a THEN stock[x] + q ELSE stock[x] - need[x]
    BY <1>2
  <2> HIDE DEF c, d, p
  <2>8. Book(stock', lots', order', x) \in Int
        /\ Book(stock', lots', order', x) >= Book(st, ls, order, x)
    BY <1>1, <1>2, <1>4, <2>3, <2>4, <2>5, <2>6, <2>7
  <2> QED BY <1>2, <2>2, <2>8
<1>10. \A x \in Items \ overdrawn : Book(stock, lots, order, x) >= 0
  BY <1>1, BookParts DEF LInv, LedgerCoversLots
<1>11. StaysCovered
  BY <1>3, <1>9, <1>10 DEF StaysCovered
<1> QED BY <1>2, <1>3, <1>7, <1>9, <1>11, MovementKeepsBooks

LEMMA EnterKeeps ==
  ASSUME LInv, NEW x \in Items, NEW q \in Quantities, NEW date \in Dates \cup {NoDate},
         Enter(x, q, date)
  PROVE  LInv'
<1>1. Typed /\ q \in Nat /\ IsBook(lots) /\ stock \in [Items -> Int]
  BY QuantitiesAreNat, TypedFacts DEF LInv
<1>2. /\ HasRoom(x, q, date)
      /\ stock' = [stock EXCEPT ![x] = @ + q]
      /\ lots' = Entered(lots, x, q, date)
      /\ order' = order /\ allocation' = allocation /\ today' = today
      /\ overdrawn' = overdrawn
  BY DEF Enter
<1>3. /\ IsBook(lots') /\ DOMAIN lots \subseteq DOMAIN lots'
      /\ \A l \in DOMAIN lots : lots'[l] = lots[l]
      /\ \A l \in DOMAIN lots' \ DOMAIN lots : lots'[l].remaining = lots'[l].initial
      /\ \A y \in Items :
           SumFunctionOnSet(ContentOf(lots', y), LotIds)
             = SumFunctionOnSet(ContentOf(lots, y), LotIds)
                 + IF y = x /\ date # NoDate THEN q ELSE 0
  BY <1>1, <1>2, EnteredFacts DEF HasRoom
<1>4. LotsOnlyShrink
  BY <1>1, <1>3, BookFacts DEF LotsOnlyShrink
<1>5. /\ stock' \in [Items -> Int] /\ stock'[x] = stock[x] + q
      /\ \A y \in Items : stock[y] \in Int /\ (y # x => stock'[y] = stock[y])
  BY <1>1, <1>2
<1>6. \A m \in Matieres : stock'[m] >= 0
  BY <1>1, <1>5 DEF Typed, LedgerTypeOK, Items
<1>7. Typed'
  BY <1>1, <1>2, <1>3, <1>5, <1>6, TypedNext DEF Typed, LedgerTypeOK
<1>8. ASSUME NEW y \in Items
      PROVE  /\ Book(stock', lots', order', y) \in Int
             /\ Book(stock', lots', order', y) >= Book(stock, lots, order, y)
  <2> DEFINE c == SumFunctionOnSet(ContentOf(lots, y), LotIds)
             d == SumFunctionOnSet(ContentOf(lots', y), LotIds)
             p == SumFunctionOnSet(PreorderOf(order, y), Orders)
  <2>1. c \in Nat /\ p \in Nat
    BY <1>1, BookParts
  <2>2. d = c + IF y = x /\ date # NoDate THEN q ELSE 0
    BY <1>3
  <2>3. Book(stock', lots', order', y) = stock'[y] - d + p
    BY <1>2 DEF Book
  <2>4. Book(stock, lots, order, y) = stock[y] - c + p
    BY DEF Book
  <2> HIDE DEF c, d, p
  <2> QED BY <1>1, <1>5, <2>1, <2>2, <2>3, <2>4
<1>9. StaysCovered
  BY <1>2, <1>8 DEF StaysCovered
<1> QED BY <1>2, <1>4, <1>7, <1>8, <1>9, MovementKeepsBooks

\* A lot that is written off.
LEMMA LossFacts ==
  ASSUME Typed, NEW l \in DOMAIN lots, MarkLotAsLoss(l)
  PROVE  /\ LotsOnlyShrink
         /\ stock' \in [Items -> Int]
         /\ stock'[lots[l].item] = stock[lots[l].item] - lots[l].remaining
         /\ \A m \in Matieres : stock'[m] >= 0
         /\ Len(lots') = Len(lots)
         /\ \A k \in DOMAIN lots : k # l => lots'[k] = lots[k]
         /\ lots'[l].remaining = 0
         /\ \A y \in Items : /\ Book(stock', lots', order', y) = Book(stock, lots, order, y)
                             /\ Book(stock', lots', order', y) \in Int
<1> DEFINE x == lots[l].item
           q == lots[l].remaining
<1>1. IsBook(lots) /\ stock \in [Items -> Int] /\ l \in LotIds /\ x \in Items /\ q \in Nat
      /\ lots[l] \in Lot
  BY TypedFacts, BookFacts
<1>2. /\ x \in Matieres => stock[x] - q >= 0
      /\ stock' = [stock EXCEPT ![x] = @ - q]
      /\ lots' = [lots EXCEPT ![l].remaining = 0]
      /\ order' = order
  BY DEF MarkLotAsLoss
<1>3. /\ DOMAIN lots' = DOMAIN lots
      /\ \A k \in DOMAIN lots : k # l => lots'[k] = lots[k]
      /\ lots'[l] = [lots[l] EXCEPT !.remaining = 0]
  BY <1>2
<1>4. lots'[l] \in Lot /\ lots'[l].remaining = 0 /\ lots'[l].item = x
      /\ lots'[l].initial = lots[l].initial
  BY <1>1, <1>3 DEF Lot
<1>5. lots' \in Seq(Lot) /\ Len(lots') = Len(lots)
  <2>1. DOMAIN lots = 1..Len(lots) /\ Len(lots) \in Nat /\ \A k \in DOMAIN lots : lots[k] \in Lot
    BY <1>1, BookFacts
  <2>2. lots' \in [1..Len(lots) -> Lot]
    BY <1>2, <1>3, <1>4, <2>1
  <2> QED BY <2>1, <2>2
<1>6. IsBook(lots')
  BY <1>1, <1>5 DEF IsBook
<1>7. LotsOnlyShrink
  <2>1. \A k \in DOMAIN lots : lots[k].remaining \in Nat
    BY <1>1, BookFacts
  <2>2. ASSUME NEW k \in DOMAIN lots
        PROVE  /\ lots'[k].item = lots[k].item /\ lots'[k].initial = lots[k].initial
               /\ lots'[k].remaining <= lots[k].remaining
    <3>1. CASE k = l
      BY <1>4, <2>1, <3>1
    <3>2. CASE k # l
      BY <1>3, <2>1, <3>2
    <3> QED BY <3>1, <3>2
  <2> QED BY <1>3, <1>6, <2>2 DEF LotsOnlyShrink
<1>8. /\ stock' \in [Items -> Int] /\ stock'[x] = stock[x] - q
      /\ \A y \in Items : stock[y] \in Int /\ (y # x => stock'[y] = stock[y])
  <2> HIDE DEF q
  <2> QED BY <1>1, <1>2
<1>9. \A m \in Matieres : stock'[m] >= 0
  BY <1>1, <1>2, <1>8 DEF Typed, LedgerTypeOK, Items
<1>10. ASSUME NEW y \in Items
       PROVE  /\ Book(stock', lots', order', y) = Book(stock, lots, order, y)
              /\ Book(stock', lots', order', y) \in Int
  <2> DEFINE f == ContentOf(lots, y)
             h == ContentOf(lots', y)
             p == SumFunctionOnSet(PreorderOf(order, y), Orders)
  <2>1. p \in Nat /\ SumFunctionOnSet(f, LotIds) \in Nat
    BY BookParts
  <2>2. \A k \in LotIds : f[k] \in Int /\ h[k] \in Int
    BY <1>1, <1>6, ContentType
  <2>3. \A k \in LotIds : k # l => h[k] = f[k]
    BY <1>3 DEF ContentOf
  <2>4. h[l] = 0 /\ f[l] = IF y = x THEN q ELSE 0
    BY <1>1, <1>3, <1>4 DEF ContentOf
  <2>5. Book(stock', lots', order', y) = stock'[y] - SumFunctionOnSet(h, LotIds) + p
    BY <1>2 DEF Book
  <2>6. Book(stock, lots, order, y) = stock[y] - SumFunctionOnSet(f, LotIds) + p
    BY DEF Book
  <2> HIDE DEF f, h, p
  <2>7. SumFunctionOnSet(h, LotIds) = SumFunctionOnSet(f, LotIds) - f[l] + h[l]
    BY <1>1, <2>2, <2>3, LotIdsFinite, SumChange
  <2> HIDE DEF x, q
  <2> QED BY <1>1, <1>8, <2>1, <2>4, <2>5, <2>6, <2>7
<1> QED BY <1>3, <1>4, <1>5, <1>7, <1>8, <1>9, <1>10

LEMMA LossKeeps ==
  ASSUME LInv, NEW l \in DOMAIN lots, MarkLotAsLoss(l) PROVE LInv'
<1>1. Typed
  BY DEF LInv
<1>2. /\ order' = order /\ allocation' = allocation /\ today' = today
      /\ overdrawn' = overdrawn
  BY DEF MarkLotAsLoss
<1>3. /\ LotsOnlyShrink /\ stock' \in [Items -> Int]
      /\ \A m \in Matieres : stock'[m] >= 0
      /\ \A y \in Items : /\ Book(stock', lots', order', y) = Book(stock, lots, order, y)
                          /\ Book(stock', lots', order', y) \in Int
  BY <1>1, LossFacts
<1>4. Typed'
  BY <1>1, <1>2, <1>3, TypedNext DEF LotsOnlyShrink, Typed, LedgerTypeOK
<1>5. StaysCovered
  BY <1>2, <1>3 DEF StaysCovered
<1> QED BY <1>2, <1>3, <1>4, <1>5, MovementKeepsBooks

LEMMA NextDayKeeps ==
  ASSUME LInv, NextDay PROVE LInv'
<1>1. Typed /\ IsBook(lots)
  BY TypedFacts DEF LInv
<1>2. /\ stock' = stock /\ lots' = lots /\ order' = order /\ allocation' = allocation
      /\ overdrawn' = overdrawn /\ today' \in Dates
  BY <1>1, BoundsAreNat DEF NextDay, Typed, LedgerTypeOK, Dates
<1>3. Typed'
  BY <1>1, <1>2 DEF Typed, LedgerTypeOK, Items, Dates, LotIds, Lot, Line
<1>4. LotsOnlyShrink
  BY <1>1, <1>2, BookFacts DEF LotsOnlyShrink
<1>5. \A x \in Items : /\ Book(stock', lots', order', x) = Book(stock, lots, order, x)
                       /\ Book(stock, lots, order, x) \in Int
  BY <1>1, <1>2, BookParts
<1>6. StaysCovered
  BY <1>2, <1>5 DEF StaysCovered
<1> QED BY <1>2, <1>3, <1>4, <1>5, <1>6, MovementKeepsBooks

-----------------------------------------------------------------------------
(* Steps of an order, which move stock from one book to another.           *)

OrderNeutral ==
  /\ IsBook(lots') /\ DOMAIN lots' = DOMAIN lots
  /\ \A l \in DOMAIN lots : lots'[l].item = lots[l].item /\ lots'[l].initial = lots[l].initial
  /\ stock' \in [Items -> Int] /\ \A m \in Matieres : stock'[m] = stock[m]
  /\ order' \in [Orders -> Line]
  /\ allocation' \in [Orders -> [LotIds -> Nat]]
  /\ \A l \in DOMAIN lots : lots'[l].remaining + Held(l)' = lots[l].remaining + Held(l)
  /\ \A x \in Items : Book(stock', lots', order', x) = Book(stock, lots, order, x)
  /\ today' = today /\ overdrawn' = overdrawn

LEMMA OrderStepKeeps ==
  ASSUME LInv, OrderNeutral, AllocationIsOfLots', LinesAddUp' PROVE LInv'
<1>1. Typed /\ IsBook(lots)
  BY TypedFacts DEF LInv
<1>2. Typed'
  <2>1. Items' = Items /\ Dates' = Dates /\ LotIds' = LotIds /\ Lot' = Lot /\ Line' = Line
    BY DEF Items, Dates, LotIds, Lot, Line
  <2>2. \A m \in Matieres : stock'[m] >= 0
    BY <1>1 DEF OrderNeutral, Typed, LedgerTypeOK
  <2> QED BY <1>1, <2>1, <2>2 DEF OrderNeutral, Typed, LedgerTypeOK, IsBook
<1>3. LotsNeverOverdrawn'
  <2>1. ASSUME NEW l \in DOMAIN lots'
        PROVE lots'[l].remaining + Held(l)' <= lots'[l].initial
    <3>1. lots[l].remaining + Held(l) <= lots[l].initial
      BY <2>1 DEF LInv, LotsNeverOverdrawn, OrderNeutral
    <3>2. /\ lots'[l].remaining + Held(l)' = lots[l].remaining + Held(l)
          /\ lots'[l].initial = lots[l].initial
      BY <2>1 DEF OrderNeutral
    <3> QED BY <3>1, <3>2
  <2> QED BY <2>1 DEF LotsNeverOverdrawn
<1>4. \A x \in Items : /\ Book(stock', lots', order', x) = Book(stock, lots, order, x)
                       /\ Book(stock, lots, order, x) \in Int
  BY <1>1, BookParts DEF OrderNeutral
<1>5. StaysCovered
  BY <1>4 DEF StaysCovered, OrderNeutral
<1>6. LedgerCoversLots'
  BY <1>4, <1>5, CoveredNext DEF OrderNeutral
<1> QED BY <1>2, <1>3, <1>6 DEF LInv

\* One order changes what it holds, or what it preordered.
LEMMA HeldChange ==
  ASSUME Typed, allocation' \in [Orders -> [LotIds -> Nat]], NEW CONSTANT o \in Orders,
         \A p \in Orders : p # o => order'[p] = order[p] /\ allocation'[p] = allocation[p],
         NEW CONSTANT l \in LotIds
  PROVE  /\ Held(l) \in Nat
         /\ Held(l)' = Held(l) - HeldFrom(order, allocation, l)[o]
                               + HeldFrom(order', allocation', l)[o]
<1> DEFINE f == HeldFrom(order, allocation, l)
           h == HeldFrom(order', allocation', l)
<1>1. \A p \in Orders : f[p] \in Int
  BY HeldNat
<1>2. \A p \in Orders : h[p] \in Int
  BY DEF HeldFrom
<1>3. \A p \in Orders : p # o => h[p] = f[p]
  BY DEF HeldFrom, Holds
<1>4. Held(l) = SumFunctionOnSet(f, Orders) /\ Held(l) \in Nat
  BY HeldNat
<1>5. Held(l)' = SumFunctionOnSet(h, Orders)
  BY HeldNextIs
<1> HIDE DEF f, h
<1>6. SumFunctionOnSet(h, Orders) = SumFunctionOnSet(f, Orders) - f[o] + h[o]
  BY <1>1, <1>2, <1>3, OrdersFinite, SumChange
<1> QED BY <1>4, <1>5, <1>6 DEF f, h

LEMMA PreorderChange ==
  ASSUME Typed, order' \in [Orders -> Line], NEW o \in Orders, NEW x,
         \A p \in Orders : p # o => order'[p] = order[p]
  PROVE  /\ SumFunctionOnSet(PreorderOf(order, x), Orders) \in Nat
         /\ PreorderOf(order, x)[o] \in Nat /\ PreorderOf(order', x)[o] \in Nat
         /\ SumFunctionOnSet(PreorderOf(order', x), Orders)
              = SumFunctionOnSet(PreorderOf(order, x), Orders)
                  - PreorderOf(order, x)[o] + PreorderOf(order', x)[o]
<1> DEFINE f == PreorderOf(order, x)
           h == PreorderOf(order', x)
<1>1. \A p \in Orders : f[p] \in Nat /\ h[p] \in Nat
  BY TypedFacts DEF PreorderOf, Line
<1>2. \A p \in Orders : f[p] \in Int /\ h[p] \in Int
  BY <1>1
<1>3. \A p \in Orders : p # o => h[p] = f[p]
  BY DEF PreorderOf, Holds
<1> HIDE DEF f, h
<1>4. SumFunctionOnSet(h, Orders) = SumFunctionOnSet(f, Orders) - f[o] + h[o]
  BY <1>2, <1>3, OrdersFinite, SumChange
<1>5. SumFunctionOnSet(f, Orders) \in Nat
  BY <1>1, OrdersFinite, SumNat
<1> QED BY <1>1, <1>4, <1>5 DEF f, h

\* What a reservation writes.
LEMMA ReserveFacts ==
  ASSUME LInv, NEW o \in Orders, NEW a \in Articles, NEW q \in Nat, Reserve(o, a, q)
  PROVE  /\ lots' = Consumed(Only(a, q))
         /\ stock' = [stock EXCEPT ![a] = @ - q]
         /\ order[o].status = "absent"
         /\ order' \in [Orders -> Line] /\ allocation' \in [Orders -> [LotIds -> Nat]]
         /\ \A p \in Orders : p # o => order'[p] = order[p] /\ allocation'[p] = allocation[p]
         /\ allocation'[o] = Taken(a, q)
         /\ order'[o].status = "open" /\ order'[o].article = a /\ order'[o].quantity = q
         /\ order'[o].preordered + SumFunctionOnSet(Taken(a, q), LotIds) = q
         /\ SumFunctionOnSet(Taken(a, q), LotIds) \in Nat
<1> DEFINE t == Taken(a, q)
           s == SumFunctionOnSet(t, LotIds)
           line == [status |-> "open", article |-> a, quantity |-> q,
                    preordered |-> AtLeastZero(q - s)]
<1>1. IsBook(lots) /\ order \in [Orders -> Line] /\ allocation \in [Orders -> [LotIds -> Nat]]
  BY TypedFacts DEF LInv
<1>2. t \in [LotIds -> Nat]
  BY <1>1, TakenType
<1>3. s \in Nat /\ s <= q
  <2> DEFINE R == Remaining(Consumable(a))
  <2>1. R \in Nat
    BY <1>1, ContentSplit
  <2>2. s = IF q <= R THEN q ELSE R
    BY <1>1, TakenSum
  <2> HIDE DEF R, s
  <2> QED BY <2>1, <2>2
<1>4. /\ lots' = Consumed(Only(a, q))
      /\ stock' = [stock EXCEPT ![a] = @ - q]
      /\ order[o].status = "absent"
      /\ allocation' = [allocation EXCEPT ![o] = t]
      /\ order' = [order EXCEPT ![o] = line]
  BY DEF Reserve
<1> HIDE DEF t, s
<1>5. AtLeastZero(q - s) = q - s /\ q - s \in Nat
  BY <1>3, AtLeastZeroIs
<1>6. line \in Line /\ line.status = "open" /\ line.article = a /\ line.quantity = q
      /\ line.preordered = q - s
  BY <1>5 DEF Line
<1> HIDE DEF line
<1>7. /\ order' \in [Orders -> Line] /\ order'[o] = line
      /\ allocation' \in [Orders -> [LotIds -> Nat]] /\ allocation'[o] = t
      /\ \A p \in Orders : p # o => order'[p] = order[p] /\ allocation'[p] = allocation[p]
  BY <1>1, <1>2, <1>4, <1>6
<1>8. line.preordered + s = q
  BY <1>3, <1>6
<1> QED BY <1>3, <1>4, <1>6, <1>7, <1>8 DEF t, s

LEMMA ReserveNeutral ==
  ASSUME LInv, NEW CONSTANT o \in Orders, NEW a \in Articles, NEW q \in Nat, Reserve(o, a, q)
  PROVE  OrderNeutral
<1> DEFINE t == Taken(a, q)
           need == Only(a, q)
<1>1. Typed /\ IsBook(lots) /\ stock \in [Items -> Int] /\ a \in Items /\ a \notin Matieres
  BY TypedFacts, LedgerAssumption DEF LInv, Items
<1>2. need \in [Items -> Nat] /\ need[a] = q /\ \A y \in Items : y # a => need[y] = 0
  BY <1>1, OnlyIs
<1>3. /\ lots' = Consumed(need)
      /\ stock' = [stock EXCEPT ![a] = @ - q]
      /\ order[o].status = "absent"
      /\ order' \in [Orders -> Line] /\ allocation' \in [Orders -> [LotIds -> Nat]]
      /\ \A p \in Orders : p # o => order'[p] = order[p] /\ allocation'[p] = allocation[p]
      /\ allocation'[o] = t
      /\ order'[o].status = "open" /\ order'[o].article = a
      /\ order'[o].preordered + SumFunctionOnSet(t, LotIds) = q
      /\ SumFunctionOnSet(t, LotIds) \in Nat
  BY ReserveFacts
<1>4. today' = today /\ overdrawn' = overdrawn
  BY DEF Reserve
<1>5. t \in [LotIds -> Nat] /\ \A l \in LotIds : l \notin Consumable(a) => t[l] = 0
  BY <1>1, TakenType
<1> HIDE DEF need
<1>6. /\ IsBook(lots') /\ DOMAIN lots' = DOMAIN lots
      /\ \A l \in DOMAIN lots :
           /\ lots'[l].item = lots[l].item /\ lots'[l].initial = lots[l].initial
           /\ lots'[l].remaining
                = lots[l].remaining - Taken(lots[l].item, need[lots[l].item])[l]
  BY <1>1, <1>2, <1>3, ConsumedFacts
<1>7. ASSUME NEW l \in DOMAIN lots
      PROVE  Taken(lots[l].item, need[lots[l].item])[l] = t[l]
  <2>1. lots[l].item \in Items /\ l \in LotIds
    BY <1>1, BookFacts
  <2>2. CASE lots[l].item = a
    BY <1>2, <2>2
  <2>3. CASE lots[l].item # a
    <3>1. need[lots[l].item] = 0
      BY <1>2, <2>1, <2>3
    <3>2. Taken(lots[l].item, 0)[l] = 0
      BY <1>1, <2>1, TakenType
    <3>3. t[l] = 0
      BY <1>5, <2>1, <2>3 DEF Consumable, LotsOf
    <3> QED BY <3>1, <3>2, <3>3
  <2> QED BY <2>2, <2>3
<1>8. /\ stock' \in [Items -> Int] /\ stock'[a] = stock[a] - q
      /\ \A y \in Items : stock[y] \in Int /\ (y # a => stock'[y] = stock[y])
  BY <1>1, <1>3
<1>9. \A m \in Matieres : stock'[m] = stock[m]
  BY <1>1, <1>8 DEF Items
<1>10. ASSUME NEW CONSTANT l \in LotIds, l \in DOMAIN lots
       PROVE  lots'[l].remaining + Held(l)' = lots[l].remaining + Held(l)
  <2>1. /\ Held(l) \in Nat
        /\ Held(l)' = Held(l) - HeldFrom(order, allocation, l)[o]
                              + HeldFrom(order', allocation', l)[o]
    BY <1>1, <1>3, HeldChange
  <2>2. HeldFrom(order, allocation, l)[o] = 0 /\ HeldFrom(order', allocation', l)[o] = t[l]
    BY <1>3 DEF HeldFrom, Holds
  <2>3. lots'[l].remaining = lots[l].remaining - t[l]
    BY <1>6, <1>7, <1>10
  <2>4. lots[l].remaining \in Nat /\ t[l] \in Nat
    BY <1>1, <1>5, <1>10, BookFacts
  <2> HIDE DEF t
  <2> QED BY <2>1, <2>2, <2>3, <2>4
<1>11. ASSUME NEW x \in Items
       PROVE  Book(stock', lots', order', x) = Book(stock, lots, order, x)
  <2> DEFINE c == SumFunctionOnSet(ContentOf(lots, x), LotIds)
             d == SumFunctionOnSet(ContentOf(lots', x), LotIds)
             p == SumFunctionOnSet(PreorderOf(order, x), Orders)
             r == SumFunctionOnSet(PreorderOf(order', x), Orders)
             u == SumFunctionOnSet(Taken(x, need[x]), LotIds)
  <2>1. Book(stock', lots', order', x) = stock'[x] - d + r
    BY DEF Book
  <2>2. Book(stock, lots, order, x) = stock[x] - c + p
    BY DEF Book
  <2>3. c \in Nat /\ p \in Nat
    BY <1>1, BookParts
  <2>4. d = c - u
    BY <1>1, <1>2, <1>3, ConsumedContent
  <2>5. r = p - PreorderOf(order, x)[o] + PreorderOf(order', x)[o]
    BY <1>1, <1>3, PreorderChange
  <2>6. PreorderOf(order, x)[o] = 0
    BY <1>3 DEF PreorderOf, Holds
  <2>7. PreorderOf(order', x)[o] = IF x = a THEN order'[o].preordered ELSE 0
    BY <1>3 DEF PreorderOf, Holds
  <2>8. order'[o].preordered \in Nat
    BY <1>3 DEF Line
  <2>9. CASE x = a
    <3>1. u = SumFunctionOnSet(t, LotIds)
      BY <1>2, <2>9
    <3>2. stock'[x] = stock[x] - q /\ stock[x] \in Int
      BY <1>8, <2>9
    <3> HIDE DEF c, d, p, r, u, t
    <3> QED BY <1>3, <2>1, <2>2, <2>3, <2>4, <2>5, <2>6, <2>7, <2>8, <2>9, <3>1, <3>2
  <2>10. CASE x # a
    <3>1. need[x] = 0
      BY <1>2, <2>10
    <3>2. \A l \in LotIds : Taken(x, 0)[l] = 0
      BY <1>1, TakenType
    <3>3. u = 0
      BY <3>1, <3>2, LotIdsFinite, SumZero
    <3>4. stock'[x] = stock[x] /\ stock[x] \in Int
      BY <1>8, <2>10
    <3> HIDE DEF c, d, p, r, u
    <3> QED BY <2>1, <2>2, <2>3, <2>4, <2>5, <2>6, <2>7, <2>10, <3>3, <3>4
  <2> QED BY <2>9, <2>10
<1>12. DOMAIN lots \subseteq LotIds
  BY <1>1, BookFacts
<1> QED BY <1>3, <1>4, <1>6, <1>8, <1>9, <1>10, <1>11, <1>12 DEF OrderNeutral

\* What a release writes.
LEMMA ReleaseFacts ==
  ASSUME LInv, NEW o \in Orders, Release(o)
  PROVE  /\ order[o].status = "open" /\ order[o].article \in Articles
         /\ order[o].quantity = order[o].preordered + SumFunctionOnSet(allocation[o], LotIds)
         /\ order[o].quantity \in Nat /\ order[o].preordered \in Nat
         /\ stock' = [stock EXCEPT ![order[o].article] = @ + order[o].quantity]
         /\ order' \in [Orders -> Line] /\ allocation' = allocation
         /\ \A p \in Orders : p # o => order'[p] = order[p]
         /\ order'[o] = [order[o] EXCEPT !.status = "released"]
         /\ order'[o].status = "released" /\ order'[o].article = order[o].article
         /\ order'[o].quantity = order[o].quantity
         /\ order'[o].preordered = order[o].preordered
         /\ IsBook(lots') /\ DOMAIN lots' = DOMAIN lots
         /\ \A l \in DOMAIN lots :
              /\ lots'[l].item = lots[l].item /\ lots'[l].initial = lots[l].initial
              /\ lots'[l].remaining = lots[l].remaining + allocation[o][l]
<1>1. IsBook(lots) /\ order \in [Orders -> Line] /\ allocation \in [Orders -> [LotIds -> Nat]]
  BY TypedFacts DEF LInv
<1>2. /\ order[o].status = "open"
      /\ stock' = [stock EXCEPT ![order[o].article] = @ + order[o].quantity]
      /\ lots' = [l \in DOMAIN lots |->
                    [lots[l] EXCEPT !.remaining = @ + allocation[o][l]]]
      /\ order' = [order EXCEPT ![o].status = "released"]
      /\ allocation' = allocation
  BY DEF Release
<1>3. order[o] \in Line
  BY <1>1
<1>4. /\ order[o].article \in Articles
      /\ order[o].quantity = order[o].preordered + SumFunctionOnSet(allocation[o], LotIds)
  BY <1>2 DEF LInv, LinesAddUp
<1>5. order[o].quantity \in Nat /\ order[o].preordered \in Nat
  BY <1>3 DEF Line
<1>6. /\ order'[o] = [order[o] EXCEPT !.status = "released"]
      /\ \A p \in Orders : p # o => order'[p] = order[p]
  BY <1>1, <1>2
<1>7. /\ order'[o] \in Line
      /\ order'[o].status = "released" /\ order'[o].article = order[o].article
      /\ order'[o].quantity = order[o].quantity
      /\ order'[o].preordered = order[o].preordered
  BY <1>3, <1>6 DEF Line
<1>8. order' \in [Orders -> Line]
  BY <1>1, <1>2, <1>7
<1>9. ASSUME NEW l \in DOMAIN lots
      PROVE  /\ lots'[l] \in Lot
             /\ lots'[l].item = lots[l].item /\ lots'[l].initial = lots[l].initial
             /\ lots'[l].remaining = lots[l].remaining + allocation[o][l]
  <2>1. lots[l] \in Lot /\ allocation[o][l] \in Nat
    BY <1>1, BookFacts
  <2>2. lots'[l] = [lots[l] EXCEPT !.remaining = @ + allocation[o][l]]
    BY <1>2
  <2> QED BY <2>1, <2>2 DEF Lot
<1>10. IsBook(lots') /\ DOMAIN lots' = DOMAIN lots
  <2>1. DOMAIN lots = 1..Len(lots) /\ Len(lots) \in Nat /\ Len(lots) <= MaxLots
    BY <1>1, BookFacts DEF IsBook
  <2>2. DOMAIN lots' = DOMAIN lots /\ lots' = [l \in 1..Len(lots) |-> lots'[l]]
    BY <1>2, <2>1
  <2>3. lots' \in [1..Len(lots) -> Lot]
    BY <1>9, <2>1, <2>2
  <2> QED BY <2>1, <2>2, <2>3 DEF IsBook
<1> QED BY <1>2, <1>4, <1>5, <1>6, <1>7, <1>8, <1>9, <1>10

LEMMA ReleaseNeutral ==
  ASSUME LInv, NEW CONSTANT o \in Orders, Release(o) PROVE OrderNeutral
<1> DEFINE a == order[o].article
           q == order[o].quantity
           t == allocation[o]
<1>1. Typed /\ IsBook(lots) /\ stock \in [Items -> Int]
      /\ allocation \in [Orders -> [LotIds -> Nat]] /\ AllocationIsOfLots
  BY TypedFacts DEF LInv
<1>2. /\ order[o].status = "open" /\ a \in Articles /\ q \in Nat
      /\ q = order[o].preordered + SumFunctionOnSet(t, LotIds)
      /\ order[o].preordered \in Nat
      /\ stock' = [stock EXCEPT ![a] = @ + q]
      /\ order' \in [Orders -> Line] /\ allocation' = allocation
      /\ \A p \in Orders : p # o => order'[p] = order[p]
      /\ order'[o].status = "released"
      /\ IsBook(lots') /\ DOMAIN lots' = DOMAIN lots
      /\ \A l \in DOMAIN lots :
           /\ lots'[l].item = lots[l].item /\ lots'[l].initial = lots[l].initial
           /\ lots'[l].remaining = lots[l].remaining + t[l]
  BY ReleaseFacts
<1>3. today' = today /\ overdrawn' = overdrawn
  BY DEF Release
<1>4. /\ \A l \in LotIds : t[l] \in Nat
      /\ \A l \in LotIds : t[l] # 0 => l \in DOMAIN lots /\ lots[l].item = a
  BY <1>1 DEF AllocationIsOfLots
<1>5. a \in Items /\ a \notin Matieres
  BY <1>2, LedgerAssumption DEF Items
<1> HIDE DEF a, q
<1>6. /\ stock' \in [Items -> Int] /\ stock'[a] = stock[a] + q
      /\ \A y \in Items : stock[y] \in Int /\ (y # a => stock'[y] = stock[y])
  BY <1>1, <1>2, <1>5
<1>7. \A m \in Matieres : stock'[m] = stock[m]
  BY <1>5, <1>6 DEF Items
<1>8. ASSUME NEW CONSTANT l \in LotIds, l \in DOMAIN lots
      PROVE  lots'[l].remaining + Held(l)' = lots[l].remaining + Held(l)
  <2>1. /\ Held(l) \in Nat
        /\ Held(l)' = Held(l) - HeldFrom(order, allocation, l)[o]
                              + HeldFrom(order', allocation', l)[o]
    BY <1>1, <1>2, HeldChange
  <2>2. HeldFrom(order, allocation, l)[o] = t[l] /\ HeldFrom(order', allocation', l)[o] = 0
    BY <1>2 DEF HeldFrom, Holds
  <2>3. lots'[l].remaining = lots[l].remaining + t[l]
    BY <1>2, <1>8
  <2>4. lots[l].remaining \in Nat /\ t[l] \in Nat
    BY <1>1, <1>4, <1>8, BookFacts
  <2> HIDE DEF t
  <2> QED BY <2>1, <2>2, <2>3, <2>4
<1>9. ASSUME NEW x \in Items
      PROVE  Book(stock', lots', order', x) = Book(stock, lots, order, x)
  <2> DEFINE f == ContentOf(lots, x)
             h == ContentOf(lots', x)
             c == SumFunctionOnSet(f, LotIds)
             d == SumFunctionOnSet(h, LotIds)
             p == SumFunctionOnSet(PreorderOf(order, x), Orders)
             r == SumFunctionOnSet(PreorderOf(order', x), Orders)
  <2>1. Book(stock', lots', order', x) = stock'[x] - d + r
    BY DEF Book
  <2>2. Book(stock, lots, order, x) = stock[x] - c + p
    BY DEF Book
  <2>3. c \in Nat /\ p \in Nat
    BY <1>1, BookParts
  <2>4. r = p - PreorderOf(order, x)[o] + PreorderOf(order', x)[o]
    BY <1>1, <1>2, PreorderChange
  <2>5. PreorderOf(order', x)[o] = 0
    BY <1>2 DEF PreorderOf, Holds
  <2>6. PreorderOf(order, x)[o] = IF x = a THEN order[o].preordered ELSE 0
    BY <1>2 DEF PreorderOf, Holds, a
  <2>7. \A l \in LotIds : f[l] \in Nat /\ h[l] \in Nat
    BY <1>1, <1>2, ContentType
  <2>8. CASE x = a
    <3>1. ASSUME NEW l \in LotIds PROVE h[l] = f[l] + t[l]
      <4>1. CASE l \in DOMAIN lots /\ lots[l].item = x
        BY <1>2, <4>1 DEF ContentOf
      <4>2. CASE ~(l \in DOMAIN lots /\ lots[l].item = x)
        <5>1. h[l] = 0 /\ f[l] = 0
          BY <1>2, <4>2 DEF ContentOf
        <5>2. t[l] = 0
          BY <1>4, <2>8, <4>2
        <5> QED BY <5>1, <5>2
      <4> QED BY <4>1, <4>2
    <3> HIDE DEF f, h, t
    <3>2. d = c + SumFunctionOnSet(t, LotIds)
      BY <1>4, <2>7, <3>1, LotIdsFinite, SumPlus
    <3>3. SumFunctionOnSet(t, LotIds) \in Nat
      BY <1>4, LotIdsFinite, SumNat
    <3>4. stock'[x] = stock[x] + q /\ stock[x] \in Int
      BY <1>6, <2>8
    <3> HIDE DEF c, d, p, r
    <3> QED BY <1>2, <2>1, <2>2, <2>3, <2>4, <2>5, <2>6, <2>8, <3>2, <3>3, <3>4
  <2>9. CASE x # a
    <3>1. ASSUME NEW l \in LotIds PROVE h[l] = f[l]
      <4>1. CASE l \in DOMAIN lots /\ lots[l].item = x
        <5>1. t[l] = 0 /\ lots[l].remaining \in Nat
          BY <1>1, <1>4, <2>9, <4>1, BookFacts
        <5> QED BY <1>2, <4>1, <5>1 DEF ContentOf
      <4>2. CASE ~(l \in DOMAIN lots /\ lots[l].item = x)
        BY <1>2, <4>2 DEF ContentOf
      <4> QED BY <4>1, <4>2
    <3> HIDE DEF f, h
    <3>2. d = c
      BY <3>1, LotIdsFinite, SumEqual
    <3>3. stock'[x] = stock[x] /\ stock[x] \in Int
      BY <1>6, <2>9
    <3> HIDE DEF c, d, p, r
    <3> QED BY <2>1, <2>2, <2>3, <2>4, <2>5, <2>6, <2>9, <3>2, <3>3
  <2> QED BY <2>8, <2>9
<1>10. DOMAIN lots \subseteq LotIds
  BY <1>1, BookFacts
<1> QED BY <1>1, <1>2, <1>3, <1>6, <1>7, <1>8, <1>9, <1>10 DEF OrderNeutral

LEMMA DeliverFacts ==
  ASSUME Typed, NEW CONSTANT o \in Orders, Deliver(o)
  PROVE  /\ OrderNeutral /\ lots' = lots /\ allocation' = allocation
         /\ order[o].status = "open"
         /\ \A p \in Orders : p # o => order'[p] = order[p]
         /\ order'[o].article = order[o].article /\ order'[o].quantity = order[o].quantity
         /\ order'[o].preordered = order[o].preordered
<1>1. /\ order[o].status = "open" /\ order' = [order EXCEPT ![o].status = "delivered"]
      /\ stock' = stock /\ lots' = lots /\ allocation' = allocation
      /\ today' = today /\ overdrawn' = overdrawn
  BY DEF Deliver
<1>2. /\ IsBook(lots) /\ stock \in [Items -> Int] /\ order \in [Orders -> Line]
      /\ allocation \in [Orders -> [LotIds -> Nat]]
  BY TypedFacts
<1>3. order'[o] = [order[o] EXCEPT !.status = "delivered"] /\ order[o] \in Line
      /\ \A p \in Orders : p # o => order'[p] = order[p]
  BY <1>1, <1>2
<1>4. /\ order'[o] \in Line /\ order'[o].status = "delivered"
      /\ order'[o].article = order[o].article /\ order'[o].quantity = order[o].quantity
      /\ order'[o].preordered = order[o].preordered
  BY <1>3 DEF Line
<1>5. order' \in [Orders -> Line]
  BY <1>1, <1>2, <1>4
<1>6. \A p \in Orders : Holds(order', p) <=> Holds(order, p)
  BY <1>1, <1>3, <1>4 DEF Holds
<1>7. ASSUME NEW CONSTANT l \in LotIds PROVE Held(l)' = Held(l)
  <2>1. HeldFrom(order', allocation', l) = HeldFrom(order, allocation, l)
    BY <1>1, <1>6 DEF HeldFrom
  <2>2. Held(l)' = SumFunctionOnSet(HeldFrom(order', allocation', l), Orders)
    BY <1>1, <1>2, HeldNextIs
  <2> QED BY <2>1, <2>2, HeldNat
<1>8. ASSUME NEW x \in Items
      PROVE  Book(stock', lots', order', x) = Book(stock, lots, order, x)
  <2>1. PreorderOf(order', x) = PreorderOf(order, x)
    <3>1. \A p \in Orders : order'[p].article = order[p].article
                            /\ order'[p].preordered = order[p].preordered
      BY <1>3, <1>4
    <3> QED BY <1>6, <3>1 DEF PreorderOf
  <2> QED BY <1>1, <2>1 DEF Book
<1>9. OrderNeutral
  BY <1>1, <1>2, <1>5, <1>7, <1>8, BookFacts DEF OrderNeutral, Items
<1> QED BY <1>1, <1>3, <1>4, <1>9

\* The other lines stay what they are.
LEMMA OtherLines ==
  ASSUME LInv, NEW o \in Orders, IsBook(lots'), DOMAIN lots' = DOMAIN lots,
         \A l \in DOMAIN lots : lots'[l].item = lots[l].item,
         \A p \in Orders : p # o => order'[p] = order[p] /\ allocation'[p] = allocation[p],
         \A l \in LotIds : allocation'[o][l] # 0 =>
           l \in DOMAIN lots /\ lots[l].item = order'[o].article,
         order'[o].article \in Articles,
         order'[o].quantity = order'[o].preordered + SumFunctionOnSet(allocation'[o], LotIds)
  PROVE  AllocationIsOfLots' /\ LinesAddUp'
<1>1. LotIds' = LotIds
  BY DEF LotIds
<1>2. AllocationIsOfLots'
  <2>1. ASSUME NEW p \in Orders, NEW l \in LotIds, allocation'[p][l] # 0
        PROVE  l \in DOMAIN lots' /\ lots'[l].item = order'[p].article
    <3>1. CASE p = o
      BY <2>1, <3>1
    <3>2. CASE p # o
      <4>1. allocation[p][l] # 0 /\ order'[p] = order[p]
        BY <2>1, <3>2
      <4>2. l \in DOMAIN lots /\ lots[l].item = order[p].article
        BY <4>1 DEF LInv, AllocationIsOfLots
      <4> QED BY <4>1, <4>2
    <3> QED BY <3>1, <3>2
  <2> QED BY <1>1, <2>1 DEF AllocationIsOfLots
<1>3. LinesAddUp'
  <2>1. ASSUME NEW p \in Orders, order'[p].status # "absent"
        PROVE  /\ order'[p].article \in Articles
               /\ order'[p].quantity
                    = order'[p].preordered + SumFunctionOnSet(allocation'[p], LotIds)
    <3>1. CASE p = o
      BY <3>1
    <3>2. CASE p # o
      <4>1. allocation'[p] = allocation[p] /\ order'[p] = order[p]
        BY <3>2
      <4>2. /\ order[p].article \in Articles
            /\ order[p].quantity
                 = order[p].preordered + SumFunctionOnSet(allocation[p], LotIds)
        BY <2>1, <4>1 DEF LInv, LinesAddUp
      <4> QED BY <4>1, <4>2
    <3> QED BY <3>1, <3>2
  <2> QED BY <1>1, <2>1 DEF LinesAddUp
<1> QED BY <1>2, <1>3

LEMMA ReserveKeeps ==
  ASSUME LInv, NEW CONSTANT o \in Orders, NEW a \in Articles, NEW q \in Quantities,
         Reserve(o, a, q)
  PROVE  LInv' /\ OrderNeutral
<1>1. q \in Nat /\ IsBook(lots)
  BY QuantitiesAreNat, TypedFacts DEF LInv
<1>2. OrderNeutral
  BY <1>1, ReserveNeutral
<1>3. /\ \A p \in Orders : p # o => order'[p] = order[p] /\ allocation'[p] = allocation[p]
      /\ allocation'[o] = Taken(a, q)
      /\ order'[o].article = a /\ order'[o].quantity = q
      /\ order'[o].preordered + SumFunctionOnSet(Taken(a, q), LotIds) = q
  BY <1>1, ReserveFacts
<1>4. \A l \in LotIds : allocation'[o][l] # 0 =>
        l \in DOMAIN lots /\ lots[l].item = order'[o].article
  <2>1. \A l \in LotIds : l \notin Consumable(a) => Taken(a, q)[l] = 0
    BY <1>1, TakenType
  <2> QED BY <1>3, <2>1 DEF Consumable, LotsOf
<1>5. AllocationIsOfLots' /\ LinesAddUp'
  <2>1. order'[o].quantity = order'[o].preordered + SumFunctionOnSet(allocation'[o], LotIds)
    BY <1>3
  <2> QED BY <1>2, <1>3, <1>4, <2>1, OtherLines DEF OrderNeutral
<1> QED BY <1>2, <1>5, OrderStepKeeps

LEMMA ReleaseKeeps ==
  ASSUME LInv, NEW CONSTANT o \in Orders, Release(o)
  PROVE  LInv' /\ OrderNeutral
<1>1. OrderNeutral
  BY ReleaseNeutral
<1>2. /\ order[o].article \in Articles
      /\ order[o].quantity = order[o].preordered + SumFunctionOnSet(allocation[o], LotIds)
      /\ allocation' = allocation
      /\ \A p \in Orders : p # o => order'[p] = order[p]
      /\ order'[o].article = order[o].article
      /\ order'[o].quantity = order[o].quantity
      /\ order'[o].preordered = order[o].preordered
  BY ReleaseFacts
<1>3. \A l \in LotIds : allocation'[o][l] # 0 =>
        l \in DOMAIN lots /\ lots[l].item = order'[o].article
  BY <1>2 DEF LInv, AllocationIsOfLots
<1>4. AllocationIsOfLots' /\ LinesAddUp'
  BY <1>1, <1>2, <1>3, OtherLines DEF OrderNeutral
<1> QED BY <1>1, <1>4, OrderStepKeeps

LEMMA DeliverKeeps ==
  ASSUME LInv, NEW CONSTANT o \in Orders, Deliver(o)
  PROVE  LInv' /\ OrderNeutral
<1>1. /\ OrderNeutral /\ lots' = lots /\ allocation' = allocation
      /\ order[o].status = "open"
      /\ \A p \in Orders : p # o => order'[p] = order[p]
      /\ order'[o].article = order[o].article /\ order'[o].quantity = order[o].quantity
      /\ order'[o].preordered = order[o].preordered
  BY DeliverFacts DEF LInv
<1>2. /\ order[o].article \in Articles
      /\ order[o].quantity = order[o].preordered + SumFunctionOnSet(allocation[o], LotIds)
  BY <1>1 DEF LInv, LinesAddUp
<1>3. \A l \in LotIds : allocation'[o][l] # 0 =>
        l \in DOMAIN lots /\ lots[l].item = order'[o].article
  BY <1>1 DEF LInv, AllocationIsOfLots
<1>4. AllocationIsOfLots' /\ LinesAddUp'
  BY <1>1, <1>2, <1>3, OtherLines DEF OrderNeutral
<1> QED BY <1>1, <1>4, OrderStepKeeps

-----------------------------------------------------------------------------
(* The theorems.                                                           *)

LEMMA LedgerInit == Init => LInv
<1> SUFFICES ASSUME Init PROVE LInv
  OBVIOUS
<1> USE DEF Init
<1>1. Typed
  <2>1. NoLine \in Line
    BY DEF NoLine, Line
  <2>2. \A m \in Matieres : stock[m] >= 0
    BY DEF Items
  <2> QED BY <2>1, <2>2, BoundsAreNat DEF Typed, LedgerTypeOK, Dates
<1>2. AllocationIsOfLots
  BY DEF AllocationIsOfLots
<1>3. LinesAddUp
  BY DEF LinesAddUp, NoLine
<1>4. LotsNeverOverdrawn
  BY DEF LotsNeverOverdrawn
<1>5. LedgerCoversLots
  <2>1. ASSUME NEW x \in Items PROVE Undated(x) >= 0
    <3>1. \A l \in LotIds : ContentOf(lots, x)[l] = 0
      BY DEF ContentOf
    <3>2. SumFunctionOnSet(ContentOf(lots, x), LotIds) = 0
      BY <3>1, LotIdsFinite, SumZero
    <3>3. stock[x] = 0
      OBVIOUS
    <3>4. /\ SumFunctionOnSet(PreorderOf(order, x), Orders) \in Nat
          /\ Undated(x) = Book(stock, lots, order, x)
      BY <1>1, BookParts
    <3> QED BY <3>2, <3>3, <3>4 DEF Book
  <2> QED BY <2>1 DEF LedgerCoversLots
<1> QED BY <1>1, <1>2, <1>3, <1>4, <1>5 DEF LInv

LEMMA LedgerNext == LInv /\ [Next]_vars => LInv'
<1> SUFFICES ASSUME LInv, [Next]_vars PROVE LInv'
  OBVIOUS
<1>1. ASSUME NEW CONSTANT o \in Orders, OrderStep(o) PROVE LInv'
  BY <1>1, ReserveKeeps, ReleaseKeeps, DeliverKeeps DEF OrderStep
<1>2. ASSUME NEW q \in Quantities, Movement(q) PROVE LInv'
  BY <1>2, SellKeeps, ProduceKeeps, EnterKeeps, WithdrawKeeps DEF Movement
<1>3. ASSUME NEW l \in DOMAIN lots, MarkLotAsLoss(l) PROVE LInv'
  BY <1>3, LossKeeps
<1>4. CASE NextDay
  BY <1>4, NextDayKeeps
<1>5. CASE UNCHANGED vars
  BY <1>5 DEF vars, LInv, Typed, LedgerTypeOK, AllocationIsOfLots, LinesAddUp,
       LotsNeverOverdrawn, Held, LedgerCoversLots, Undated, Remaining, LotsOf, PreorderedAs
<1> QED BY <1>1, <1>2, <1>3, <1>4, <1>5 DEF Next

(***************************************************************************)
(* The figures, the lots and the lines keep their types and signs, and no  *)
(* figure of a raw material falls below zero.                              *)
(***************************************************************************)
THEOREM LedgerKeepsItsTypes == Spec => []LedgerTypeOK
<1>1. LInv => LedgerTypeOK
  BY DEF LInv, Typed
<1> QED BY <1>1, LedgerInit, LedgerNext, PTL DEF Spec

(***************************************************************************)
(* Whatever is sold, used, written off and released, a lot and the orders  *)
(* that drew on it stay within what the lot was created with, so a release *)
(* always fits (restoreLineStockAllocations).                              *)
(***************************************************************************)
THEOREM ReleaseAlwaysFits == Spec => []LotsNeverOverdrawn
<1>1. LInv => LotsNeverOverdrawn
  BY DEF LInv
<1> QED BY <1>1, LedgerInit, LedgerNext, PTL DEF Spec

(***************************************************************************)
(* The figure of every item that no withdrawal took below its expired lots *)
(* covers its lots, less what orders preordered (createAjustement is the   *)
(* only operation that may break it).                                      *)
(***************************************************************************)
THEOREM FiguresCoverLots == Spec => []LedgerCoversLots
<1>1. LInv => LedgerCoversLots
  BY DEF LInv
<1> QED BY <1>1, LedgerInit, LedgerNext, PTL DEF Spec

(***************************************************************************)
(* A reservation, a release and a delivery leave what an item has beyond   *)
(* its lots, and what a lot and its orders have together, as they were     *)
(* (reserve, restoreReservedStock).                                        *)
(***************************************************************************)
THEOREM OrdersOnlyMoveStock == Spec => OrdersAreNeutral
<1> DEFINE Neutral ==
      order' # order =>
        /\ \A x \in Items : Undated(x)' = Undated(x)
        /\ \A l \in DOMAIN lots :
             (lots[l].remaining + Held(l))' = lots[l].remaining + Held(l)
<1>1. LInv /\ [Next]_vars => [Neutral]_vars
  <2> SUFFICES ASSUME LInv, [Next]_vars, order' # order PROVE Neutral
    OBVIOUS
  <2>1. \E o \in Orders : OrderStep(o)
    BY DEF Next, vars, Movement, Sell, Produce, Enter, Withdraw, MarkLotAsLoss, NextDay
  <2>2. OrderNeutral
    BY <2>1, ReserveKeeps, ReleaseKeeps, DeliverKeeps DEF OrderStep
  <2>3. ASSUME NEW x \in Items PROVE Undated(x)' = Undated(x)
    <3>1. Undated(x)' = Book(stock', lots', order', x)
      BY <2>2, UndatedNextIs DEF OrderNeutral
    <3>2. Undated(x) = Book(stock, lots, order, x)
      BY BookParts DEF LInv
    <3> QED BY <2>2, <3>1, <3>2 DEF OrderNeutral
  <2> QED BY <2>2, <2>3 DEF OrderNeutral
<1> QED BY <1>1, LedgerInit, LedgerNext, PTL DEF Spec, OrdersAreNeutral

\* A lot that loses something is drawn on in its turn, or written off.
LEMMA HowALotShrinks ==
  ASSUME LInv, [Next]_vars, NEW k \in DOMAIN lots, NEW l \in DOMAIN lots,
         lots'[l].remaining < lots[l].remaining
  PROVE  \/ /\ ~Expired(l)
            /\ (/\ lots[k].item = lots[l].item /\ ~Expired(k)
                /\ lots[k].expiresAt < lots[l].expiresAt) => lots'[k].remaining = 0
         \/ MarkLotAsLoss(l)
<1> DEFINE InTurn ==
      /\ ~Expired(l)
      /\ (/\ lots[k].item = lots[l].item /\ ~Expired(k)
          /\ lots[k].expiresAt < lots[l].expiresAt) => lots'[k].remaining = 0
<1>1. Typed /\ IsBook(lots) /\ lots[l].remaining \in Nat
      /\ allocation \in [Orders -> [LotIds -> Nat]] /\ l \in LotIds
  BY TypedFacts, BookFacts DEF LInv
<1>2. ASSUME NEW x \in Items, NEW q \in Quantities, lots' = Consumed(Only(x, q)) PROVE InTurn
  <2> DEFINE need == Only(x, q)
             ls == lots'
  <2>1. need \in [Items -> Nat]
    BY OnlyIs, QuantitiesAreNat
  <2>2. ls = Consumed(need) /\ ls[l].remaining < lots[l].remaining
    BY <1>2
  <2> HIDE DEF need, ls
  <2>3. /\ ~Expired(l)
        /\ (/\ lots[k].item = lots[l].item /\ ~Expired(k)
            /\ lots[k].expiresAt < lots[l].expiresAt) => ls[k].remaining = 0
    BY <1>1, <2>1, <2>2, ConsumedInOrder
  <2> QED BY <2>3 DEF ls
<1>3. ASSUME NEW o \in Orders, NEW a \in Articles, NEW q \in Quantities, Reserve(o, a, q)
      PROVE  InTurn
  BY <1>2, <1>3 DEF Reserve, Items
<1>4. ASSUME NEW a \in Articles, NEW q \in Quantities, Sell(a, q) PROVE InTurn
  BY <1>2, <1>4 DEF Sell, Items
<1>5. ASSUME NEW x \in Items, NEW q \in Quantities, Withdraw(x, q) PROVE InTurn
  BY <1>2, <1>5 DEF Withdraw
<1>6. ASSUME NEW a \in Articles, NEW q \in Quantities, NEW date \in Dates \cup {NoDate},
             Produce(a, q, date)
      PROVE  InTurn
  <2>1. q \in Nat /\ a \in Items
    BY QuantitiesAreNat DEF Items
  <2>0. PICK need \in [Items -> Nat] :
          /\ lots' = Entered(Consumed(need), a, q, date)
          /\ date = NoDate \/ Len(Consumed(need)) < MaxLots
    BY <1>1, <1>6, <2>1, ProduceShrinks
  <2> DEFINE ls == Consumed(need)
  <2> HIDE DEF ls
  <2>2. /\ ls = Consumed(need) /\ lots' = Entered(ls, a, q, date)
        /\ date = NoDate \/ Len(ls) < MaxLots
    BY <2>0 DEF ls
  <2>3. IsBook(ls) /\ DOMAIN ls = DOMAIN lots
    BY <1>1, <2>2, ConsumedFacts
  <2>4. \A j \in DOMAIN lots : lots'[j] = ls[j]
    BY <2>1, <2>2, <2>3, EnteredFacts
  <2>5. ls[l].remaining < lots[l].remaining
    BY <2>4
  <2>6. /\ ~Expired(l)
        /\ (/\ lots[k].item = lots[l].item /\ ~Expired(k)
            /\ lots[k].expiresAt < lots[l].expiresAt) => ls[k].remaining = 0
    BY <1>1, <2>2, <2>5, ConsumedInOrder
  <2> QED BY <2>4, <2>6
<1>7. ASSUME NEW x \in Items, NEW q \in Quantities, NEW date \in Dates \cup {NoDate},
             Enter(x, q, date)
      PROVE  FALSE
  <2>1. lots' = Entered(lots, x, q, date) /\ (date = NoDate \/ Len(lots) < MaxLots)
        /\ q \in Nat
    BY <1>7, QuantitiesAreNat DEF Enter, HasRoom
  <2>2. lots'[l] = lots[l]
    BY <1>1, <2>1, EnteredFacts
  <2> QED BY <1>1, <2>2
<1>8. ASSUME NEW o \in Orders, Release(o) PROVE FALSE
  <2>1. lots'[l].remaining = lots[l].remaining + allocation[o][l]
    BY <1>8, ReleaseFacts
  <2>2. allocation[o][l] \in Nat
    BY <1>1
  <2> QED BY <1>1, <2>1, <2>2
<1>9. ASSUME lots' = lots PROVE FALSE
  BY <1>1, <1>9
<1>10. ASSUME NEW j \in DOMAIN lots, MarkLotAsLoss(j) PROVE j = l
  <2>1. j # l => lots'[l] = lots[l]
    BY <1>1, <1>10, LossFacts
  <2> QED BY <1>1, <2>1
<1> HIDE DEF InTurn
<1>11. ASSUME NEW o \in Orders, OrderStep(o) PROVE InTurn
  BY <1>3, <1>8, <1>9, <1>11 DEF OrderStep, Deliver
<1>12. ASSUME NEW q \in Quantities, Movement(q) PROVE InTurn
  BY <1>4, <1>5, <1>6, <1>7, <1>12 DEF Movement
<1>13. NextDay \/ UNCHANGED vars => FALSE
  BY <1>9 DEF NextDay, vars
<1>14. InTurn \/ MarkLotAsLoss(l)
  BY <1>10, <1>11, <1>12, <1>13 DEF Next
<1> QED BY <1>14 DEF InTurn

(***************************************************************************)
(* First expired, first out, for every operation that takes from the lots, *)
(* production with any recipe included (consumeLots).                      *)
(***************************************************************************)
THEOREM LotsAreUsedInOrder == Spec => FirstExpiredFirstOut
<1> DEFINE InOrder ==
      \A k, l \in DOMAIN lots :
       /\ lots[k].item = lots[l].item
       /\ ~Expired(k)
       /\ lots[k].expiresAt < lots[l].expiresAt
       /\ lots'[l].remaining < lots[l].remaining
       => lots'[k].remaining = 0
<1>1. LInv /\ [Next]_vars => [InOrder]_vars
  <2> SUFFICES ASSUME LInv, [Next]_vars, NEW k \in DOMAIN lots, NEW l \in DOMAIN lots,
                      lots[k].item = lots[l].item, ~Expired(k),
                      lots[k].expiresAt < lots[l].expiresAt,
                      lots'[l].remaining < lots[l].remaining
               PROVE  lots'[k].remaining = 0
    OBVIOUS
  <2>1. CASE MarkLotAsLoss(l)
    <3>1. lots[k].expiresAt \in Int /\ lots[l].expiresAt \in Int /\ today \in Int
      BY TypedFacts, BookFacts, BoundsAreNat DEF LInv, Typed, LedgerTypeOK, Dates
    <3> QED BY <2>1, <3>1 DEF MarkLotAsLoss, Expired
  <2> QED BY <2>1, HowALotShrinks
<1> QED BY <1>1, LedgerInit, LedgerNext, PTL DEF Spec, FirstExpiredFirstOut

(***************************************************************************)
(* What has expired leaves its lot as a whole and with the stock, as a     *)
(* loss, and in no other way (markLotAsLoss).                              *)
(***************************************************************************)
THEOREM ExpiredLeavesAsLoss == Spec => ExpiredOnlyLeavesAsLoss
<1> DEFINE AsLoss ==
      \A l \in DOMAIN lots :
       Expired(l) /\ lots'[l].remaining < lots[l].remaining =>
         /\ lots'[l].remaining = 0
         /\ stock'[lots[l].item] = stock[lots[l].item] - lots[l].remaining
<1>1. LInv /\ [Next]_vars => [AsLoss]_vars
  <2> SUFFICES ASSUME LInv, [Next]_vars, NEW l \in DOMAIN lots, Expired(l),
                      lots'[l].remaining < lots[l].remaining
               PROVE  /\ lots'[l].remaining = 0
                      /\ stock'[lots[l].item] = stock[lots[l].item] - lots[l].remaining
    OBVIOUS
  <2>1. MarkLotAsLoss(l)
    BY HowALotShrinks
  <2> QED BY <2>1, LossFacts DEF LInv
<1> QED BY <1>1, LedgerInit, LedgerNext, PTL DEF Spec, ExpiredOnlyLeavesAsLoss
==============================================================================
