----------------------------- MODULE CashRegister -----------------------------
(***************************************************************************)
(* Sales over the counter and the closing of the day's till                *)
(* (ventes.service.ts, caisse.service.ts, money.ts).  A sale is one        *)
(* transaction, dated when it begins; a closing is three statements that   *)
(* are not one.                                                            *)
(*                                                                         *)
(* Time is counted in hours UTC.  A day is that of the clock of Paris,     *)
(* which is one hour ahead of UTC, two between Spring and Autumn.          *)
(***************************************************************************)
EXTENDS Integers, Sequences, FiniteSetsExt

CONSTANTS
  Sales,           \* the sales that may be made
  Clerks,          \* requests to close the till
  Instants,        \* the hours at which something may happen
  Spring, Autumn,  \* the hours at which the clocks change, both 01:00 UTC
  Tickets          \* what may be sold: lines, discount in cents, mode

Modes == {"cb", "especes", "cheque"}

\* What CreateVenteDto and CreateArticleDto let through.
LineOfSale == [prixCents : Nat, quantite : Nat, tvaBps : Nat]
Ticket == [lines : Seq(LineOfSale), remise : Nat, mode : Modes]

ASSUME CashAssumption ==
  /\ IsFiniteSet(Sales)
  /\ Tickets \subseteq Ticket
  /\ Spring \in Int /\ Spring % 24 = 1
  /\ Autumn \in Int /\ Autumn % 24 = 1
  /\ Spring < Autumn
  /\ Instants \subseteq Int

VARIABLES
  hour,      \* the time
  ventes,    \* the sales
  journees,  \* the JourneeCaisse rows
  clerk      \* the closing requests

cashVars == <<hour, ventes, journees, clerk>>

-----------------------------------------------------------------------------
(* Days.                                                                   *)

Offset(h) == IF Spring <= h /\ h < Autumn THEN 2 ELSE 1
ParisDay(h) == (h + Offset(h)) \div 24

\* Variant: the day is taken from midnight to midnight UTC.
UtcMidnight(day) == 24 * day

\* zonedTimeToUtc for midnight of a day: midnight UTC, less the offset then.
ParisMidnight(day) == 24 * day - Offset(24 * day)

ParisDayBounds(h) == [start |-> ParisMidnight(ParisDay(h)),
                      end   |-> ParisMidnight(ParisDay(h) + 1)]

-----------------------------------------------------------------------------
(* Amounts, in cents.                                                      *)

\* Math.round(n / d).
Rounded(n, d) == (2 * n + d) \div (2 * d)

CalculateHtFromTtc(ttc, tvaBps) == Rounded(ttc * 10000, 10000 + tvaBps)

LineTtc(line) == line.prixCents * line.quantite
LineHt(line) == CalculateHtFromTtc(LineTtc(line), line.tvaBps)

SumOfLines(lines, f(_)) ==
  SumFunctionOnSet([n \in DOMAIN lines |-> f(lines[n])], DOMAIN lines)

\* The discount lowers the total, the net amount follows in proportion.
DiscountedTtc(ttc, remise) == IF remise > ttc THEN 0 ELSE ttc - remise
DiscountedHt(ht, ttc, total) == IF ttc > 0 THEN Rounded(ht * total, ttc) ELSE ht

TicketAmounts(lines, remise) ==
  LET ttc == SumOfLines(lines, LineTtc)
      ht == SumOfLines(lines, LineHt)
      total == DiscountedTtc(ttc, remise)
  IN  [ttc |-> total, ht |-> DiscountedHt(ht, ttc, total)]

-----------------------------------------------------------------------------
(* Sales.                                                                  *)

NoSale == [state |-> "none", date |-> 0, mode |-> "cb", ttc |-> 0, ht |-> 0]
Idle == [state |-> "idle", start |-> 0, end |-> 0, seen |-> {}, totals |-> {}]

CashInit ==
  /\ hour \in Instants /\ \A h \in Instants : hour <= h
  /\ ventes = [s \in Sales |-> NoSale]
  /\ journees = {}
  /\ clerk = [c \in Clerks |-> Idle]

HourPasses ==
  /\ \E h \in Instants : h > hour /\ hour' = h
  /\ UNCHANGED <<ventes, journees, clerk>>

BeginSale(s) ==
  /\ ventes[s].state = "none"
  /\ \E ticket \in Tickets :
       LET amounts == TicketAmounts(ticket.lines, ticket.remise)
       IN  ventes' = [ventes EXCEPT ![s] =
                       [state |-> "open", date |-> hour, mode |-> ticket.mode,
                        ttc |-> amounts.ttc, ht |-> amounts.ht]]
  /\ UNCHANGED <<hour, journees, clerk>>

\* The transaction commits, or the stock does not suffice.
EndSale(s) ==
  /\ ventes[s].state = "open"
  /\ ventes' \in {[ventes EXCEPT ![s].state = "done"], [ventes EXCEPT ![s] = NoSale]}
  /\ UNCHANGED <<hour, journees, clerk>>

-----------------------------------------------------------------------------
(* Closing the till.                                                       *)

Committed == {s \in Sales : ventes[s].state = "done"}

SoldBetween(start, end) ==
  {s \in Committed : start <= ventes[s].date /\ ventes[s].date < end}

TotalOf(S, field) == SumFunctionOnSet([s \in S |-> ventes[s][field]], S)

\* CaisseTotals: the sales, the amounts with and without tax, per mode.
CalculateTotals(sold) ==
  [ventes  |-> sold,
   ttc     |-> TotalOf(sold, "ttc"),
   ht      |-> TotalOf(sold, "ht"),
   tva     |-> SumFunctionOnSet([s \in sold |-> ventes[s].ttc - ventes[s].ht], sold),
   parMode |-> [m \in Modes |-> TotalOf({s \in sold : ventes[s].mode = m}, "ttc")]]

DayClosed(start) == \E j \in journees : j.date = start

\* closeToday, first read: nothing is done for a day that is closed.
BeginClosing(c) ==
  /\ clerk[c].state = "idle"
  /\ LET bounds == ParisDayBounds(hour)
     IN  /\ ~ DayClosed(bounds.start)
         /\ clerk' = [clerk EXCEPT ![c] =
              [state |-> "checked", start |-> bounds.start, end |-> bounds.end,
               seen |-> SoldBetween(bounds.start, bounds.end), totals |-> {}]]
  /\ UNCHANGED <<hour, ventes, journees>>

\* Second read.
ReadTotals(c) ==
  /\ clerk[c].state = "checked"
  /\ clerk' = [clerk EXCEPT ![c].state = "totalled",
       ![c].totals = {CalculateTotals(SoldBetween(clerk[c].start, clerk[c].end))}]
  /\ UNCHANGED <<hour, ventes, journees>>

\* The row is inserted, unless the unique date makes it fail.
CreateJournee(c) ==
  /\ clerk[c].state = "totalled"
  /\ journees' = IF DayClosed(clerk[c].start) THEN journees
                 ELSE journees \cup {[date |-> clerk[c].start, seen |-> clerk[c].seen,
                                      totals |-> t] : t \in clerk[c].totals}
  /\ clerk' = [clerk EXCEPT ![c] = Idle]
  /\ UNCHANGED <<hour, ventes>>

GiveUpClosing(c) ==
  /\ clerk[c].state # "idle"
  /\ clerk' = [clerk EXCEPT ![c] = Idle]
  /\ UNCHANGED <<hour, ventes, journees>>

CashNext ==
  \/ HourPasses
  \/ \E s \in Sales : BeginSale(s) \/ EndSale(s)
  \/ \E c \in Clerks : BeginClosing(c) \/ ReadTotals(c) \/ CreateJournee(c)
                         \/ GiveUpClosing(c)

CashSpec == CashInit /\ [][CashNext]_cashVars

-----------------------------------------------------------------------------
(* Properties.                                                             *)

\* A closing counts, once and for all, sales of its own Paris day only, among
\* them every one that was made when its request began, its parts add up to its
\* total, and no sale is counted twice, whatever is sold or closed at the same
\* time and also on the nights the clocks change.
ClosingsAddUp ==
  /\ \A j \in journees :
       LET t == j.totals
       IN  /\ j.seen \subseteq t.ventes
           /\ \A s \in t.ventes : ParisMidnight(ParisDay(ventes[s].date)) = j.date
           /\ t.ht + t.tva = t.ttc
           /\ 0 <= t.ht /\ t.ht <= t.ttc
           /\ t.parMode["cb"] + t.parMode["especes"] + t.parMode["cheque"] = t.ttc
  /\ \A j, k \in journees : j.date = k.date => j = k
  /\ \A j, k \in journees : j.totals.ventes \cap k.totals.ventes # {} => j = k
=============================================================================
