------------------------------- MODULE RateLimit -------------------------------
(***************************************************************************)
(* The limit on checkouts (checkout-rate-limit.middleware.ts), and with    *)
(* other numbers on analytics visits (analytics-rate-limit.middleware.ts): *)
(* each address has a window that begins with its first request and counts *)
(* what passes until it ends.                                              *)
(*                                                                         *)
(* One process, whose memory is lost when it restarts; its clock does not  *)
(* go back.  An address stands for all ways to write it; a request whose   *)
(* address cannot be told has a random key to itself and always passes.    *)
(***************************************************************************)
EXTENDS Integers, FiniteSetsExt

CONSTANTS
  Addresses,      \* client addresses
  WindowTicks,    \* windowMs
  MaxRequests,    \* per window
  TicksPerSecond,
  LastTick        \* bound on time

ASSUME RateLimitAssumption ==
  /\ WindowTicks \in Nat \ {0}
  /\ MaxRequests \in Nat \ {0}
  /\ TicksPerSecond \in Nat \ {0}
  /\ LastTick \in Nat

VARIABLES
  tick,     \* the time
  entries,  \* the window of each address
  passed,   \* how many requests of an address passed, at each tick
  comeBack  \* when an address refused in this window was told to come back

limitVars == <<tick, entries, passed, comeBack>>

NoEntry == [count |-> 0, resetAt |-> 0]

Forget ==
  /\ entries' = [a \in Addresses |-> NoEntry]
  /\ passed' = [a \in Addresses |-> [t \in 0..LastTick |-> 0]]
  /\ comeBack' = [a \in Addresses |-> 0]

RateLimitInit ==
  /\ tick = 0
  /\ entries = [a \in Addresses |-> NoEntry]
  /\ passed = [a \in Addresses |-> [t \in 0..LastTick |-> 0]]
  /\ comeBack = [a \in Addresses |-> 0]

TickPasses ==
  /\ tick < LastTick
  /\ tick' = tick + 1
  /\ UNCHANGED <<entries, passed, comeBack>>

Restart == Forget /\ UNCHANGED tick

WindowIsOver(entry) == entry.resetAt <= tick

\* Variant: one request too many.
WindowIsFullLate(entry) == entry.count > MaxRequests

WindowIsFull(entry) == entry.count >= MaxRequests

\* Whole seconds until the window ends, at least one.
RetryAfter(entry) ==
  LET seconds == (entry.resetAt - tick + TicksPerSecond - 1) \div TicksPerSecond
  IN  IF seconds < 1 THEN 1 ELSE seconds

Passes(a) == passed' = [passed EXCEPT ![a][tick] = @ + 1]

StartWindow(a) ==
  /\ WindowIsOver(entries[a])
  /\ entries' = [entries EXCEPT ![a] = [count |-> 1, resetAt |-> tick + WindowTicks]]
  /\ Passes(a)
  /\ comeBack' = [comeBack EXCEPT ![a] = 0]
  /\ UNCHANGED tick

CountRequest(a) ==
  /\ ~ WindowIsOver(entries[a]) /\ ~ WindowIsFull(entries[a])
  /\ entries' = [entries EXCEPT ![a].count = @ + 1]
  /\ Passes(a)
  /\ UNCHANGED <<tick, comeBack>>

RefuseRequest(a) ==
  /\ ~ WindowIsOver(entries[a]) /\ WindowIsFull(entries[a])
  /\ comeBack' = [comeBack EXCEPT ![a] = tick + TicksPerSecond * RetryAfter(entries[a])]
  /\ UNCHANGED <<tick, entries, passed>>

RateLimitNext ==
  \/ TickPasses
  \/ Restart
  \/ \E a \in Addresses : StartWindow(a) \/ CountRequest(a) \/ RefuseRequest(a)

RateLimitSpec == RateLimitInit /\ [][RateLimitNext]_limitVars

-----------------------------------------------------------------------------
(* Properties.                                                             *)

\* How many requests of an address passed from tick `from' on, up to `to'.
PassedFrom(a, from, to) == SumFunctionOnSet(passed[a], from..to)

\* Wherever a window's length is laid over the requests of one process, across
\* the end of a window included, at most twice the maximum passed in it; and
\* whoever waits as long as Retry-After says finds the window ended.
RateIsBounded ==
  \A a \in Addresses :
    /\ \A t \in 0..tick :
         PassedFrom(a, t, IF t + WindowTicks - 1 < tick THEN t + WindowTicks - 1 ELSE tick)
           <= 2 * MaxRequests
    /\ comeBack[a] # 0 => comeBack[a] >= entries[a].resetAt
=============================================================================
