----------------------------- MODULE VisitSessions -----------------------------
(***************************************************************************)
(* Visits of the shop: what one browser keeps in localStorage for all of   *)
(* its tabs (shop/src/lib/analytics.ts, shop-analytics.tsx), the calls it  *)
(* sends, and the sessions the API counts (analytics.service.ts,           *)
(* analytics-identity.service.ts).                                         *)
(*                                                                         *)
(* The API reads its clock before it waits for a connection and for the    *)
(* lock of the visitor: what it writes may be up to MaxLag old.  An        *)
(* identifier stands for its hash.                                         *)
(***************************************************************************)
EXTENDS Integers, FiniteSets

CONSTANTS
  Tabs,
  SessionWindow,    \* ANALYTICS_SESSION_WINDOW_MS, SESSION_WINDOW_MS
  PingInterval,     \* ANALYTICS_ACTIVITY_PING_MS
  ConsentRetention, VisitorRetention, RowRetention,
  MaxLag,           \* how long a transaction may take
  MaxTime, MaxId, MaxCalls  \* bounds: time, identifiers, calls under way

ASSUME VisitAssumption ==
  {SessionWindow, PingInterval, ConsentRetention, VisitorRetention,
   RowRetention, MaxLag, MaxTime, MaxId, MaxCalls} \subseteq Nat

VARIABLES
  time,
  \* localStorage
  choice,     \* the consent and when it was saved
  visitor,    \* its identifier and when it was created
  session,    \* its identifier, its last activity, when it was last sent
  \* the browser
  tabChoice,  \* the consent as each open tab knows it
  lastId,     \* the identifiers created
  calls,      \* what was sent and has not been written
  \* the API
  sessionRows,  \* AnalyticsSession
  lastSeen      \* AnalyticsVisitor.lastSeenAt, of the visitors that have a row

storageVars == <<choice, visitor, session>>
browserVars == <<storageVars, tabChoice, lastId>>
serverVars == <<sessionRows, lastSeen>>
visitVars == <<time, browserVars, calls, serverVars>>

Nothing == 0  \* no identifier; identifiers are 1..MaxId
Never == -1

NoChoice == [value |-> "none", savedAt |-> Never]
NoVisitor == [id |-> Nothing, createdAt |-> Never]
NoSession == [id |-> Nothing, activity |-> Never, sent |-> Never]

VisitInit ==
  /\ time = 0
  /\ choice = NoChoice /\ visitor = NoVisitor /\ session = NoSession
  /\ tabChoice = [t \in Tabs |-> "none"]
  /\ lastId = 0
  /\ calls = {}
  /\ sessionRows = {}
  /\ lastSeen = [v \in {} |-> 0]

Clock ==
  /\ time < MaxTime
  /\ time' = time + 1
  /\ UNCHANGED <<browserVars, calls, serverVars>>

-----------------------------------------------------------------------------
(* The browser.                                                            *)

\* readAnalyticsConsent: a choice that is too old is none.
ReadAnalyticsConsent ==
  IF choice # NoChoice /\ time - choice.savedAt >= ConsentRetention THEN NoChoice ELSE choice

\* A page is loaded in a tab: its first render reads the choice.
LoadPage(t) ==
  /\ choice' = ReadAnalyticsConsent
  /\ tabChoice' = [tabChoice EXCEPT ![t] = choice'.value]
  /\ UNCHANGED <<time, visitor, session, lastId, calls, serverVars>>

\* Variant: the identifiers stay.
SelectChoiceOnly(t, v) ==
  /\ choice' = [value |-> v, savedAt |-> time]
  /\ tabChoice' = [tabChoice EXCEPT ![t] = v]
  /\ UNCHANGED <<time, visitor, session, lastId, calls, serverVars>>

\* selectChoice, writeAnalyticsConsent: other tabs keep the choice they know.
SelectChoice(t, v) ==
  /\ choice' = [value |-> v, savedAt |-> time]
  /\ IF v = "denied" THEN visitor' = NoVisitor /\ session' = NoSession
     ELSE UNCHANGED <<visitor, session>>
  /\ tabChoice' = [tabChoice EXCEPT ![t] = v]
  /\ UNCHANGED <<time, lastId, calls, serverVars>>

VisitorToUse ==
  IF visitor = NoVisitor \/ time - visitor.createdAt >= VisitorRetention
  THEN [id |-> lastId + 1, createdAt |-> time] ELSE visitor

\* A new visitor has no session; one without activity for too long is over.
SessionToUse ==
  LET stored == IF VisitorToUse = visitor THEN session ELSE NoSession
  IN  IF stored = NoSession \/ time - stored.activity >= SessionWindow
      THEN [id |-> (IF VisitorToUse = visitor THEN lastId ELSE lastId + 1) + 1,
            activity |-> time, sent |-> Never]
      ELSE stored

ShouldTrack(s) == s.sent = Never \/ time - s.sent >= PingInterval

\* getAnalyticsContext, for a page that goes on with `kind' when that applies.
GetAnalyticsContext(kind) ==
  /\ Cardinality(calls) < MaxCalls
  /\ choice' = ReadAnalyticsConsent
  /\ IF choice'.value # "granted"
     THEN UNCHANGED <<visitor, session, lastId, calls>>
     ELSE LET v == VisitorToUse
              s == SessionToUse
              sending == kind = "checkout" \/ ShouldTrack(s)
          IN  /\ v.id <= MaxId /\ s.id <= MaxId
              /\ visitor' = v
              /\ session' = [id |-> s.id, activity |-> time,
                             sent |-> IF ShouldTrack(s) THEN time ELSE s.sent]
              /\ lastId' = IF s.id > lastId THEN s.id ELSE lastId
              /\ calls' = IF sending
                          THEN calls \cup {[kind |-> kind, visitor |-> v.id,
                                            session |-> s.id, at |-> Never]}
                          ELSE calls

\* A click, a key, the tab shown again, or the effect after a choice.
TrackActivity(t) ==
  /\ tabChoice[t] = "granted"
  /\ GetAnalyticsContext("visit")
  /\ UNCHANGED <<time, tabChoice, serverVars>>

\* The checkout page asks whatever the tab knows.
CheckoutIdentifiers(t) ==
  /\ GetAnalyticsContext("checkout")
  /\ UNCHANGED <<time, tabChoice, serverVars>>

-----------------------------------------------------------------------------
(* The API.                                                                *)

Replaced(c, new) == (calls \ {c}) \cup new

LoseCall(c) ==
  /\ calls' = Replaced(c, {})
  /\ UNCHANGED <<time, browserVars, serverVars>>

\* `now = new Date()'
ReadClock(c) ==
  /\ c.at = Never
  /\ calls' = Replaced(c, {[c EXCEPT !.at = time]})
  /\ UNCHANGED <<time, browserVars, serverVars>>

InTime(c) == c.at # Never /\ time - c.at <= MaxLag

Touched(r, now) == (sessionRows \ {r}) \cup {[r EXCEPT !.last = now]}

Seen(v, now) ==
  lastSeen' = [w \in DOMAIN lastSeen \cup {v} |-> IF w = v THEN now ELSE lastSeen[w]]

SameSession(c) == {r \in sessionRows : r.session = c.session}

\* Variant: a session that was active exactly a window ago is over.
ActiveStrictly(c) ==
  {r \in sessionRows : r.visitor = c.visitor /\ r.last > c.at - SessionWindow}

ActiveSessions(c) ==
  {r \in sessionRows : r.visitor = c.visitor /\ r.last >= c.at - SessionWindow}

\* trackVisit, under the lock of the visitor's row.
TrackVisit(c) ==
  /\ c.kind = "visit" /\ InTime(c)
  /\ \A r \in SameSession(c) : r.visitor = c.visitor
  /\ \/ \E r \in SameSession(c) : sessionRows' = Touched(r, c.at)
     \/ /\ SameSession(c) = {}
        /\ \E r \in ActiveSessions(c) :
             /\ \A q \in ActiveSessions(c) : q.last <= r.last
             /\ sessionRows' = Touched(r, c.at)
     \/ /\ SameSession(c) = {} /\ ActiveSessions(c) = {}
        /\ sessionRows' = sessionRows \cup {[session |-> c.session, visitor |-> c.visitor,
                               start |-> c.at, last |-> c.at]}
  /\ Seen(c.visitor, c.at)
  /\ calls' = Replaced(c, {})
  /\ UNCHANGED <<time, browserVars>>

\* resolveAttributionBestEffort: the checkout keeps a known session alive.
ResolveAttribution(c) ==
  /\ c.kind = "checkout" /\ InTime(c)
  /\ LET mine == {r \in SameSession(c) : r.visitor = c.visitor}
     IN  sessionRows' = (sessionRows \ mine) \cup {[r EXCEPT !.last = c.at] : r \in mine}
  /\ Seen(c.visitor, c.at)
  /\ calls' = Replaced(c, {})
  /\ UNCHANGED <<time, browserVars>>

\* cleanupExpiredData; the sessions of a visitor go with it.
CleanupExpiredData ==
  LET kept == {v \in DOMAIN lastSeen : lastSeen[v] >= time - RowRetention}
  IN  /\ lastSeen' = [v \in kept |-> lastSeen[v]]
      /\ sessionRows' = {r \in sessionRows : r.last >= time - RowRetention /\ r.visitor \in kept}
      /\ UNCHANGED <<time, browserVars, calls>>

VisitNext ==
  \/ Clock
  \/ \E t \in Tabs : \/ LoadPage(t) \/ TrackActivity(t) \/ CheckoutIdentifiers(t)
                     \/ \E v \in {"granted", "denied"} : SelectChoice(t, v)
  \/ \E c \in calls : LoseCall(c) \/ ReadClock(c) \/ TrackVisit(c) \/ ResolveAttribution(c)
  \/ CleanupExpiredData

VisitSpec == VisitInit /\ [][VisitNext]_visitVars

-----------------------------------------------------------------------------
(* Properties.                                                             *)

\* Two visits that are counted for one visitor began more than a session
\* window apart, but for the time a transaction takes, however many tabs call,
\* and although a late call sets the activity of a session back.
VisitsApart ==
  \A r, s \in sessionRows :
    r # s /\ r.visitor = s.visitor =>
      \/ r.start - s.start > SessionWindow - MaxLag
      \/ s.start - r.start > SessionWindow - MaxLag

\* After a refusal no identifier is left in the browser, and none comes back
\* from a tab that still believes in the consent given before.
NoIdentifierAfterRefusal ==
  choice.value = "denied" => visitor = NoVisitor /\ session = NoSession
=============================================================================
