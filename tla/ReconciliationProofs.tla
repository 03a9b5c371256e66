------------------------- MODULE ReconciliationProofs -------------------------
(***************************************************************************)
(* The safety of Reconciliation for any cases, workers, batch size, limit  *)
(* of attempts and number of disturbances.                                 *)
(***************************************************************************)
EXTENDS Reconciliation, TLAPS

\* What a worker will write, once it has asked Stripe, unless it asks again.
OutcomeIsKnown ==
  \A w \in Workers :
    IF job[w].at = NoCase THEN job[w].outcome = "none" ELSE job[w].outcome # "none"

\* The case in hand left the batch.
InHandOnce == \A w \in Workers : job[w].at \notin job[w].todo

\* A worker that will write resolved has seen a session that stays expired, or
\* misread one that stays paid; one that is to expire a session has found it open.
OutcomeFits(c, outcome) ==
  CASE outcome = "open"     -> c \in Expiring /\ session[c] # "missing"
    [] outcome = "resolved" -> c \in Expiring /\ session[c] = "expired"
    [] outcome = "misread"  -> c \in Expiring /\ session[c] = "paid"
    [] OTHER -> TRUE

ResolvedIsExpired == \A w \in Workers : OutcomeFits(job[w].at, job[w].outcome)

\* Whatever decides a case takes it from its owner.
OwnedIsPending == \A c \in Cases : row[c].owner # NoWorker => row[c].status = "pending"

\* Whatever counts an attempt takes the case from its owner.
OwnerKnowsAttempts ==
  \A w \in Workers, c \in Cases :
    row[c].owner = w /\ HasInHand(w, c) => seen[w][c] = row[c].attempts

QInv ==
  /\ ReconciliationTypeOK
  /\ OutcomeIsKnown
  /\ InHandOnce
  /\ ResolvedIsExpired
  /\ OwnedIsPending
  /\ OwnerKnowsAttempts

-----------------------------------------------------------------------------

LEMMA QInvHoldsInitially == Init => QInv
<1> SUFFICES ASSUME Init PROVE QInv
  OBVIOUS
<1>1. NoRow \in Row /\ Idle \in Job
  BY DEF NoRow, Row, Idle, Job
<1>2. ReconciliationTypeOK
  BY <1>1, ReconciliationAssumption DEF Init, ReconciliationTypeOK
<1>3. \A w \in Workers : job[w].at = NoCase /\ job[w].todo = {}
                         /\ job[w].outcome = "none"
  BY DEF Init, Idle
<1>4. \A c \in Cases : row[c].owner = NoWorker
  BY DEF Init, NoRow
<1> QED
  BY <1>2, <1>3, <1>4, ReconciliationAssumption
  DEF QInv, OutcomeIsKnown, InHandOnce, ResolvedIsExpired, OutcomeFits,
      OwnedIsPending, OwnerKnowsAttempts

\* The order code and the staff take the row they write from its owner.
LEMMA UnclaimedKeepsQInv ==
  ASSUME QInv, NEW c \in Cases, NEW status \in Decided \cup {"pending"},
         NEW attempts \in Nat, row' = Unclaimed(c, status, attempts),
         disturbances' \in 0..MaxDisturbances, UNCHANGED <<session, job, seen>>
  PROVE  QInv'
<1> DEFINE new == [status |-> status, attempts |-> attempts, due |-> TRUE,
                   owner |-> NoWorker, lease |-> "none"]
<1>1. new \in Row /\ row \in [Cases -> Row]
  BY DEF Row, QInv, ReconciliationTypeOK
<1>2. row' = [row EXCEPT ![c] = new]
  BY DEF Unclaimed
<1>3. row'[c] = new /\ row' \in [Cases -> Row]
      /\ \A d \in Cases : d # c => row'[d] = row[d]
  BY <1>1, <1>2
<1>4. row'[c].owner = NoWorker
  BY <1>3
<1>5. ReconciliationTypeOK'
  BY <1>3 DEF QInv, ReconciliationTypeOK
<1>6. OutcomeIsKnown' /\ InHandOnce' /\ ResolvedIsExpired'
  BY DEF QInv, OutcomeIsKnown, InHandOnce, ResolvedIsExpired, OutcomeFits
<1>7. OwnedIsPending'
  BY <1>3, <1>4 DEF QInv, OwnedIsPending
<1>8. OwnerKnowsAttempts'
  BY <1>3, <1>4, ReconciliationAssumption
  DEF QInv, OwnerKnowsAttempts, HasInHand
<1> QED
  BY <1>5, <1>6, <1>7, <1>8 DEF QInv

LEMMA DisturbCounts ==
  ASSUME ReconciliationTypeOK, Disturb \/ UNCHANGED disturbances
  PROVE  disturbances' \in 0..MaxDisturbances
  BY ReconciliationAssumption DEF ReconciliationTypeOK, Disturb

\* Time touches neither the owner, nor the status, nor the count.
LEMMA ClockKeeps ==
  ASSUME row \in [Cases -> Row], NEW c \in Cases, LeaseEnds(c) \/ BecomesDue(c)
  PROVE  /\ row' \in [Cases -> Row]
         /\ \A d \in Cases : /\ row'[d].owner = row[d].owner
                             /\ row'[d].status = row[d].status
                             /\ row'[d].attempts = row[d].attempts
<1> DEFINE over == [row[c] EXCEPT !.lease = "over"]
           due == [row[c] EXCEPT !.due = TRUE]
<1>1. \A new \in {over, due} :
        /\ new \in Row
        /\ new.owner = row[c].owner /\ new.status = row[c].status
        /\ new.attempts = row[c].attempts
  BY DEF Row
<1>2. PICK new \in {over, due} : row' = [row EXCEPT ![c] = new]
  BY DEF LeaseEnds, BecomesDue
<1> HIDE DEF over, due
<1> QED
  BY <1>1, <1>2

\* A claim only changes the owner and the lease.
LEMMA ClaimKeeps ==
  ASSUME row \in [Cases -> Row], NEW w \in Workers, Claim(w), NEW c \in Cases
  PROVE  row'[c].status = row[c].status /\ row'[c].attempts = row[c].attempts
<1>1. row'[c] = row[c] \/ row'[c] = [row[c] EXCEPT !.owner = w, !.lease = "live"]
  BY DEF Claim
<1> QED
  BY <1>1 DEF Row

LEMMA QInvIsInductive == QInv /\ [Next]_vars => QInv'
<1> SUFFICES ASSUME QInv, [Next]_vars PROVE QInv'
  OBVIOUS
<1>t. /\ ReconciliationTypeOK
      /\ row \in [Cases -> Row] /\ job \in [Workers -> Job]
      /\ session \in [Expiring -> {"open", "paid", "expired", "missing"}]
      /\ seen \in [Workers -> [Cases -> Nat]]
      /\ disturbances \in 0..MaxDisturbances
  BY DEF QInv, ReconciliationTypeOK
<1>1. ASSUME NEW c \in Cases, Record(c) PROVE QInv'
  <2>1. PICK tried \in {0, 1} :
          row' = Unclaimed(c,
                   IF c \in Unmatched THEN "manual_review" ELSE "pending",
                   IF row[c].status \in {"absent", "resolved"} THEN tried
                   ELSE row[c].attempts + tried)
    BY <1>1 DEF Record
  <2>2. row[c].attempts \in Nat
    BY <1>t DEF Row
  <2>3. disturbances' \in 0..MaxDisturbances
    BY <1>1, <1>t, DisturbCounts DEF Record
  <2>4. UNCHANGED <<session, job, seen>>
    BY <1>1 DEF Record
  <2> DEFINE status == IF c \in Unmatched THEN "manual_review" ELSE "pending"
             attempts == IF row[c].status \in {"absent", "resolved"} THEN tried
                         ELSE row[c].attempts + tried
  <2>5. status \in Decided \cup {"pending"} /\ attempts \in Nat
    BY <2>2 DEF Decided
  <2>6. row' = Unclaimed(c, status, attempts)
    BY <2>1
  <2> HIDE DEF status, attempts
  <2> QED
    BY <2>3, <2>4, <2>5, <2>6, UnclaimedKeepsQInv
<1>2. ASSUME NEW c \in Cases, Retry(c) PROVE QInv'
  <2>1. row[c].attempts \in Nat /\ row' = Unclaimed(c, "pending", row[c].attempts)
        /\ UNCHANGED <<session, job, seen>>
    BY <1>2, <1>t DEF Retry, Row
  <2>2. disturbances' \in 0..MaxDisturbances
    BY <1>2, <1>t, DisturbCounts DEF Retry
  <2> QED
    BY <2>1, <2>2, UnclaimedKeepsQInv DEF Decided
<1>3. ASSUME NEW c \in Cases, ResolveManually(c) PROVE QInv'
  <2>1. row[c].attempts \in Nat /\ row' = Unclaimed(c, "resolved", row[c].attempts)
        /\ UNCHANGED <<session, job, seen, disturbances>>
    BY <1>3, <1>t DEF ResolveManually, Row
  <2> QED
    BY <1>t, <2>1, UnclaimedKeepsQInv DEF Decided
<1>4. ASSUME NEW c \in Cases, LeaseEnds(c) \/ BecomesDue(c) PROVE QInv'
  <2>1. disturbances' \in 0..MaxDisturbances /\ UNCHANGED <<session, job, seen>>
    BY <1>4, <1>t, DisturbCounts DEF LeaseEnds, BecomesDue
  <2>2. /\ row' \in [Cases -> Row]
        /\ \A d \in Cases : /\ row'[d].owner = row[d].owner
                            /\ row'[d].status = row[d].status
                            /\ row'[d].attempts = row[d].attempts
    BY <1>4, <1>t, ClockKeeps
  <2>3. ReconciliationTypeOK'
    BY <1>t, <2>1, <2>2 DEF ReconciliationTypeOK
  <2>4. OutcomeIsKnown' /\ InHandOnce' /\ ResolvedIsExpired'
    BY <2>1 DEF QInv, OutcomeIsKnown, InHandOnce, ResolvedIsExpired, OutcomeFits
  <2>5. OwnedIsPending' /\ OwnerKnowsAttempts'
    BY <2>1, <2>2 DEF QInv, OwnedIsPending, OwnerKnowsAttempts, HasInHand
  <2> QED
    BY <2>3, <2>4, <2>5 DEF QInv
<1>5. ASSUME NEW c \in Expiring, SessionEnds(c) PROVE QInv'
  <2>1. PICK end \in {"paid", "expired"} : session' = [session EXCEPT ![c] = end]
    BY <1>5 DEF SessionEnds
  <2>2. session[c] = "open" /\ UNCHANGED <<row, job, seen, disturbances>>
    BY <1>5 DEF SessionEnds
  <2>3. \A d \in Expiring : /\ session'[d] = session[d] \/ session[d] = "open"
                            /\ session[d] # "missing" => session'[d] # "missing"
    BY <1>t, <2>1, <2>2
  <2>4. ReconciliationTypeOK'
    BY <1>t, <2>1, <2>2 DEF ReconciliationTypeOK
  <2> QED
    BY <2>2, <2>3, <2>4
    DEF QInv, OutcomeIsKnown, InHandOnce, ResolvedIsExpired, OutcomeFits,
        OwnedIsPending, OwnerKnowsAttempts, HasInHand
<1>6. ASSUME NEW w \in Workers, Claim(w) PROVE QInv'
  <2>1. PICK batch \in SUBSET {c \in Cases : Claimable(c)} :
          /\ row' = [c \in Cases |->
                       IF c \in batch
                       THEN [row[c] EXCEPT !.owner = w, !.lease = "live"]
                       ELSE row[c]]
          /\ seen' = [seen EXCEPT ![w] =
                       [c \in Cases |-> IF c \in batch THEN row[c].attempts ELSE 0]]
          /\ job' = [job EXCEPT ![w].todo = batch]
    BY <1>6 DEF Claim
  <2>2. job[w] = Idle /\ UNCHANGED <<session, disturbances>>
    BY <1>6 DEF Claim
  <2>3. batch \subseteq Cases /\ \A c \in batch : row[c].status = "pending"
    BY DEF Claimable
  <2>4. job' = [job EXCEPT ![w] = [todo |-> batch, at |-> NoCase, outcome |-> "none"]]
    <3>1. job' = [job EXCEPT ![w] = [job[w] EXCEPT !.todo = batch]]
      BY <2>1
    <3>2. [Idle EXCEPT !.todo = batch]
            = [todo |-> batch, at |-> NoCase, outcome |-> "none"]
      BY DEF Idle
    <3> QED
      BY <2>2, <3>1, <3>2
  <2>5. /\ job'[w].todo = batch /\ job'[w].at = NoCase /\ job'[w].outcome = "none"
        /\ \A v \in Workers : v # w => job'[v] = job[v]
    BY <1>t, <2>4
  <2>6. \A c \in Cases : row[c].attempts \in Nat
    BY <1>t DEF Row
  <2>7. /\ \A c \in Cases : seen'[w][c] = IF c \in batch THEN row[c].attempts ELSE 0
        /\ \A v \in Workers : v # w => seen'[v] = seen[v]
        /\ seen' \in [Workers -> [Cases -> Nat]]
    BY <1>t, <2>1, <2>6
  <2>8. /\ row' \in [Cases -> Row]
        /\ \A c \in Cases : /\ row'[c].status = row[c].status
                            /\ row'[c].attempts = row[c].attempts
                            /\ row'[c].owner = IF c \in batch THEN w ELSE row[c].owner
    BY <1>t, <2>1 DEF Row
  <2>9. ReconciliationTypeOK'
    <3>1. [todo |-> batch, at |-> NoCase, outcome |-> "none"] \in Job
      BY <2>3 DEF Job
    <3> QED
      BY <1>t, <2>2, <2>4, <2>7, <2>8, <3>1 DEF ReconciliationTypeOK
  <2>10. OutcomeIsKnown' /\ ResolvedIsExpired'
    BY <2>2, <2>5 DEF QInv, OutcomeIsKnown, ResolvedIsExpired, OutcomeFits
  <2>11. InHandOnce'
    BY <2>3, <2>5, ReconciliationAssumption DEF QInv, InHandOnce
  <2>12. OwnedIsPending'
    BY <2>3, <2>8 DEF QInv, OwnedIsPending
  <2>13. OwnerKnowsAttempts'
    <3> SUFFICES ASSUME NEW v \in Workers, NEW c \in Cases, row'[c].owner = v,
                        HasInHand(v, c)'
                 PROVE  seen'[v][c] = row'[c].attempts
      BY DEF OwnerKnowsAttempts
    <3>1. CASE v = w
      <4>1. c \in batch
        BY <2>5, <3>1, ReconciliationAssumption DEF HasInHand
      <4> QED
        BY <2>7, <2>8, <3>1, <4>1
    <3>2. CASE v # w
      <4>1. row[c].owner = v /\ HasInHand(v, c)
        BY <2>5, <2>8, <3>2 DEF HasInHand
      <4> QED
        BY <2>7, <2>8, <3>2, <4>1 DEF QInv, OwnerKnowsAttempts
    <3> QED
      BY <3>1, <3>2
  <2> QED
    BY <2>9, <2>10, <2>11, <2>12, <2>13 DEF QInv
<1>7. ASSUME NEW w \in Workers, ProcessStripeState(w) PROVE QInv'
  <2>1. PICK c \in job[w].todo :
          ProcessExpiration(w, c) \/ ProcessReview(w, c) \/ ProcessFailure(w, c)
    BY <1>7 DEF ProcessStripeState
  <2>2. job[w].at = NoCase /\ UNCHANGED <<row, seen, disturbances>>
    BY <1>7 DEF ProcessStripeState
  <2>3. c \in Cases /\ job[w].todo \subseteq Cases
    BY <1>t DEF Job
  <2>4. PICK outcome \in {"open", "resolved", "manual_review", "retry"} :
          Take(w, c, outcome) /\ OutcomeFits(c, outcome)
    BY <1>t, <2>1
    DEF ProcessExpiration, ProcessReview, ProcessFailure, OutcomeFits
  <2>5. session' = session
    BY <2>1 DEF ProcessExpiration, ProcessReview, ProcessFailure
  <2> DEFINE new == [todo |-> job[w].todo \ {c}, at |-> c, outcome |-> outcome]
  <2>6. job' = [job EXCEPT ![w] = new]
    BY <2>4 DEF Take
  <2>7. new \in Job
    BY <2>3 DEF Job
  <2>8. job'[w] = new /\ job' \in [Workers -> Job]
        /\ \A v \in Workers : v # w => job'[v] = job[v]
    BY <1>t, <2>6, <2>7
  <2>9. job'[w].todo = job[w].todo \ {c} /\ job'[w].at = c
        /\ job'[w].outcome = outcome
    BY <2>8
  <2>10. ReconciliationTypeOK'
    BY <1>t, <2>2, <2>5, <2>8 DEF ReconciliationTypeOK
  <2>11. OutcomeIsKnown' /\ InHandOnce'
    BY <2>3, <2>8, <2>9, ReconciliationAssumption
    DEF QInv, OutcomeIsKnown, InHandOnce
  <2>12. ResolvedIsExpired'
    BY <2>4, <2>5, <2>8, <2>9 DEF QInv, ResolvedIsExpired, OutcomeFits
  <2>13. OwnedIsPending'
    BY <2>2 DEF QInv, OwnedIsPending
  <2>14. OwnerKnowsAttempts'
    <3>1. \A v \in Workers, d \in Cases : HasInHand(v, d)' => HasInHand(v, d)
      BY <2>3, <2>8, <2>9 DEF HasInHand
    <3> QED
      BY <2>2, <3>1 DEF QInv, OwnerKnowsAttempts
  <2> QED
    BY <2>10, <2>11, <2>12, <2>13, <2>14 DEF QInv
<1>8. ASSUME NEW w \in Workers, Stumble(w) PROVE QInv'
  <2>1. job' = [job EXCEPT ![w] = [job[w] EXCEPT !.outcome = "retry"]]
        /\ UNCHANGED <<row, session, seen, disturbances>>
    BY <1>8 DEF Stumble
  <2>2. /\ job' \in [Workers -> Job]
        /\ job'[w].outcome = "retry"
        /\ \A v \in Workers : /\ job'[v].at = job[v].at
                              /\ job'[v].todo = job[v].todo
                              /\ v # w => job'[v] = job[v]
    BY <1>t, <2>1 DEF Job
  <2>3. ReconciliationTypeOK'
    BY <1>t, <2>1, <2>2 DEF ReconciliationTypeOK
  <2>4. OwnerKnowsAttempts'
    BY <2>1, <2>2 DEF QInv, OwnerKnowsAttempts, HasInHand
  <2> QED
    BY <1>8, <2>1, <2>2, <2>3, <2>4
    DEF QInv, OutcomeIsKnown, InHandOnce, ResolvedIsExpired, OutcomeFits,
        OwnedIsPending, Stumble
<1>9. ASSUME NEW w \in Workers, Finalize(w) PROVE QInv'
  <2> DEFINE c == job[w].at
             number == seen[w][c] + 1
             status == Outcome(w, number)
             done == [status |-> status, attempts |-> number,
                      due |-> status # "pending", owner |-> NoWorker,
                      lease |-> "none"]
             rest == [Idle EXCEPT !.todo = job[w].todo]
  <2>1. c \in Cases
    BY <1>9, <1>t DEF Finalize, Job
  <2>2. /\ row' = IF Owns(w, c) THEN [row EXCEPT ![c] = done] ELSE row
        /\ job' = [job EXCEPT ![w] = rest]
        /\ seen' = [seen EXCEPT ![w] = [seen[w] EXCEPT ![c] = 0]]
        /\ UNCHANGED <<session, disturbances>>
    BY <1>9 DEF Finalize
  <2>3. number \in Nat
    BY <1>t, <2>1
  <2>4. status \in Decided \cup {"pending"}
    BY <1>9, <1>t, <2>1, ReconciliationAssumption
    DEF QInv, OutcomeIsKnown, Outcome, Decided, Job, Finalize
  <2>5. done \in Row
    BY <2>3, <2>4 DEF Row
  <2>6. /\ row' \in [Cases -> Row]
        /\ row'[c] = row[c] \/ row'[c].owner = NoWorker
        /\ \A d \in Cases : d # c => row'[d] = row[d]
    <3>1. CASE Owns(w, c)
      <4>1. row' = [row EXCEPT ![c] = done]
        BY <2>2, <3>1
      <4>2. row'[c] = done
        BY <1>t, <2>1, <4>1
      <4> QED
        BY <1>t, <2>1, <2>5, <4>1, <4>2
    <3>2. CASE ~Owns(w, c)
      BY <1>t, <2>2, <3>2
    <3> QED
      BY <3>1, <3>2
  <2>7. rest = [todo |-> job[w].todo, at |-> NoCase, outcome |-> "none"]
    BY DEF Idle
  <2>8. job[w].todo \subseteq Cases /\ c \notin job[w].todo
    BY <1>t DEF Job, QInv, InHandOnce
  <2>9. /\ job' \in [Workers -> Job]
        /\ job'[w].todo = job[w].todo /\ job'[w].at = NoCase
        /\ job'[w].outcome = "none"
        /\ \A v \in Workers : v # w => job'[v] = job[v]
    BY <1>t, <2>2, <2>7, <2>8 DEF Job
  <2>10. /\ seen' \in [Workers -> [Cases -> Nat]]
         /\ \A v \in Workers, d \in Cases :
              v # w \/ d # c => seen'[v][d] = seen[v][d]
    BY <1>t, <2>1, <2>2
  <2>11. ReconciliationTypeOK'
    BY <1>t, <2>2, <2>6, <2>9, <2>10 DEF ReconciliationTypeOK
  <2>12. OutcomeIsKnown' /\ InHandOnce' /\ ResolvedIsExpired'
    BY <2>2, <2>8, <2>9, ReconciliationAssumption
    DEF QInv, OutcomeIsKnown, InHandOnce, ResolvedIsExpired, OutcomeFits
  <2>13. OwnedIsPending'
    BY <2>6 DEF QInv, OwnedIsPending
  <2>14. OwnerKnowsAttempts'
    <3> SUFFICES ASSUME NEW v \in Workers, NEW d \in Cases, row'[d].owner = v,
                        HasInHand(v, d)'
                 PROVE  seen'[v][d] = row'[d].attempts
      BY DEF OwnerKnowsAttempts
    <3>1. v # NoWorker
      BY ReconciliationAssumption
    <3>2. row'[d] = row[d]
      BY <2>6, <3>1
    <3>3. HasInHand(v, d) /\ (v # w \/ d # c)
      BY <2>8, <2>9, ReconciliationAssumption DEF HasInHand
    <3> QED
      BY <2>10, <3>2, <3>3 DEF QInv, OwnerKnowsAttempts
  <2> QED
    BY <2>11, <2>12, <2>13, <2>14 DEF QInv
<1>10. ASSUME NEW w \in Workers, Crash(w) PROVE QInv'
  <2>1. /\ job' = [job EXCEPT ![w] = Idle]
        /\ seen' = [seen EXCEPT ![w] = [c \in Cases |-> 0]]
        /\ UNCHANGED <<row, session>>
    BY <1>10 DEF Crash
  <2>2. disturbances' \in 0..MaxDisturbances
    BY <1>10, <1>t, DisturbCounts DEF Crash
  <2>3. Idle \in Job
    BY DEF Idle, Job
  <2>4. /\ job' \in [Workers -> Job]
        /\ job'[w].todo = {} /\ job'[w].at = NoCase /\ job'[w].outcome = "none"
        /\ \A v \in Workers : v # w => job'[v] = job[v] /\ seen'[v] = seen[v]
        /\ seen' \in [Workers -> [Cases -> Nat]]
    BY <1>t, <2>1, <2>3 DEF Idle
  <2>5. ReconciliationTypeOK'
    BY <1>t, <2>1, <2>2, <2>4 DEF ReconciliationTypeOK
  <2>6. OwnerKnowsAttempts'
    BY <2>1, <2>4, ReconciliationAssumption DEF QInv, OwnerKnowsAttempts, HasInHand
  <2> QED
    BY <2>1, <2>4, <2>5, <2>6
    DEF QInv, OutcomeIsKnown, InHandOnce, ResolvedIsExpired, OutcomeFits,
        OwnedIsPending
<1>12. ASSUME NEW w \in Workers, ExpireOpenSession(w) PROVE QInv'
  <2> DEFINE c == job[w].at
  <2>1. /\ job[w].outcome = "open" /\ c # NoCase
        /\ c \in Expiring /\ session[c] # "missing"
        /\ UNCHANGED <<row, seen, disturbances>>
    BY <1>12
    DEF ExpireOpenSession, QInv, OutcomeIsKnown, ResolvedIsExpired, OutcomeFits
  <2>2. PICK outcome \in {"resolved", "misread", "manual_review", "retry"} :
          /\ job' = [job EXCEPT ![w] = [job[w] EXCEPT !.outcome = outcome]]
          /\ session' = session \/ session' = [session EXCEPT ![c] = "expired"]
          /\ session[c] # "open" => session' = session
          /\ outcome = "resolved" => session'[c] = "expired"
          /\ outcome = "misread" => session'[c] = "paid"
    BY <1>12, <1>t, <2>1 DEF ExpireOpenSession
  <2>3. /\ session' \in [Expiring -> {"open", "paid", "expired", "missing"}]
        /\ \A d \in Expiring : /\ session'[d] = session[d] \/ session[d] = "open"
                               /\ session[d] # "missing" => session'[d] # "missing"
    BY <1>t, <2>1, <2>2
  <2>4. /\ job' \in [Workers -> Job]
        /\ job'[w].outcome = outcome
        /\ \A v \in Workers : /\ job'[v].at = job[v].at
                              /\ job'[v].todo = job[v].todo
                              /\ v # w => job'[v] = job[v]
    BY <1>t, <2>2 DEF Job
  <2>5. ReconciliationTypeOK'
    BY <1>t, <2>1, <2>3, <2>4 DEF ReconciliationTypeOK
  <2>6. OutcomeIsKnown' /\ InHandOnce'
    BY <2>1, <2>4 DEF QInv, OutcomeIsKnown, InHandOnce
  <2>7. ResolvedIsExpired'
    BY <2>1, <2>2, <2>3, <2>4 DEF QInv, ResolvedIsExpired, OutcomeFits
  <2>8. OwnedIsPending' /\ OwnerKnowsAttempts'
    BY <2>1, <2>4 DEF QInv, OwnedIsPending, OwnerKnowsAttempts, HasInHand
  <2> QED
    BY <2>5, <2>6, <2>7, <2>8 DEF QInv
<1>11. CASE UNCHANGED vars
  BY <1>11
  DEF vars, QInv, ReconciliationTypeOK, OutcomeIsKnown, InHandOnce,
      ResolvedIsExpired, OutcomeFits, OwnedIsPending, OwnerKnowsAttempts, HasInHand
<1> QED
  BY <1>1, <1>2, <1>3, <1>4, <1>5, <1>6, <1>7, <1>8, <1>9, <1>10, <1>11, <1>12
  DEF Next

\* What Finalize writes: the next number, to a row that was still undecided.
LEMMA FinalizeWrites ==
  ASSUME QInv, NEW w \in Workers, Finalize(w), NEW c \in Cases, row'[c] # row[c]
  PROVE  /\ c = job[w].at
         /\ row[c].status = "pending"
         /\ row'[c].attempts = row[c].attempts + 1
         /\ row'[c].status = "resolved" => job[w].outcome \in {"resolved", "misread"}
         /\ row'[c].status = "failed" => row'[c].attempts >= MaxAttempts
<1>1. row \in [Cases -> Row] /\ job[w].at # NoCase
  BY DEF QInv, ReconciliationTypeOK, Finalize
<1>2. c = job[w].at /\ Owns(w, c)
  BY <1>1 DEF Finalize
<1>3. row[c].status = "pending" /\ seen[w][c] = row[c].attempts
  BY <1>2, ReconciliationAssumption
  DEF Owns, QInv, OwnedIsPending, OwnerKnowsAttempts, HasInHand
<1>4. /\ row'[c].attempts = seen[w][c] + 1
      /\ row'[c].status = Outcome(w, seen[w][c] + 1)
  BY <1>1, <1>2 DEF Finalize
<1>5. job[w].outcome \in {"resolved", "misread", "manual_review", "retry"}
  BY <1>1 DEF QInv, ReconciliationTypeOK, Job, OutcomeIsKnown, Finalize
<1> QED
  BY <1>2, <1>3, <1>4, <1>5 DEF Outcome

-----------------------------------------------------------------------------
(* Theorems.                                                               *)

\* The inductive invariant of rows, sessions and workers.
THEOREM ReconciliationInvariant == Spec => []QInv
  BY QInvHoldsInitially, QInvIsInductive, PTL DEF Spec

\* Rows, jobs and counts have their types.
THEOREM ReconciliationTypeCorrect == Spec => []ReconciliationTypeOK
<1>1. QInv => ReconciliationTypeOK
  BY DEF QInv
<1> QED
  BY <1>1, ReconciliationInvariant, PTL

\* No worker, however late, sets the number of attempts of a case back
\* (finalizeClaimedReconciliation).
THEOREM AttemptsAreNeverSetBack == Spec => AttemptsNeverSetBack
<1>1. ASSUME QInv, [Next]_vars, NEW c \in Cases,
             row[c].status \notin {"absent", "resolved"}
      PROVE  row'[c].attempts >= row[c].attempts
  <2>0. row \in [Cases -> Row] /\ row[c].attempts \in Nat
    BY <1>1 DEF QInv, ReconciliationTypeOK, Row
  <2>1. ASSUME NEW d \in Cases, Record(d) \/ Retry(d) \/ ResolveManually(d)
        PROVE  row'[c].attempts >= row[c].attempts
    BY <1>1, <2>0, <2>1 DEF Record, Retry, ResolveManually, Unclaimed
  <2>2. ASSUME NEW d \in Cases, LeaseEnds(d) \/ BecomesDue(d)
        PROVE  row'[c].attempts >= row[c].attempts
    <3>1. row'[c].attempts = row[c].attempts
      BY <2>0, <2>2, ClockKeeps
    <3> QED
      BY <2>0, <3>1
  <2>3. ASSUME NEW w \in Workers, Claim(w)
        PROVE  row'[c].attempts >= row[c].attempts
    <3>1. row'[c].attempts = row[c].attempts
      BY <2>0, <2>3, ClaimKeeps
    <3> QED
      BY <2>0, <3>1
  <2>4. ASSUME NEW w \in Workers, Finalize(w)
        PROVE  row'[c].attempts >= row[c].attempts
    BY <1>1, <2>0, <2>4, FinalizeWrites
  <2>5. ASSUME UNCHANGED row
        PROVE  row'[c].attempts >= row[c].attempts
    BY <2>0, <2>5
  <2> QED
    BY <1>1, <2>1, <2>2, <2>3, <2>4, <2>5
    DEF Next, vars, SessionEnds, ProcessStripeState,
        ExpireOpenSession, Stumble, Crash
<1>2. QInv /\ [Next]_vars =>
        [\A c \in Cases : row[c].status \notin {"absent", "resolved"} =>
           row'[c].attempts >= row[c].attempts]_vars
  BY <1>1
<1> QED
  BY <1>2, ReconciliationInvariant, PTL DEF Spec, AttemptsNeverSetBack

\* No worker changes what was decided, by another worker or by the staff, while
\* it was at work.
THEOREM DecisionsAlwaysStand == Spec => DecisionsStand
<1>1. ASSUME QInv, [Next]_vars, NEW c \in Cases, row[c].status \in Decided,
             row'[c] # row[c]
      PROVE  UNCHANGED job
  <2>1. ASSUME NEW w \in Workers, Claim(w) PROVE FALSE
    <3>1. row[c].status # "pending"
      BY <1>1 DEF Decided
    <3> QED
      BY <1>1, <2>1, <3>1 DEF Claim, Claimable
  <2>2. ASSUME NEW w \in Workers, Finalize(w) PROVE FALSE
    BY <1>1, <2>2, FinalizeWrites DEF Decided
  <2> QED
    BY <1>1, <2>1, <2>2
    DEF Next, vars, Record, Retry, ResolveManually, LeaseEnds, BecomesDue,
        SessionEnds, ProcessStripeState,
        ExpireOpenSession, Stumble, Crash
<1>2. QInv /\ [Next]_vars =>
        [\A c \in Cases : row[c].status \in Decided /\ row'[c] # row[c] =>
           UNCHANGED job]_vars
  BY <1>1
<1> QED
  BY <1>2, ReconciliationInvariant, PTL DEF Spec, DecisionsStand

\* A worker resolves a case only if nobody can pay its session any more, or if it
\* was paid between the two calls of the gateway and the refusal of the second
\* was misread (expireCheckoutSession, mapExpirationResult and mapReviewResult).
THEOREM OnlyExpiredSessionsAreResolved == Spec => OnlyExpiredSessionsResolve
<1>1. ASSUME QInv, [Next]_vars, NEW c \in Cases, row[c].status = "pending",
             row'[c].status = "resolved"
      PROVE  /\ c \in Expiring
             /\ \/ session[c] = "expired"
                \/ session[c] = "paid" /\ \E w \in Workers :
                     /\ job[w].at = c /\ job[w].outcome = "misread"
                     /\ job'[w] # job[w]
  <2>0. row \in [Cases -> Row]
    BY <1>1 DEF QInv, ReconciliationTypeOK
  <2>1. ASSUME NEW d \in Cases, Record(d) \/ Retry(d) \/ ResolveManually(d)
        PROVE  FALSE
    BY <1>1, <2>0, <2>1 DEF Record, Retry, ResolveManually, Unclaimed
  <2>2. ASSUME NEW d \in Cases, LeaseEnds(d) \/ BecomesDue(d) PROVE FALSE
    <3>1. row'[c].status = row[c].status
      BY <2>0, <2>2, ClockKeeps
    <3> QED
      BY <1>1, <3>1
  <2>3. ASSUME NEW w \in Workers, Claim(w) PROVE FALSE
    <3>1. row'[c].status = row[c].status
      BY <2>0, <2>3, ClaimKeeps
    <3> QED
      BY <1>1, <3>1
  <2>4. ASSUME NEW w \in Workers, Finalize(w)
        PROVE  /\ c \in Expiring
               /\ \/ session[c] = "expired"
                  \/ /\ session[c] = "paid" /\ job[w].at = c
                     /\ job[w].outcome = "misread" /\ job'[w] # job[w]
    <3>1. c = job[w].at /\ job[w].outcome \in {"resolved", "misread"}
      BY <1>1, <2>4, FinalizeWrites
    <3>2. job'[w].at = NoCase
      BY <1>1, <2>4 DEF Finalize, Idle, QInv, ReconciliationTypeOK
    <3> QED
      BY <1>1, <3>1, <3>2, ReconciliationAssumption
      DEF QInv, ResolvedIsExpired, OutcomeFits
  <2>5. ASSUME UNCHANGED row PROVE FALSE
    BY <1>1, <2>5
  <2> QED
    BY <1>1, <2>1, <2>2, <2>3, <2>4, <2>5
    DEF Next, vars, SessionEnds, ProcessStripeState,
        ExpireOpenSession, Stumble, Crash
<1>2. QInv /\ [Next]_vars =>
        [\A c \in Cases : row[c].status = "pending" /\ row'[c].status = "resolved" =>
           /\ c \in Expiring
           /\ \/ session[c] = "expired"
              \/ session[c] = "paid" /\ \E w \in Workers :
                   /\ job[w].at = c /\ job[w].outcome = "misread"
                   /\ job'[w] # job[w]]_vars
  BY <1>1
<1> QED
  BY <1>2, ReconciliationInvariant, PTL DEF Spec, OnlyExpiredSessionsResolve

\* A worker gives a case up only when the attempts counted in its row, its own
\* included, have reached the limit.
GivesUpAtTheLimit == [][
  \A c \in Cases : row[c].status = "pending" /\ row'[c].status = "failed" =>
    /\ row'[c].attempts = row[c].attempts + 1
    /\ row'[c].attempts >= MaxAttempts]_vars

\* However long a worker has had a case, and whatever the staff and the order
\* code did to it in the meantime, the number it compares with
\* STRIPE_RECONCILIATION_MAX_ATTEMPTS is that of the row it writes
\* (getRetryOutcome, finalizeClaimedReconciliation).
THEOREM NeverGivesUpEarly == Spec => GivesUpAtTheLimit
<1>1. ASSUME QInv, [Next]_vars, NEW c \in Cases, row[c].status = "pending",
             row'[c].status = "failed"
      PROVE  /\ row'[c].attempts = row[c].attempts + 1
             /\ row'[c].attempts >= MaxAttempts
  <2>0. row \in [Cases -> Row]
    BY <1>1 DEF QInv, ReconciliationTypeOK
  <2>1. ASSUME NEW d \in Cases, Record(d) \/ Retry(d) \/ ResolveManually(d)
        PROVE  FALSE
    BY <1>1, <2>0, <2>1 DEF Record, Retry, ResolveManually, Unclaimed
  <2>2. ASSUME NEW d \in Cases, LeaseEnds(d) \/ BecomesDue(d) PROVE FALSE
    <3>1. row'[c].status = row[c].status
      BY <2>0, <2>2, ClockKeeps
    <3> QED
      BY <1>1, <3>1
  <2>3. ASSUME NEW w \in Workers, Claim(w) PROVE FALSE
    <3>1. row'[c].status = row[c].status
      BY <2>0, <2>3, ClaimKeeps
    <3> QED
      BY <1>1, <3>1
  <2>4. ASSUME NEW w \in Workers, Finalize(w)
        PROVE  /\ row'[c].attempts = row[c].attempts + 1
               /\ row'[c].attempts >= MaxAttempts
    <3>1. row'[c].status = "failed" => row'[c].attempts >= MaxAttempts
      BY <1>1, <2>4, FinalizeWrites
    <3> QED
      BY <1>1, <2>4, <3>1, FinalizeWrites
  <2>5. ASSUME UNCHANGED row PROVE FALSE
    BY <1>1, <2>5
  <2> QED
    BY <1>1, <2>1, <2>2, <2>3, <2>4, <2>5
    DEF Next, vars, SessionEnds, ProcessStripeState,
        ExpireOpenSession, Stumble, Crash
<1>2. QInv /\ [Next]_vars =>
        [\A c \in Cases : row[c].status = "pending" /\ row'[c].status = "failed" =>
           /\ row'[c].attempts = row[c].attempts + 1
           /\ row'[c].attempts >= MaxAttempts]_vars
  BY <1>1
<1> QED
  BY <1>2, ReconciliationInvariant, PTL DEF Spec, GivesUpAtTheLimit
=============================================================================
