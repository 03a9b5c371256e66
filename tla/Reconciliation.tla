---------------------------- MODULE Reconciliation ----------------------------
(***************************************************************************)
(* The rows of StripeCheckoutReconciliation: the order code records them   *)
(* (createActiveStripeCheckoutReconciliation), the periodic worker of each *)
(* instance of the API claims them under a lease and settles them with     *)
(* Stripe, and the staff retries or resolves them by hand                  *)
(* (stripe-reconciliation.service.ts).                                     *)
(*                                                                         *)
(* A case is a Checkout session with an operation.  At most one row of a   *)
(* case is not resolved; the model keeps its latest row.  The history of   *)
(* attempts, which nothing reads back, is left out.                        *)
(***************************************************************************)
EXTENDS Naturals, FiniteSets

CONSTANTS
  Cases,          \* what may have to be reconciled
  Expiring,       \* the cases whose operation is expire_checkout_session
  Unmatched,      \* those whose operation is review_unmatched_checkout_session
  Workers,        \* the instances of the API
  NoCase,         \* what an instance works on when it does not
  NoWorker,       \* the owner of a row that is not claimed
  MaxAttempts,    \* STRIPE_RECONCILIATION_MAX_ATTEMPTS
  BatchSize,      \* STRIPE_RECONCILIATION_BATCH_SIZE
  MaxDisturbances \* bound on what may delay a case: crashes, leases that end
                  \* too early, cases recorded again, retries by the staff

ASSUME ReconciliationAssumption ==
  /\ Expiring \subseteq Cases /\ Unmatched \subseteq Cases \ Expiring
  /\ NoCase \notin Cases
  /\ NoWorker \notin Workers
  /\ MaxAttempts \in Nat \ {0}
  /\ BatchSize \in Nat \ {0}
  /\ MaxDisturbances \in Nat

VARIABLES
  row,         \* the row of each case
  session,     \* the Checkout sessions to expire, at Stripe
  job,         \* what each worker claimed and is doing
  seen,        \* the number of attempts in the rows a worker claimed
  disturbances \* how much has happened that may delay a case

vars == <<row, session, job, seen, disturbances>>

Decided == {"manual_review", "resolved", "failed"}

\* The lease is over, or due is true, when the clock has passed leaseExpiresAt
\* or nextAttemptAt.
Row == [status : Decided \cup {"absent", "pending"}, attempts : Nat,
        due : BOOLEAN, owner : Workers \cup {NoWorker},
        lease : {"none", "live", "over"}]
NoRow == [status |-> "absent", attempts |-> 0, due |-> TRUE, owner |-> NoWorker,
          lease |-> "none"]

\* The rest of a batch, the case in hand, and what will be written about it:
\* nothing yet while its session was open when it was retrieved; "misread" is
\* "resolved" by mistake.
Job == [todo : SUBSET Cases, at : Cases \cup {NoCase},
        outcome : {"none", "open", "resolved", "misread", "manual_review", "retry"}]
Idle == [todo |-> {}, at |-> NoCase, outcome |-> "none"]

ReconciliationTypeOK ==
  /\ row \in [Cases -> Row]
  /\ session \in [Expiring -> {"open", "paid", "expired", "missing"}]
  /\ job \in [Workers -> Job]
  /\ seen \in [Workers -> [Cases -> Nat]]
  /\ disturbances \in 0..MaxDisturbances

Init ==
  /\ row = [c \in Cases |-> NoRow]
  /\ session \in [Expiring -> {"open", "paid", "expired", "missing"}]
  /\ job = [w \in Workers |-> Idle]
  /\ seen = [w \in Workers |-> [c \in Cases |-> 0]]
  /\ disturbances = 0

Disturb ==
  /\ disturbances < MaxDisturbances
  /\ disturbances' = disturbances + 1

Unclaimed(c, status, attempts) ==
  [row EXCEPT ![c] = [status |-> status, attempts |-> attempts, due |-> TRUE,
                      owner |-> NoWorker, lease |-> "none"]]

-----------------------------------------------------------------------------
(* The order code and the staff.                                           *)

\* An insertion, or the update of the row that is not resolved, which adds the
\* attempts and takes the row from the worker that has it.
Record(c) ==
  /\ \E tried \in {0, 1} :
       row' = Unclaimed(c,
                IF c \in Unmatched THEN "manual_review" ELSE "pending",
                IF row[c].status \in {"absent", "resolved"} THEN tried
                ELSE row[c].attempts + tried)
  /\ IF row[c].status = "absent" THEN UNCHANGED disturbances ELSE Disturb
  /\ UNCHANGED <<session, job, seen>>

\* retryReconciliation
Retry(c) ==
  /\ row[c].status \in {"pending", "manual_review", "failed"}
  /\ row' = Unclaimed(c, "pending", row[c].attempts)
  /\ Disturb
  /\ UNCHANGED <<session, job, seen>>

\* resolveManually
ResolveManually(c) ==
  /\ row[c].status \in {"manual_review", "failed"}
  /\ row' = Unclaimed(c, "resolved", row[c].attempts)
  /\ UNCHANGED <<session, job, seen, disturbances>>

-----------------------------------------------------------------------------
(* The worker.                                                             *)

\* Variant: decided cases are claimed too.
ClaimableDecided(c) ==
  row[c].status # "resolved" /\ row[c].due /\ row[c].lease # "live"
\* Variant: a lease that is over is never taken over.
ClaimableOnce(c) == row[c].status = "pending" /\ row[c].due /\ row[c].lease = "none"
Claimable(c) == row[c].status = "pending" /\ row[c].due /\ row[c].lease # "live"

\* claimDueReconciliations.  A tick never starts before the last one ended, and
\* rows another worker locks are skipped, so it may be any of those due.
Claim(w) ==
  /\ job[w] = Idle
  /\ \E batch \in SUBSET {c \in Cases : Claimable(c)} :
       /\ batch # {} /\ Cardinality(batch) <= BatchSize
       /\ row' = [c \in Cases |->
                    IF c \in batch
                    THEN [row[c] EXCEPT !.owner = w, !.lease = "live"]
                    ELSE row[c]]
       /\ seen' = [seen EXCEPT ![w] =
                    [c \in Cases |-> IF c \in batch THEN row[c].attempts ELSE 0]]
       /\ job' = [job EXCEPT ![w].todo = batch]
  /\ UNCHANGED <<session, disturbances>>

Take(w, c, outcome) ==
  job' = [job EXCEPT ![w] = [todo |-> @.todo \ {c}, at |-> c, outcome |-> outcome]]

\* Variant: a session Stripe does not know is taken for an expired one.
ProcessMissingAsExpired(w, c) ==
  /\ c \in Expiring
  /\ Take(w, c, CASE session[c] = "open" -> "open"
                  [] session[c] = "paid" -> "manual_review"
                  [] OTHER               -> "resolved")
  /\ UNCHANGED session

\* expireCheckoutSession retrieves the session first, and mapExpirationResult
\* decides unless it is open.
ProcessExpiration(w, c) ==
  /\ c \in Expiring
  /\ Take(w, c, CASE session[c] = "open"    -> "open"
                  [] session[c] = "expired" -> "resolved"
                  [] OTHER                  -> "manual_review")
  /\ UNCHANGED session

\* retrieveCheckoutSession and mapReviewResult: whatever the session is, the
\* staff decides.
ProcessReview(w, c) ==
  /\ c \notin Expiring
  /\ UNCHANGED session
  /\ Take(w, c, "manual_review")

\* The retrieval, or the read of the order before, fails with an error that
\* calls for a retry or for a review.
ProcessFailure(w, c) ==
  /\ \E outcome \in {"retry", "manual_review"} : Take(w, c, outcome)
  /\ UNCHANGED session

ProcessStripeState(w) ==
  /\ job[w].at = NoCase
  /\ \E c \in job[w].todo :
       ProcessExpiration(w, c) \/ ProcessReview(w, c) \/ ProcessFailure(w, c)
  /\ UNCHANGED <<row, seen, disturbances>>

\* sessions.expire, the second call of expireCheckoutSession.  Stripe refuses a
\* session that ended since the first; the gateway goes by the words of the
\* refusal, Stripe's, and looks for "expired" before "complete" and "paid".  A
\* call that fails may have expired the session all the same.
ExpireOpenSession(w) ==
  LET c == job[w].at
      Answered(outcome) == job' = [job EXCEPT ![w].outcome = outcome]
  IN  /\ job[w].outcome = "open"
      /\ \/ /\ session[c] = "open"
            /\ session' = [session EXCEPT ![c] = "expired"]
            /\ Answered("resolved")
         \/ /\ session[c] # "open"
            /\ UNCHANGED session
            /\ \/ Answered(IF session[c] = "expired" THEN "resolved" ELSE "misread")
               \/ Answered("manual_review")
         \/ /\ Answered("retry") \/ Answered("manual_review")
            /\ \/ UNCHANGED session
               \/ session[c] = "open" /\ session' = [session EXCEPT ![c] = "expired"]
      /\ UNCHANGED <<row, seen, disturbances>>

\* What comes after the call of Stripe fails: the catch writes a retry instead.
Stumble(w) ==
  /\ job[w].at # NoCase
  /\ job[w].outcome \notin {"open", "retry"}
  /\ job' = [job EXCEPT ![w].outcome = "retry"]
  /\ UNCHANGED <<row, session, seen, disturbances>>

\* Variant: the row is written whoever owns it.
OwnsAnyway(w, c) == row[c].status # "absent"
Owns(w, c) == row[c].owner = w /\ row[c].lease = "live"

\* getRetryOutcome, for the attempt with this number.
Outcome(w, number) ==
  CASE job[w].outcome = "retry" ->
         IF number >= MaxAttempts THEN "failed" ELSE "pending"
    [] job[w].outcome = "misread" -> "resolved"
    [] OTHER -> job[w].outcome

\* finalizeClaimedReconciliation
Finalize(w) ==
  LET c == job[w].at
      number == seen[w][c] + 1
      status == Outcome(w, number)
  IN  /\ c # NoCase /\ job[w].outcome # "open"
      /\ row' = IF Owns(w, c)
                THEN [row EXCEPT ![c] =
                        [status |-> status, attempts |-> number,
                         due |-> status # "pending", owner |-> NoWorker,
                         lease |-> "none"]]
                ELSE row
      /\ job' = [job EXCEPT ![w] = [Idle EXCEPT !.todo = job[w].todo]]
      /\ seen' = [seen EXCEPT ![w][c] = 0]
      /\ UNCHANGED <<session, disturbances>>

\* The process dies, or the catch fails as well: the tick ends.
Crash(w) ==
  /\ job[w] # Idle
  /\ job' = [job EXCEPT ![w] = Idle]
  /\ seen' = [seen EXCEPT ![w] = [c \in Cases |-> 0]]
  /\ Disturb
  /\ UNCHANGED <<row, session>>

-----------------------------------------------------------------------------
(* Time and Stripe.                                                        *)

HasInHand(w, c) == c = job[w].at \/ c \in job[w].todo

\* A lease ends early when its worker is still at work.
LeaseEnds(c) ==
  /\ row[c].lease = "live"
  /\ row' = [row EXCEPT ![c].lease = "over"]
  /\ IF HasInHand(row[c].owner, c) THEN Disturb ELSE UNCHANGED disturbances
  /\ UNCHANGED <<session, job, seen>>

BecomesDue(c) ==
  /\ ~row[c].due
  /\ row' = [row EXCEPT ![c].due = TRUE]
  /\ UNCHANGED <<session, job, seen, disturbances>>

SessionEnds(c) ==
  /\ session[c] = "open"
  /\ \E end \in {"paid", "expired"} : session' = [session EXCEPT ![c] = end]
  /\ UNCHANGED <<row, job, seen, disturbances>>

Next ==
  \/ \E c \in Cases :
       Record(c) \/ Retry(c) \/ ResolveManually(c) \/ LeaseEnds(c) \/ BecomesDue(c)
  \/ \E c \in Expiring : SessionEnds(c)
  \/ \E w \in Workers :
       \/ Claim(w) \/ ProcessStripeState(w) \/ ExpireOpenSession(w) \/ Stumble(w)
       \/ Finalize(w) \/ Crash(w)

\* The timer ticks, a tick goes on by itself, and time passes.
Fairness ==
  /\ \A w \in Workers : /\ WF_vars(Claim(w))
                        /\ WF_vars(ProcessStripeState(w))
                        /\ WF_vars(ExpireOpenSession(w))
                        /\ WF_vars(Finalize(w))
  /\ \A c \in Cases : WF_vars(LeaseEnds(c)) /\ WF_vars(BecomesDue(c))

Spec == Init /\ [][Next]_vars /\ Fairness

-----------------------------------------------------------------------------
(* Properties.                                                             *)

\* A worker whose lease was taken over never writes its stale count: the number
\* of attempts of a row, which limits them, is never set back
\* (finalizeClaimedReconciliation).
AttemptsNeverSetBack == [][
  \A c \in Cases : row[c].status \notin {"absent", "resolved"} =>
    row'[c].attempts >= row[c].attempts]_vars

\* What was decided about a case is changed by the staff or by the order code,
\* never by a worker that is late (finalizeClaimedReconciliation, which may run
\* after retryReconciliation or resolveManually).
DecisionsStand == [][
  \A c \in Cases : row[c].status \in Decided /\ row'[c] # row[c] =>
    UNCHANGED job]_vars

\* README.md:418 « Les cas payes, ambigus ou sans commande passent en revue
\* manuelle »: without the staff, a case is resolved only if its session can not
\* be paid any more.  The one exception is a session paid between the two calls
\* of the gateway, when the worker that writes took Stripe's refusal for "has
\* expired" (see RacedPaymentIsReported of CheckoutProperties).
OnlyExpiredSessionsResolve == [][
  \A c \in Cases : row[c].status = "pending" /\ row'[c].status = "resolved" =>
    /\ c \in Expiring
    /\ \/ session[c] = "expired"
       \/ session[c] = "paid" /\ \E w \in Workers :
            /\ job[w].at = c /\ job[w].outcome = "misread"
            /\ job'[w] # job[w]]_vars

\* Every case is decided in the end, whatever fails, as long as crashes, leases
\* that end too early, and new records or retries stop at some time.
EveryCaseIsDecided ==
  \A c \in Cases : row[c].status = "pending" ~> row[c].status \in Decided
=============================================================================
