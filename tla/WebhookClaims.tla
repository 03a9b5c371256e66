----------------------------- MODULE WebhookClaims -----------------------------
(***************************************************************************)
(* How a Stripe webhook event is claimed, handled and settled              *)
(* (CommandesService.handleStripeWebhook).  A row of StripeWebhookEvent is *)
(* the only coordination between the requests that deliver the same event, *)
(* on one instance of the API or on several: it carries a status and the   *)
(* time processing started, which serves as the token of the attempt that  *)
(* owns the row.  Stripe delivers an event at least once, again after any  *)
(* answer that is not a success, and concurrently if it likes.             *)
(*                                                                         *)
(* What handling an event does to orders is left to the module that        *)
(* composes with this one (Checkout.tla): here it succeeds or fails.       *)
(***************************************************************************)
EXTENDS Naturals

CONSTANTS
  Events,      \* the webhook events Stripe may deliver
  Handlers,    \* the requests the API can have in progress at once
  NoEvent,     \* the event of a handler that has none
  MaxFaults    \* bound on crashes, database errors and stalled requests

ASSUME ClaimsAssumption ==
  /\ NoEvent \notin Events
  /\ MaxFaults \in Nat

VARIABLES
  row,         \* the StripeWebhookEvent row of each event
  handler,     \* the progress of each request
  faults       \* how many faults have happened

claimVars == <<row, handler, faults>>

RowStatus == {"absent", "processing", "processed", "failed"}
HandlerStep == {"idle", "claimed", "notifying", "handled", "failing"}

\* "token" abstracts processingStartedAt: claims of one row never share one,
\* since a row is reclaimed after a failure or after the timeout.
Row == [status : RowStatus, token : Nat, stale : BOOLEAN]
HandlerState == [at : HandlerStep, event : Events \cup {NoEvent}, token : Nat]
Idle == [at |-> "idle", event |-> NoEvent, token |-> 0]

ClaimsTypeOK ==
  /\ row \in [Events -> Row]
  /\ handler \in [Handlers -> HandlerState]
  /\ faults \in 0..MaxFaults

ClaimsInit ==
  /\ row = [e \in Events |-> [status |-> "absent", token |-> 0, stale |-> FALSE]]
  /\ handler = [h \in Handlers |-> Idle]
  /\ faults = 0

Fault == faults < MaxFaults /\ faults' = faults + 1

Running(h) == handler[h].at # "idle"

\* The condition of every guarded update of the row: "the row is still mine".
Owns(h) ==
  /\ Running(h)
  /\ row[handler[h].event].status = "processing"
  /\ row[handler[h].event].token = handler[h].token

(***************************************************************************)
(* claimStripeWebhookEvent.  The insert, or the conditional update of a    *)
(* failed or timed-out row.  A delivery that finds the row processed is    *)
(* answered as a duplicate, one that finds it in progress gets 503: both   *)
(* leave everything as it is.                                              *)
(***************************************************************************)
\* Variants (here and below): the mistakes the properties must catch.
ClaimableNeverTakesOver(e) == row[e].status \in {"absent", "failed"}
ClaimableWheneverOld(e) == row[e].status \in {"absent", "failed"} \/ row[e].stale

Claimable(e) ==
  \/ row[e].status \in {"absent", "failed"}
  \/ row[e].status = "processing" /\ row[e].stale

Claim(h, e) ==
  /\ ~Running(h)
  /\ Claimable(e)
  /\ row' = [row EXCEPT ![e] = [status |-> "processing",
                                token  |-> row[e].token + 1,
                                stale  |-> FALSE]]
  /\ handler' = [handler EXCEPT ![h] = [at |-> "claimed", event |-> e,
                                        token |-> row[e].token + 1]]
  /\ UNCHANGED faults

\* The business transaction of the event commits; a confirmation e-mail may
\* be left to send.
Handle(h, next) ==
  /\ handler[h].at = "claimed"
  /\ handler' = [handler EXCEPT ![h].at = next]
  /\ UNCHANGED <<row, faults>>

\* sendOrderConfirmationBestEffort returns, whether the e-mail left or not.
Notified(h) ==
  /\ handler[h].at = "notifying"
  /\ handler' = [handler EXCEPT ![h].at = "handled"]
  /\ UNCHANGED <<row, faults>>

\* The business transaction throws and is rolled back.
HandlingFails(h) ==
  /\ handler[h].at = "claimed"
  /\ Fault
  /\ handler' = [handler EXCEPT ![h].at = "failing"]
  /\ UNCHANGED row

\* Variant: an update of the row by eventId alone.
MarkProcessedUnguarded(h) ==
  /\ handler[h].at = "handled"
  /\ row' = [row EXCEPT ![handler[h].event].status = "processed"]
  /\ handler' = [handler EXCEPT ![h] = Idle]
  /\ UNCHANGED faults

\* markStripeWebhookEventProcessed: a guarded update that throws, and so leads
\* to the catch block, when another attempt has taken the row over.
MarkProcessed(h) ==
  /\ handler[h].at = "handled"
  /\ IF Owns(h)
       THEN /\ row' = [row EXCEPT ![handler[h].event].status = "processed"]
            /\ handler' = [handler EXCEPT ![h] = Idle]
       ELSE /\ handler' = [handler EXCEPT ![h].at = "failing"]
            /\ UNCHANGED row
  /\ UNCHANGED faults

\* The same update lost to a database error.  (One that throws after its commit
\* is MarkProcessed: the catch block then finds nothing in "processing".)
MarkProcessedFails(h) ==
  /\ handler[h].at = "handled"
  /\ Fault
  /\ handler' = [handler EXCEPT ![h].at = "failing"]
  /\ UNCHANGED row

\* Variant: an update by eventId alone.
MarkFailedUnguarded(h) ==
  /\ handler[h].at = "failing"
  /\ row' = [row EXCEPT ![handler[h].event].status = "failed"]
  /\ handler' = [handler EXCEPT ![h] = Idle]
  /\ UNCHANGED faults

\* markStripeWebhookEventFailed: a guarded update that ignores its count.
MarkFailed(h) ==
  /\ handler[h].at = "failing"
  /\ row' = IF Owns(h)
              THEN [row EXCEPT ![handler[h].event].status = "failed"]
              ELSE row
  /\ handler' = [handler EXCEPT ![h] = Idle]
  /\ UNCHANGED faults

\* The process dies, or even the update to "failed" throws: the request is
\* gone and the row stays in "processing".
Abandon(h) ==
  /\ Running(h)
  /\ Fault
  /\ handler' = [handler EXCEPT ![h] = Idle]
  /\ UNCHANGED row

(***************************************************************************)
(* STRIPE_WEBHOOK_PROCESSING_TIMEOUT_MS passes since the row was claimed.  *)
(* When its owner is still at work the request has stalled for that long,  *)
(* which counts as a fault.                                                *)
(***************************************************************************)
TimeOut(e) ==
  /\ row[e].status = "processing"
  /\ ~row[e].stale
  /\ row' = [row EXCEPT ![e].stale = TRUE]
  /\ IF \E h \in Handlers : handler[h].event = e /\ Owns(h)
       THEN Fault
       ELSE UNCHANGED faults
  /\ UNCHANGED handler

\* The steps of the request in progress, without faults.
Settle(h) == MarkProcessed(h) \/ MarkFailed(h)
Mishap(h) == HandlingFails(h) \/ MarkProcessedFails(h) \/ Abandon(h)

ClaimsNext ==
  \/ \E h \in Handlers :
       \/ \E e \in Events : Claim(h, e)
       \/ \E next \in {"notifying", "handled"} : Handle(h, next)
       \/ Notified(h)
       \/ Settle(h)
       \/ Mishap(h)
  \/ \E e \in Events : TimeOut(e)

ClaimsSpec == ClaimsInit /\ [][ClaimsNext]_claimVars

(***************************************************************************)
(* Fairness.  A request that runs goes on (the event loop); time passes;   *)
(* Stripe goes on delivering an event that has not been acknowledged, so   *)
(* an event that can be claimed again and again is claimed.                *)
(***************************************************************************)
Progress(h) ==
  \/ \E next \in {"notifying", "handled"} : Handle(h, next)
  \/ Notified(h)
  \/ Settle(h)

ClaimsFairness ==
  /\ \A h \in Handlers : WF_claimVars(Progress(h))
  /\ \A e \in Events : WF_claimVars(TimeOut(e))
  /\ \A e \in Events : SF_claimVars(\E h \in Handlers : Claim(h, e))

FairClaimsSpec == ClaimsSpec /\ ClaimsFairness

------------------------------------------------------------------------------
(***************************************************************************)
(* Only the attempt that owns an event settles it: as long as the request  *)
(* that made the latest claim is running, the row stays "processing", so   *)
(* an attempt that was taken over can neither mark the event failed under  *)
(* its successor nor mark it processed in its place.                       *)
(***************************************************************************)
OnlyTheOwnerSettles ==
  \A h \in Handlers :
    Running(h) /\ handler[h].token = row[handler[h].event].token
      => row[handler[h].event].status = "processing"

(***************************************************************************)
(* At most one running request holds the current token of an event,        *)
(* however often the event is delivered, times out and is taken over.      *)
(***************************************************************************)
OneOwner ==
  \A g, h \in Handlers : 
    Owns(g) /\ Owns(h) /\ handler[g].event = handler[h].event => g = h

(***************************************************************************)
(* "processed" is final: the row deduplicates every later delivery.        *)
(***************************************************************************)
ProcessedIsFinal ==
  [][\A e \in Events : row[e].status = "processed" => row'[e] = row[e]]_claimVars

(***************************************************************************)
(* An event is marked processed only in a step of a request that got       *)
(* through the business transaction and still owned the row.               *)
(***************************************************************************)
ProcessedOnlyWhenHandled ==
  [][\A e \in Events :
       row[e].status # "processed" /\ row'[e].status = "processed"
         => \E h \in Handlers :
              handler[h] = [at |-> "handled", event |-> e, token |-> row[e].token]]_claimVars

(***************************************************************************)
(* Every event is processed in the end, after finitely many faults.        *)
(***************************************************************************)
EveryEventProcessed == \A e \in Events : <>[](row[e].status = "processed")
==============================================================================
