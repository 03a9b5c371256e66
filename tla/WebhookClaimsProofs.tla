-------------------------- MODULE WebhookClaimsProofs --------------------------
(***************************************************************************)
(* The safety properties of WebhookClaims, for any number of events,       *)
(* concurrent requests and faults.                                         *)
(***************************************************************************)
EXTENDS WebhookClaims, TLAPS

(***************************************************************************)
(* The tokens are what makes the guarded updates safe: a request never     *)
(* holds a token ahead of its row, and no two requests hold the same one.  *)
(***************************************************************************)
EventKnown == \A h \in Handlers : Running(h) => handler[h].event \in Events

TokenNotAhead ==
  \A h \in Handlers :
    Running(h) => handler[h].token <= row[handler[h].event].token

TokensDiffer ==
  \A g, h \in Handlers :
    /\ Running(g) /\ Running(h)
    /\ handler[g].event = handler[h].event
    /\ handler[g].token = handler[h].token
    => g = h

ClaimsInv ==
  /\ ClaimsTypeOK
  /\ EventKnown
  /\ TokenNotAhead
  /\ TokensDiffer
  /\ OnlyTheOwnerSettles

LEMMA ClaimsInitInv == ClaimsInit => ClaimsInv
  BY ClaimsAssumption
     DEF ClaimsInit, ClaimsInv, ClaimsTypeOK, EventKnown, TokenNotAhead,
         TokensDiffer, OnlyTheOwnerSettles, Running, Idle, Row, RowStatus,
         HandlerState, HandlerStep

\* A step that only moves a running request on, or lets it go.
LEMMA RequestMovesInv ==
  ASSUME ClaimsInv, NEW h \in Handlers, Running(h),
         NEW step \in HandlerStep \ {"idle"},
         \/ handler' = [handler EXCEPT ![h].at = step]
         \/ handler' = [handler EXCEPT ![h] = Idle],
         row' = row,
         faults' \in 0..MaxFaults
  PROVE  ClaimsInv'
<1> USE DEF ClaimsInv, ClaimsTypeOK, Running, Idle, HandlerState, HandlerStep
<1>1. ClaimsTypeOK'
  OBVIOUS
<1>2. EventKnown'
  BY DEF EventKnown
<1>3. TokenNotAhead'
  BY DEF TokenNotAhead
<1>4. TokensDiffer'
  BY DEF TokensDiffer
<1>5. OnlyTheOwnerSettles'
  BY DEF OnlyTheOwnerSettles
<1> QED
  BY <1>1, <1>2, <1>3, <1>4, <1>5

\* The owner of a row settles it and is done.
LEMMA OwnerSettlesInv ==
  ASSUME ClaimsInv, NEW h \in Handlers, Owns(h),
         NEW s \in RowStatus,
         row' = [row EXCEPT ![handler[h].event].status = s],
         handler' = [handler EXCEPT ![h] = Idle],
         UNCHANGED faults
  PROVE  ClaimsInv'
<1> USE DEF ClaimsInv, ClaimsTypeOK, Running, Owns, Idle, HandlerState,
            HandlerStep, Row
<1>1. ClaimsTypeOK'
  BY DEF EventKnown
<1>2. EventKnown'
  BY DEF EventKnown
<1>3. TokenNotAhead'
  BY DEF TokenNotAhead, EventKnown
<1>4. TokensDiffer'
  BY DEF TokensDiffer
<1>5. OnlyTheOwnerSettles'
  BY DEF OnlyTheOwnerSettles, TokensDiffer, EventKnown
<1> QED
  BY <1>1, <1>2, <1>3, <1>4, <1>5

LEMMA ClaimInv ==
  ASSUME ClaimsInv, NEW h \in Handlers, NEW e \in Events, Claim(h, e)
  PROVE  ClaimsInv'
<1> USE DEF ClaimsInv, ClaimsTypeOK, Claim, Running, HandlerState, HandlerStep,
            Row, RowStatus
<1>1. ClaimsTypeOK'
  OBVIOUS
<1>2. EventKnown'
  BY DEF EventKnown
<1>3. TokenNotAhead'
  BY DEF TokenNotAhead, EventKnown
<1>4. TokensDiffer'
  BY DEF TokensDiffer, TokenNotAhead, EventKnown
<1>5. OnlyTheOwnerSettles'
  BY DEF OnlyTheOwnerSettles, TokenNotAhead, EventKnown
<1> QED
  BY <1>1, <1>2, <1>3, <1>4, <1>5

LEMMA TimeOutInv ==
  ASSUME ClaimsInv, NEW e \in Events, TimeOut(e)
  PROVE  ClaimsInv'
<1> USE DEF ClaimsInv, ClaimsTypeOK, TimeOut, Running, HandlerState, Row, Fault
<1>0. handler' = handler /\ faults' \in 0..MaxFaults
  BY ClaimsAssumption
<1>1. ClaimsTypeOK'
  BY <1>0
<1>2. EventKnown'
  BY DEF EventKnown
<1>3. TokenNotAhead'
  BY DEF TokenNotAhead, EventKnown
<1>4. TokensDiffer'
  BY DEF TokensDiffer
<1>5. OnlyTheOwnerSettles'
  BY DEF OnlyTheOwnerSettles, EventKnown
<1> QED
  BY <1>1, <1>2, <1>3, <1>4, <1>5

(***************************************************************************)
(* The invariant is inductive: one case per step of the specification.     *)
(***************************************************************************)
THEOREM ClaimsInvInductive == ClaimsInv /\ [ClaimsNext]_claimVars => ClaimsInv'
<1> SUFFICES ASSUME ClaimsInv, [ClaimsNext]_claimVars
             PROVE  ClaimsInv'
  OBVIOUS
<1>0. Fault => faults' \in 0..MaxFaults
  BY ClaimsAssumption DEF Fault, ClaimsInv, ClaimsTypeOK
<1>1. ASSUME NEW h \in Handlers, NEW e \in Events, Claim(h, e)
      PROVE  ClaimsInv'
  BY <1>1, ClaimInv
<1>2. ASSUME NEW h \in Handlers, NEW next \in {"notifying", "handled"},
             Handle(h, next)
      PROVE  ClaimsInv'
  <2>1. Running(h) /\ next \in HandlerStep \ {"idle"} /\ faults' \in 0..MaxFaults
    BY <1>2 DEF Handle, Running, HandlerStep, ClaimsInv, ClaimsTypeOK
  <2> QED
    BY <1>2, <2>1, RequestMovesInv DEF Handle
<1>3. ASSUME NEW h \in Handlers, Notified(h)
      PROVE  ClaimsInv'
  <2>1. Running(h) /\ "handled" \in HandlerStep \ {"idle"} /\ faults' \in 0..MaxFaults
    BY <1>3 DEF Notified, Running, HandlerStep, ClaimsInv, ClaimsTypeOK
  <2> QED
    BY <1>3, <2>1, RequestMovesInv DEF Notified
<1>4. ASSUME NEW h \in Handlers, MarkProcessed(h)
      PROVE  ClaimsInv'
  <2>1. CASE Owns(h)
    BY <1>4, <2>1, OwnerSettlesInv DEF MarkProcessed, RowStatus
  <2>2. CASE ~Owns(h)
    <3>1. Running(h) /\ "failing" \in HandlerStep \ {"idle"} /\ faults' \in 0..MaxFaults
      BY <1>4 DEF MarkProcessed, Running, HandlerStep, ClaimsInv, ClaimsTypeOK
    <3> QED
      BY <1>4, <2>2, <3>1, RequestMovesInv DEF MarkProcessed
  <2> QED
    BY <2>1, <2>2
<1>5. ASSUME NEW h \in Handlers, MarkFailed(h)
      PROVE  ClaimsInv'
  <2>1. CASE Owns(h)
    BY <1>5, <2>1, OwnerSettlesInv DEF MarkFailed, RowStatus
  <2>2. CASE ~Owns(h)
    <3>1. Running(h) /\ "failing" \in HandlerStep \ {"idle"} /\ faults' \in 0..MaxFaults
      BY <1>5 DEF MarkFailed, Running, HandlerStep, ClaimsInv, ClaimsTypeOK
    <3> QED
      BY <1>5, <2>2, <3>1, RequestMovesInv DEF MarkFailed
  <2> QED
    BY <2>1, <2>2
<1>6. ASSUME NEW h \in Handlers, Mishap(h)
      PROVE  ClaimsInv'
  <2>1. Running(h) /\ "failing" \in HandlerStep \ {"idle"} /\ faults' \in 0..MaxFaults
    BY <1>0, <1>6
       DEF Mishap, HandlingFails, MarkProcessedFails, Abandon, Running, HandlerStep
  <2>2. \/ handler' = [handler EXCEPT ![h].at = "failing"]
        \/ handler' = [handler EXCEPT ![h] = Idle]
    BY <1>6 DEF Mishap, HandlingFails, MarkProcessedFails, Abandon
  <2>3. row' = row
    BY <1>6 DEF Mishap, HandlingFails, MarkProcessedFails, Abandon
  <2> QED
    BY <2>1, <2>2, <2>3, RequestMovesInv
<1>7. ASSUME NEW e \in Events, TimeOut(e)
      PROVE  ClaimsInv'
  BY <1>7, TimeOutInv
<1>8. CASE UNCHANGED claimVars
  BY <1>8
     DEF claimVars, ClaimsInv, ClaimsTypeOK, EventKnown, TokenNotAhead,
         TokensDiffer, OnlyTheOwnerSettles, Running
<1> QED
  BY <1>1, <1>2, <1>3, <1>4, <1>5, <1>6, <1>7, <1>8 DEF ClaimsNext, Settle

THEOREM ClaimsInvariant == ClaimsSpec => []ClaimsInv
  BY ClaimsInitInv, ClaimsInvInductive, PTL DEF ClaimsSpec

(***************************************************************************)
(* The rows, requests and the fault counter keep their types.              *)
(***************************************************************************)
THEOREM ClaimsTypeCorrect == ClaimsSpec => []ClaimsTypeOK
<1>1. ClaimsInv => ClaimsTypeOK
  BY DEF ClaimsInv
<1> QED
  BY <1>1, ClaimsInvariant, PTL

(***************************************************************************)
(* A row is never settled under the attempt that owns it, whatever the     *)
(* number of deliveries, takeovers and crashes.                            *)
(***************************************************************************)
THEOREM OnlyTheOwnerSettlesAlways == ClaimsSpec => []OnlyTheOwnerSettles
<1>1. ClaimsInv => OnlyTheOwnerSettles
  BY DEF ClaimsInv
<1> QED
  BY <1>1, ClaimsInvariant, PTL

(***************************************************************************)
(* An event never has two owners.                                          *)
(***************************************************************************)
THEOREM OneOwnerAlways == ClaimsSpec => []OneOwner
<1>1. ClaimsInv => OneOwner
  BY DEF ClaimsInv, OneOwner, TokensDiffer, Owns
<1> QED
  BY <1>1, ClaimsInvariant, PTL

\* A step leaves processed rows alone.
LEMMA StepKeepsProcessed ==
  ASSUME ClaimsInv, [ClaimsNext]_claimVars, NEW e \in Events,
         row[e].status = "processed"
  PROVE  row'[e] = row[e]
<1> USE DEF ClaimsInv, ClaimsTypeOK, EventKnown
<1>1. ASSUME NEW h \in Handlers, NEW f \in Events, Claim(h, f)
      PROVE  row'[e] = row[e]
  BY <1>1 DEF Claim, Claimable
<1>2. ASSUME NEW h \in Handlers, Settle(h)
      PROVE  row'[e] = row[e]
  BY <1>2 DEF Settle, MarkProcessed, MarkFailed, Owns
<1>3. ASSUME NEW h \in Handlers, Mishap(h)
      PROVE  row'[e] = row[e]
  BY <1>3 DEF Mishap, HandlingFails, MarkProcessedFails, Abandon
<1>4. ASSUME NEW f \in Events, TimeOut(f)
      PROVE  row'[e] = row[e]
  BY <1>4 DEF TimeOut
<1> QED
  BY <1>1, <1>2, <1>3, <1>4 DEF ClaimsNext, Handle, Notified, claimVars

(***************************************************************************)
(* A processed row is never claimed or changed again.                      *)
(***************************************************************************)
THEOREM ProcessedStaysProcessed == ClaimsSpec => ProcessedIsFinal
<1>1. ClaimsInv /\ [ClaimsNext]_claimVars
        => [\A e \in Events : row[e].status = "processed" => row'[e] = row[e]]_claimVars
  BY StepKeepsProcessed
<1> QED
  BY <1>1, ClaimsInvariant, PTL DEF ClaimsSpec, ProcessedIsFinal

(***************************************************************************)
(* Only a request that went through the business transaction and still    *)
(* owns the row marks it processed: an acknowledged event has been acted   *)
(* upon.                                                                   *)
(***************************************************************************)
THEOREM AcknowledgedWhenHandled == ClaimsSpec => ProcessedOnlyWhenHandled
<1>1. ASSUME ClaimsInv, [ClaimsNext]_claimVars, NEW e \in Events,
             row[e].status # "processed", row'[e].status = "processed"
      PROVE  \E h \in Handlers :
               handler[h] = [at |-> "handled", event |-> e, token |-> row[e].token]
  <2> USE <1>1 DEF ClaimsInv, ClaimsTypeOK, EventKnown, Row
  <2>1. ASSUME NEW h \in Handlers, NEW f \in Events, Claim(h, f)
        PROVE  FALSE
    BY <2>1 DEF Claim
  <2>2. ASSUME NEW h \in Handlers, MarkFailed(h)
        PROVE  FALSE
    BY <2>2 DEF MarkFailed, Owns
  <2>3. ASSUME NEW h \in Handlers, Mishap(h)
        PROVE  FALSE
    BY <2>3 DEF Mishap, HandlingFails, MarkProcessedFails, Abandon
  <2>4. ASSUME NEW f \in Events, TimeOut(f)
        PROVE  FALSE
    BY <2>4 DEF TimeOut
  <2>5. ASSUME NEW h \in Handlers, MarkProcessed(h)
        PROVE  handler[h] = [at |-> "handled", event |-> e, token |-> row[e].token]
    <3>1. Owns(h) /\ handler[h].event = e
      BY <2>5 DEF MarkProcessed, Owns
    <3>2. handler[h].at = "handled" /\ handler[h].token = row[e].token
      BY <2>5, <3>1 DEF MarkProcessed, Owns
    <3> QED
      BY <3>1, <3>2 DEF HandlerState
  <2> QED
    BY <2>1, <2>2, <2>3, <2>4, <2>5
       DEF ClaimsNext, Handle, Notified, Settle, claimVars
<1>2. ClaimsInv /\ [ClaimsNext]_claimVars
        => [\A e \in Events :
             row[e].status # "processed" /\ row'[e].status = "processed"
               => \E h \in Handlers :
                    handler[h] = [at |-> "handled", event |-> e,
                                  token |-> row[e].token]]_claimVars
  BY <1>1
<1> QED
  BY <1>2, ClaimsInvariant, PTL DEF ClaimsSpec, ProcessedOnlyWhenHandled
==============================================================================
