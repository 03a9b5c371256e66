----------------------------- MODULE OrderStatus -----------------------------
(***************************************************************************)
(* The status table of an order (commande-status-transitions.ts) and the   *)
(* sets of statuses the services test for.  Pure operators: the modules    *)
(* that have orders as state EXTEND this one.                              *)
(***************************************************************************)

OrderStatuses ==
  { "paiement_en_attente", "paiement_a_verifier", "nouvelle",
    "preparee", "traitee", "annulee" }

\* ORDER_STATUS_TRANSITIONS: the statuses a status may be changed to.
Transitions ==
  [ paiement_en_attente |-> {"nouvelle", "annulee"},
    paiement_a_verifier |-> {"annulee"},
    nouvelle            |-> {"preparee", "annulee"},
    preparee            |-> {"traitee", "annulee"},
    traitee             |-> {},
    annulee             |-> {} ]

CanTransition(from, to) ==
  /\ {from, to} \subseteq OrderStatuses
  /\ to \in Transitions[from]

\* The statuses a cancellation gives the reservation back from.
CancellableStockReleaseStatuses ==
  { "paiement_en_attente", "paiement_a_verifier", "nouvelle", "preparee" }

\* The statuses that make an order a confirmed one (confirmedAt is set).
IsEligibleOrderStatus(s) == s \in {"nouvelle", "preparee", "traitee"}

\* What PATCH /commandes/:id/statut accepts beside "annulee", which is routed
\* to the cancellation.
StaffStatuses == {"nouvelle", "preparee", "traitee"}
==============================================================================
