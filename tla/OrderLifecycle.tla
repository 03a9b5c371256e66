---------------------------- MODULE OrderLifecycle ----------------------------
(***************************************************************************)
(* What the order service promises, whoever acts on an order and in        *)
(* whatever order they come: an order holds its stock reservation from its *)
(* creation, follows the status table, and gives the reservation back in   *)
(* the very step that cancels it, once.  Checkout.tla, with its payment    *)
(* sessions, webhooks, cleaners and crashes, is checked and proved to      *)
(* implement this module.                                                  *)
(***************************************************************************)
EXTENDS OrderStatus

CONSTANTS
  Orders,        \* the orders that may ever be created
  LegacyOrders   \* those already stored with the status paiement_a_verifier

VARIABLES
  status,        \* status of each order, "absent" before it is created
  reservation    \* its claim on the stock: "none", "held" or "released"

lifecycleVars == <<status, reservation>>

LifecycleTypeOK ==
  /\ status \in [Orders -> OrderStatuses \cup {"absent"}]
  /\ reservation \in [Orders -> {"none", "held", "released"}]

LifecycleInit ==
  /\ status = [o \in Orders |->
                 IF o \in LegacyOrders THEN "paiement_a_verifier" ELSE "absent"]
  /\ reservation = [o \in Orders |->
                      IF o \in LegacyOrders THEN "held" ELSE "none"]

\* A checkout or a staff order: created and reserved in one transaction.
Place(o) ==
  /\ status[o] = "absent"
  /\ \E s \in {"paiement_en_attente", "nouvelle"} :
       status' = [status EXCEPT ![o] = s]
  /\ reservation' = [reservation EXCEPT ![o] = "held"]

\* Any change of status but a cancellation leaves the reservation alone.
Advance(o) ==
  /\ \E s \in OrderStatuses \ {"annulee"} :
       /\ CanTransition(status[o], s)
       /\ status' = [status EXCEPT ![o] = s]
  /\ UNCHANGED reservation

\* A cancellation gives back the reservation in the same transaction.
Cancel(o) ==
  /\ CanTransition(status[o], "annulee")
  /\ reservation[o] = "held"
  /\ status' = [status EXCEPT ![o] = "annulee"]
  /\ reservation' = [reservation EXCEPT ![o] = "released"]

LifecycleNext == \E o \in Orders : Place(o) \/ Advance(o) \/ Cancel(o)

LifecycleSpec == LifecycleInit /\ [][LifecycleNext]_lifecycleVars
==============================================================================
