------------------------------ MODULE BackOffice ------------------------------
(***************************************************************************)
(* One employee in front of the back office.  What a page reads, which     *)
(* buttons and links it has is decided when it is rendered, from the       *)
(* permissions of the front end and, for an order, from its status then;   *)
(* whether a click is accepted is decided when it arrives, by the roles of *)
(* the API and its table of statuses.                                      *)
(*                                                                         *)
(* An employee without a session meets a redirection and is left out.      *)
(***************************************************************************)
EXTENDS BackOfficePages, OrderStatus, FiniteSets

VARIABLES
  role,    \* the role of the employee, who does not learn of a change
  statut,  \* the status of one order
  shown,   \* the page on display, with the role and the status it was rendered for
  answer   \* how the step just taken was answered, and what was on display then

officeVars == <<role, statut, shown, answer>>

\* CommandeStatusActions: the buttons for an order, by its status.
StatusActions(s) ==
  CASE s \in {"traitee", "annulee"} -> {}
    [] s \in {"paiement_en_attente", "paiement_a_verifier"} -> {"annulee"}
    [] s = "nouvelle" -> {"preparee", "traitee", "annulee"}
    [] s = "preparee" -> {"traitee", "annulee"}

\* PreparationStatusActions: one button, for the next status.
PreparationActions(s) ==
  CASE s = "nouvelle" -> {"preparee"}
    [] s = "preparee" -> {"traitee"}
    [] OTHER -> {}

OrderPages == {"commandes", "commande", "preparation"}

ButtonsOf(page, s) ==
  IF page = "preparation" THEN PreparationActions(s) ELSE StatusActions(s)

Nowhere == [page |-> "none", role |-> "none", statut |-> "none"]
NoAnswer == [outcome |-> "none", from |-> Nowhere]

\* requireUiPermission, and the render.
Rendered(p) ==
  LET seen == IF Allowed(role, Pages[p].needs) THEN p ELSE "forbidden"
  IN  [page |-> seen, role |-> role, statut |-> IF seen \in OrderPages THEN statut ELSE "none"]

-----------------------------------------------------------------------------
(* Actions.                                                                *)

OfficeInit ==
  /\ role \in Roles
  /\ statut = "paiement_en_attente"
  /\ shown = Rendered("home")
  /\ answer = NoAnswer

\* An administrator changes the role of the employee.
ChangeRole ==
  /\ \E r \in Roles \ {role} : role' = r
  /\ answer' = NoAnswer
  /\ UNCHANGED <<statut, shown>>

\* A payment, a cleanup, another employee.
OrderMoves ==
  /\ \E s \in OrderStatuses : CanTransition(statut, s) /\ statut' = s
  /\ answer' = NoAnswer
  /\ UNCHANGED <<role, shown>>

\* An address typed, a page reloaded.
OpenPage(p) ==
  /\ shown' = Rendered(p)
  /\ answer' = NoAnswer
  /\ UNCHANGED <<role, statut>>

Done == answer' = NoAnswer
Refused(outcome) == answer' = [outcome |-> outcome, from |-> shown]

\* A link of the page or of the navigation around it.  (The navigation goes by a
\* session of its own, which may be older than the page: that is left out.)
FollowLink(link) ==
  /\ link \in Pages[shown.page].links \cup NavLinks
  /\ Allowed(shown.role, link[1])
  /\ shown' = Rendered(link[2])
  /\ IF shown'.page = link[2] THEN Done ELSE Refused("redirected")
  /\ UNCHANGED <<role, statut>>

\* A read of the page, or a click on what it offers.
UseOffer(offer) ==
  /\ offer \in Pages[shown.page].offers
  /\ Allowed(shown.role, offer[1])
  /\ IF ~ Known(offer[2]) THEN Refused("unknown")
     ELSE IF GuardPasses(role, offer[2]) THEN Done ELSE Refused("forbidden")
  /\ UNCHANGED <<role, statut, shown>>

\* A status button; cancelling a cancelled order is answered with the order.
ClickStatus(s) ==
  /\ shown.page \in OrderPages
  /\ Allowed(shown.role, "manageOrders")
  /\ s \in ButtonsOf(shown.page, shown.statut)
  /\ IF ~ GuardPasses(role, StatusAction) THEN Refused("forbidden") /\ UNCHANGED statut
     ELSE IF CanTransition(statut, s) THEN Done /\ statut' = s
     ELSE /\ UNCHANGED statut
          /\ IF s = "annulee" /\ statut = "annulee" THEN Done ELSE Refused("refused")
  /\ UNCHANGED <<role, shown>>

OfficeNext ==
  \/ ChangeRole \/ OrderMoves
  \/ \E p \in DOMAIN Pages :
       \/ OpenPage(p)
       \/ \E offer \in Pages[p].offers : UseOffer(offer)
       \/ \E link \in Pages[p].links \cup NavLinks : FollowLink(link)
  \/ \E s \in OrderStatuses : ClickStatus(s)

OfficeSpec == OfficeInit /\ [][OfficeNext]_officeVars

-----------------------------------------------------------------------------
(* Properties.                                                             *)

\* What a page offers, reads or links to is what the API accepts and the page it
\* leads to shows, although the permissions of the front end, the routes it
\* writes, the roles of the API and its table of statuses are kept apart: what is
\* refused is what the role was changed for, or the order moved on from, since the
\* page was rendered.  One button is an exception: `Traiter' on the page of an
\* order that is still to be prepared is never accepted.
OffersAreHonoured ==
  /\ answer.outcome # "unknown"
  /\ answer.outcome \in {"forbidden", "redirected"} => role # answer.from.role
  /\ answer.outcome = "refused" =>
       \/ statut # answer.from.statut
       \/ statut = "nouvelle" /\ answer.from.page \in {"commandes", "commande"}
=============================================================================
