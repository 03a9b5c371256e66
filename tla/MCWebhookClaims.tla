---------------------------- MODULE MCWebhookClaims ----------------------------
(* A small instance of WebhookClaims for TLC: see MCWebhookClaims.cfg. *)
EXTENDS WebhookClaims
==============================================================================
