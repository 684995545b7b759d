-------------------------- MODULE MCWebhookInbox --------------------------
(* The instances of WebhookInbox: every constant has its value in a cfg.     *)
EXTENDS WebhookInbox, TLC
===========================================================================
