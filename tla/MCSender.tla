------------------------------ MODULE MCSender ------------------------------
(* Small instances of the webhook sender for TLC. *)
EXTENDS WebhookSender
=============================================================================
