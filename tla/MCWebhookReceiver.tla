------------------------- MODULE MCWebhookReceiver -------------------------
(* Small instances of WebhookReceiver for TLC.                              *)
EXTENDS WebhookReceiver, TLC

Symmetry == Permutations(Deliveries) \cup Permutations(Webhooks)
=============================================================================
