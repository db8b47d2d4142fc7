-------------------------- MODULE MCWebhookDelivery --------------------------
(* Instances of WebhookDelivery for TLC. *)
EXTENDS WebhookDelivery, TLC

Symm == Permutations(Subs) \cup Permutations(Events) \cup Permutations(Threads)
=============================================================================
