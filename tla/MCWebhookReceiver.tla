------------------------- MODULE MCWebhookReceiver --------------------------
(* Small instances of WebhookReceiver for TLC. *)
EXTENDS WebhookReceiver, TLC

\* Channels and containers are interchangeable.
MCSymmetry == Permutations(Channel) \cup Permutations(Container)
=============================================================================
