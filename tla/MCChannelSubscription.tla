----------------------- MODULE MCChannelSubscription ------------------------
(* Small instances of ChannelSubscription for TLC. *)
EXTENDS ChannelSubscription, TLC

CONSTANTS alice, general

\* alice may use the channel, and nobody else.
MCContexts == [i \in Identity |-> IF i = alice THEN {general} ELSE {}]
=============================================================================
