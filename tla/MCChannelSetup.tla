--------------------------- MODULE MCChannelSetup ---------------------------
(* Small instances of ChannelSetup for TLC. *)
EXTENDS ChannelSetup, TLC

CONSTANTS alice, bob, general, shipment

\* Both users share one channel, which they race to create.
MCContexts == (alice :> {general, shipment}) @@ (bob :> {general})

\* The calls of the mutation are interchangeable.
MCSymmetry == Permutations(Request)
=============================================================================
