-------------------------- MODULE MCSubscriberSystem --------------------------
(* Small instances of SubscriberSystem for TLC. *)
EXTENDS SubscriberSystem, TLC

CONSTANTS alice, bob, general

\* alice and bob may use the channel, and nobody else.
MCContexts == [i \in Identity |-> IF i \in {alice, bob} THEN {general} ELSE {}]

\* alice and bob are interchangeable, and so are the calls.
MCSymmetry == Permutations({alice, bob}) \cup Permutations(Request)

\* What the stack sets in the environment of the tests (isTest).
MCBatchSize == 1
MCTimeout == 30
=============================================================================
