------------------------ MODULE MCEmailNotifications ------------------------
(* Small instances of EmailNotifications for TLC. *)
EXTENDS EmailNotifications, TLC

\* Invocations, users and channels are interchangeable.
MCSymmetry ==
    Permutations(Worker) \cup Permutations(Identity) \cup Permutations(Channel)
=============================================================================
