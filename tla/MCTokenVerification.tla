------------------------- MODULE MCTokenVerification -------------------------
(* Small instances of TokenVerification for TLC. *)
EXTENDS TokenVerification, TLC

\* Key ids, keys and containers are interchangeable.
MCSymmetry ==
    Permutations(Container) \cup Permutations(Kid) \cup Permutations(Key)
=============================================================================
