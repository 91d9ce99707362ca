-------------------------- MODULE MCConfigureChat ---------------------------
(* Small instances of ConfigureChat for TLC. *)
EXTENDS ConfigureChat, TLC

\* Runs, users and roles are interchangeable.
MCSymmetry == Permutations(Run) \cup Permutations(User) \cup Permutations(Role)
=============================================================================
