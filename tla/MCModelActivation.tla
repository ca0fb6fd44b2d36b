-------------------------- MODULE MCModelActivation --------------------------
(* Small instances of ModelActivation for TLC.                             *)
EXTENDS ModelActivation, TLC

\* Requests are interchangeable, and so are packages.
RequestSymmetry == Permutations(Callers) \cup Permutations(Packages)
=============================================================================
