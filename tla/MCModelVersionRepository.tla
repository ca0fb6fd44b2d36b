---------------------- MODULE MCModelVersionRepository ----------------------
(* Small instances of ModelVersionRepository for TLC.                      *)
EXTENDS ModelVersionRepository, TLC

\* Versions and callers are interchangeable.
VersionAndCallerSymmetry == Permutations(Versions) \cup Permutations(Callers)
=============================================================================
