----------------------------- MODULE MCPackages -----------------------------
(* Packages on small instances.  Uploads are interchangeable, and so are   *)
(* versions.                                                               *)
EXTENDS Packages, TLC

PackageSymmetry == Permutations(Uploads) \cup Permutations(Versions)
=============================================================================
