---------------------------- MODULE MCOperations ----------------------------
(* Small instances of Operations for TLC.                                  *)
EXTENDS Operations, TLC

\* Requests are interchangeable, and so are the ids that will be drawn.
CallSymmetry == Permutations(Requests) \cup Permutations(Ids)
=============================================================================
