------------------------------ MODULE MCAccess ------------------------------
(* Requests, tokens and usernames are interchangeable in Access.           *)
EXTENDS Access, TLC

AccessSymmetry == Permutations(Requests) \cup Permutations(Tokens) \cup Permutations(Usernames)
=============================================================================
