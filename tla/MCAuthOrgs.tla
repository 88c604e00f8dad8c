------------------------------ MODULE MCAuthOrgs ------------------------------
(* Small instances of AuthOrgs for TLC.                                     *)
EXTENDS AuthOrgs, TLC

Symmetric == Permutations(Requests) \cup Permutations(Users)
=============================================================================
