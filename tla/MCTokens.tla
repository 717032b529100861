------------------------------ MODULE MCTokens ------------------------------
(* Instances of Tokens for TLC.                                              *)
EXTENDS Tokens, TLC

Symmetry == Permutations(Refreshes) \cup Permutations(Revocations) \cup Permutations(ClientIDs)
=============================================================================
