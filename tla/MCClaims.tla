------------------------------ MODULE MCClaims ------------------------------
(* Instances of Claims for TLC.                                              *)
EXTENDS Claims, TLC

CONSTANTS seed, app

(* The file adds the app or drops it.                                        *)
AppFiles == {Declared(ListFile(entries)) : entries \in {<<>>, <<Entry(app, "", TRUE)>>}}

Symmetry == Permutations(Refreshes)
=============================================================================
