----------------------------- MODULE MCAuthCode -----------------------------
(* Instances of AuthCode for TLC: the values of its constants are in the     *)
(* .cfg files, the permutations TLC may exploit are here.                    *)
EXTENDS AuthCode, TLC

(* Codes, exchanges and requests are interchangeable: an instance asks for a *)
(* refresh token in all its requests or in none. Subjects are not (a hint    *)
(* names one), nor client_ids (some are seeded).                             *)
Symmetry == Permutations(Codes) \cup Permutations(Exchanges) \cup Permutations(Requests)

ASSUME OfflineAllOrNone == OfflineRequests \in {Requests, {}}
=============================================================================
