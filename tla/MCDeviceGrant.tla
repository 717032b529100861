--------------------------- MODULE MCDeviceGrant ---------------------------
(* Instances of DeviceGrant for TLC.                                         *)
EXTENDS DeviceGrant, TLC

CONSTANTS seed, app

(* The file adds an app of either kind, or turns the seeded client public.   *)
OneEntryFiles ==
  {Declared(ListFile(<<e>>)) :
     e \in {Entry(app, "", TRUE), Entry(app, "none", FALSE), Entry(seed, "none", FALSE)}}

(* Polls, user codes and identities are interchangeable; flows are too, in   *)
(* an instance where all of them ask for a refresh token or none does.       *)
Symmetry == Permutations(Polls) \cup Permutations(UserCodes) \cup Permutations(Subjects)
              \cup Permutations(Flows)

ASSUME OfflineAllOrNone == OfflineFlows \in {Flows, {}}
=============================================================================
