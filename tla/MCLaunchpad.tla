---------------------------- MODULE MCLaunchpad ----------------------------
(* Instances of Launchpad for TLC.                                           *)
EXTENDS Launchpad

CONSTANTS app, alice, bob

(* The file adds an app; a restart drops it until the file is loaded.        *)
AppFiles == {Declared(ListFile(<<Entry(app, "", TRUE)>>))}

(* A build with both identities, and one from which bob was removed.         *)
TwoBuilds == {{alice, bob}, {alice}}
=============================================================================
