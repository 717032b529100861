-------------------------- MODULE MCClientsWatcher --------------------------
(* Instances of ClientsWatcher for TLC: the contents the file may have.      *)
EXTENDS ClientsWatcher

CONSTANTS seed, app

AppSecret == Entry(app, "", TRUE)
AppPublic == Entry(app, "none", FALSE)
AppContradictory == Entry(app, "none", TRUE)
Nameless == Entry(NoID, "", TRUE)
SeedPublic == Entry(seed, "none", FALSE)

(* No file, text that does not parse, the seeded client alone (the app is    *)
(* gone), one good entry, the app listed twice, changed, and two files whose *)
(* first entry is good and whose second is rejected.                         *)
FileContents ==
  {MissingFile, BrokenFile, ListFile(<<SeedPublic>>), ListFile(<<AppSecret>>),
   ListFile(<<AppSecret, AppPublic>>), ListFile(<<AppPublic, AppContradictory>>),
   ListFile(<<AppSecret, Nameless>>)}
=============================================================================
