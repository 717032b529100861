--------------------------- MODULE ClientsWatcher ---------------------------
(* The clients file under the IdP: an operator who edits it at any moment,   *)
(* the boot sequence that loads it (cmd/idp/main.go, WatchClientsFile), and  *)
(* the goroutine that polls its modification time and reloads it.            *)
(*                                                                           *)
(* Every stat, read and apply is a step of its own, so an edit can fall      *)
(* between any two. A write in pieces (truncate, then content) is two edits. *)
EXTENDS Naturals, Sequences, Registry

CONSTANTS Contents,      \* what the file may hold, MissingFile for no file
          MaxEdits,      \* edits of the file
          MaxRestarts,   \* restarts of the process
          StrictClock    \* whether two edits always differ in modification time

ASSUME WatcherAssumption ==
  /\ \A f \in Contents : f.status \in {"missing", "broken", "list"} /\ f.entries \in Seq(Entries)
  /\ MaxEdits \in Nat
  /\ MaxRestarts \in Nat
  /\ StrictClock \in BOOLEAN

VARIABLES written,       \* the file: its versions, the last one on disk
          clock,         \* the modification time of the last edit
          registry,      \* Storage.clients
          pc,            \* where boot, then the polling goroutine, is
          last,          \* the modification time last seen
          loaded,        \* the clients a load returned, and its version
          applied,       \* history: the version last applied, 0 since boot
          restarts,      \* restarts so far, a bound
          fresh          \* history: the version on disk was written while the
                         \* goroutine watched, with a time no earlier one had

file == <<written, clock, fresh>>
vars == <<file, registry, pc, last, loaded, applied, restarts>>

Version == Len(written)
Disk == written[Version]

(* clientsModTime: the zero time when the stat fails.                        *)
ZeroTime == 0
ClientsModTime == IF Disk.status = "missing" THEN ZeroTime ELSE clock

NothingLoaded == [version |-> 0, clients |-> [c \in ClientIDs |-> "absent"]]

Watching == pc \in {"tick", "reload", "reapply"}

Init ==
  /\ written \in {<<f>> : f \in Contents}
  /\ clock = 1
  /\ fresh = FALSE
  /\ registry = SeedClients
  /\ pc = "stat"
  /\ last = ZeroTime
  /\ loaded = NothingLoaded
  /\ applied = 0
  /\ restarts = 0
-----------------------------------------------------------------------------
(* The operator: writes, truncates, breaks, removes or restores the file. On *)
(* a coarse clock two edits may carry one modification time.                 *)
Edit(f) ==
  /\ Version <= MaxEdits
  /\ f # Disk
  /\ written' = Append(written, f)
  /\ \E tick \in (IF StrictClock THEN {1} ELSE {0, 1}) :
       /\ clock' = clock + tick
       /\ fresh' = (Watching /\ tick = 1)
  /\ UNCHANGED <<registry, pc, last, loaded, applied, restarts>>
-----------------------------------------------------------------------------
(* Mutants: a rejected entry does not reject the file; text that does not    *)
(* parse is an empty list.                                                   *)
LoadClientsFile_keepsRejected(onSuccess, onError) ==
  IF Disk.status = "list"
  THEN /\ loaded' = [version |-> Version, clients |-> Declared(Disk)]
       /\ pc' = onSuccess
  ELSE /\ pc' = onError
       /\ UNCHANGED loaded
LoadClientsFile_brokenIsEmpty(onSuccess, onError) ==
  IF Loads(Disk) \/ Disk.status = "broken"
  THEN /\ loaded' = [version |-> Version, clients |-> Declared(Disk)]
       /\ pc' = onSuccess
  ELSE /\ pc' = onError
       /\ UNCHANGED loaded

(* Boot. LoadClientsFile fails on a file that is gone, does not parse or has *)
(* a rejected entry; the caller exits.                                       *)
LoadClientsFile(onSuccess, onError) ==
  IF Loads(Disk)
  THEN /\ loaded' = [version |-> Version, clients |-> Declared(Disk)]
       /\ pc' = onSuccess
  ELSE /\ pc' = onError
       /\ UNCHANGED loaded

(* No file at boot: the server runs on the seeded clients and never looks    *)
(* for the file again.                                                       *)
BootStat ==
  /\ pc = "stat"
  /\ pc' = IF Disk.status = "missing" THEN "unwatched" ELSE "load"
  /\ UNCHANGED <<file, registry, last, loaded, applied, restarts>>

BootLoad ==
  /\ pc = "load"
  /\ LoadClientsFile("apply", "exited")
  /\ UNCHANGED <<file, registry, last, applied, restarts>>

Apply ==
  /\ registry' = ReplaceFileClients(registry, loaded.clients)
  /\ applied' = loaded.version

BootApply ==
  /\ pc = "apply"
  /\ Apply
  /\ pc' = "last"
  /\ UNCHANGED <<file, last, loaded, restarts>>

BootModTime ==
  /\ pc = "last"
  /\ last' = ClientsModTime
  /\ pc' = "tick"
  /\ UNCHANGED <<file, registry, loaded, applied, restarts>>
-----------------------------------------------------------------------------
(* Mutant: the zero time is taken for "no time seen yet".                    *)
Poll_zeroIsBaseline ==
  /\ pc = "tick"
  /\ ClientsModTime # last
  /\ last' = ClientsModTime
  /\ pc' = IF last = ZeroTime THEN "tick" ELSE "reload"
  /\ UNCHANGED <<file, registry, loaded, applied, restarts>>

(* The polling goroutine. A tick that finds the time unchanged changes       *)
(* nothing. The time is remembered before the load is known to succeed.      *)
Poll ==
  /\ pc = "tick"
  /\ ClientsModTime # last
  /\ last' = ClientsModTime
  /\ pc' = "reload"
  /\ UNCHANGED <<file, registry, loaded, applied, restarts>>

Reload ==
  /\ pc = "reload"
  /\ LoadClientsFile("reapply", "tick")
  /\ UNCHANGED <<file, registry, last, applied, restarts>>

(* Mutant: the time is remembered after the apply, from a stat of its own.   *)
ReApply_statsAgain ==
  /\ pc = "reapply"
  /\ Apply
  /\ last' = ClientsModTime
  /\ pc' = "tick"
  /\ UNCHANGED <<file, loaded, restarts>>

ReApply ==
  /\ pc = "reapply"
  /\ Apply
  /\ pc' = "tick"
  /\ UNCHANGED <<file, last, loaded, restarts>>

(* The process is stopped, or has exited, and is started again: nothing but  *)
(* the file survives.                                                        *)
Restart ==
  /\ restarts < MaxRestarts
  /\ restarts' = restarts + 1
  /\ registry' = SeedClients
  /\ pc' = "stat"
  /\ last' = ZeroTime
  /\ loaded' = NothingLoaded
  /\ applied' = 0
  /\ fresh' = FALSE
  /\ UNCHANGED <<written, clock>>
-----------------------------------------------------------------------------
Watcher == BootStat \/ BootLoad \/ BootApply \/ BootModTime \/ Poll \/ Reload \/ ReApply

Next == (\E f \in Contents : Edit(f)) \/ Watcher \/ Restart

Spec == Init /\ [][Next]_vars

(* The boot sequence runs and the ticker keeps firing; nobody has to edit    *)
(* the file or restart the process.                                          *)
FairSpec == Spec /\ WF_vars(Watcher)
-----------------------------------------------------------------------------
(* Types. The file's versions are those the operator wrote.                  *)
TypeOK ==
  /\ written \in Seq(Contents) /\ Version \in 1..(MaxEdits + 1)
  /\ clock \in 1..(MaxEdits + 1)
  /\ fresh \in BOOLEAN
  /\ registry \in Registries
  /\ pc \in {"stat", "load", "apply", "last", "tick", "reload", "reapply",
             "unwatched", "exited"}
  /\ last \in 0..(MaxEdits + 1)
  /\ loaded \in [version : 0..(MaxEdits + 1), clients : Registries]
  /\ applied \in 0..(MaxEdits + 1)
  /\ restarts \in 0..MaxRestarts
-----------------------------------------------------------------------------
(* Safety.                                                                   *)

Promise == INSTANCE FileRegistry WITH
  ClientIDs <- ClientIDs, Seeds <- Seeds, Contents <- Contents, MaxEdits <- MaxEdits,
  registry <- registry, written <- written, applied <- applied

(* The watcher implements the registry FileRegistry promises: whole files,   *)
(* only files that load, never an older version over a newer one, whatever   *)
(* the operator does between a stat, a read and an apply.                    *)
ImplementsFileRegistry == Promise!Spec

(* Outside the seed the registry is exactly one version of the file: no app  *)
(* survives from an older version and none is missing (ReplaceFileClients    *)
(* drops what is not seeded before it stores). Seeded apps never disappear.  *)
OneVersionAtATime ==
  /\ \A c \in ClientIDs \ Seeds :
       registry[c] = IF applied = 0 THEN "absent" ELSE Declared(written[applied])[c]
  /\ Seeds \subseteq Registered(registry)

(* A version written while the goroutine is watching, with a modification    *)
(* time of its own, and left in place, is registered in the end if it loads, *)
(* also one written between the poll and the read or the read and the apply, *)
(* and after any number of files that do not load.                           *)
EditWhileWatchingAppears ==
  \A v \in 1..(MaxEdits + 1) :
    Version = v /\ fresh /\ Loads(Disk) ~> applied = v \/ Version # v \/ ~fresh

(* So is a file put back with an old modification time, after a removal the  *)
(* goroutine saw: all that counts is a time other than the remembered one.   *)
NoticedEditAppears ==
  \A v \in 1..(MaxEdits + 1), n \in 0..MaxRestarts :
    Version = v /\ restarts = n /\ pc = "tick" /\ ClientsModTime # last /\ Loads(Disk)
      ~> applied = v \/ Version # v \/ restarts # n
-----------------------------------------------------------------------------
(* What the repository says and the code does not do.                        *)

(* "seeded clients are never touched" (storage.go:98-99), of                 *)
(* ReplaceFileClients: a file that names a seeded id replaces it.            *)
SeedsUntouched == \A c \in Seeds : registry[c] = SeedClients[c]

(* "edit the file and a new app tile appears with no restart" (README): a    *)
(* file that is left in place and loads is registered, once the IdP watches. *)
(* An edit between the boot load and the stat that follows it is not seen.   *)
EditAppears ==
  \A v \in 1..(MaxEdits + 1), n \in 0..MaxRestarts :
    Version = v /\ restarts = n /\ Watching /\ Loads(Disk)
      ~> applied = v \/ Version # v \/ restarts # n
=============================================================================
