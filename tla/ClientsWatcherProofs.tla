------------------------- MODULE ClientsWatcherProofs -------------------------
(* Theorems about ClientsWatcher, for every set of client_ids and of file    *)
(* contents and every number of edits and restarts.                          *)
EXTENDS ClientsWatcher, TLAPS, WellFoundedInduction

(* How many edits and restarts a behaviour has.                              *)
LEMMA Bounds == MaxEdits \in Nat /\ MaxRestarts \in Nat
  BY WatcherAssumption

(* Among the entries of a file that name one client there is a last one:     *)
(* the one ReplaceFileClients leaves registered.                             *)
LEMMA LastEntry ==
  ASSUME NEW n \in Nat, NEW S, S \subseteq 1..n, S # {}
  PROVE  \E i \in S : \A j \in S : j <= i
  <1> DEFINE R == {p \in Nat \X Nat : p[1] < p[2]}
             T == {n - i : i \in S}
  <1>1. T \subseteq Nat /\ T # {}
    <2>1. \A i \in S : n - i \in Nat
      OBVIOUS
    <2> QED BY <2>1
  <1>2. PICK x \in T : \A y \in T : ~(<<y, x>> \in R)
    <2>1. IsWellFoundedOn(R, Nat)
      BY NatLessThanWellFounded DEF OpToRel
    <2> HIDE DEF R, T
    <2> QED BY <1>1, <2>1, WFMin
  <1>3. \A y \in T : ~(y < x)
    BY <1>1, <1>2
  <1>4. PICK i \in S : x = n - i
    BY <1>2
  <1>5. ASSUME NEW j \in S PROVE j <= i
    <2>1. n - j \in T
      OBVIOUS
    <2>2. ~(n - j < n - i)
      BY <1>3, <1>4, <2>1
    <2> HIDE DEF T
    <2> QED BY <2>2
  <1> QED BY <1>5

(* A file that loads declares one registered kind for every client it names  *)
(* and none for the others (LoadClientsFile rejects the rest).               *)
LEMMA DeclaredType ==
  ASSUME NEW f \in Contents, Loads(f)
  PROVE  Declared(f) \in Registries
  <1> DEFINE named(c) == {i \in DOMAIN f.entries : f.entries[i].client_id = c}
             final(c) == CHOOSE i \in named(c) : \A j \in named(c) : j <= i
  <1>1. f.entries \in Seq(Entries)
    BY WatcherAssumption
  <1>2. ASSUME NEW c \in ClientIDs, named(c) # {} PROVE final(c) \in DOMAIN f.entries
    <2>1. \E i \in named(c) : \A j \in named(c) : j <= i
      <3>1. Len(f.entries) \in Nat /\ named(c) \subseteq 1..Len(f.entries)
        BY <1>1
      <3> HIDE DEF named
      <3> QED BY <1>2, <3>1, LastEntry
    <2>2. final(c) \in named(c)
      BY <2>1
    <2> QED BY <2>2
  <1>3. \A i \in DOMAIN f.entries : AuthMethodFromFile(f.entries[i]) \in RegisteredKinds
    <2> SUFFICES ASSUME NEW i \in DOMAIN f.entries
                 PROVE  AuthMethodFromFile(f.entries[i]) \in RegisteredKinds
      OBVIOUS
    <2>1. AuthMethodFromFile(f.entries[i]) # "error"
      BY DEF Loads, Accepted
    <2> QED BY <2>1 DEF AuthMethodFromFile, RegisteredKinds
  <1>4. \A c \in ClientIDs :
          Declared(f)[c] = IF named(c) = {} THEN "absent" ELSE AuthMethodFromFile(f.entries[final(c)])
    BY DEF Declared
  <1>5. \A c \in ClientIDs : Declared(f)[c] \in Kinds
    <2> HIDE DEF named, final
    <2> QED BY <1>2, <1>3, <1>4 DEF Kinds
  <1> QED BY <1>5 DEF Declared, Registries

(* The apply step of a reload yields a registry again.                       *)
LEMMA ReplaceType ==
  ASSUME NEW reg \in Registries, NEW f \in Registries
  PROVE  ReplaceFileClients(reg, f) \in Registries
  BY DEF Registries, ReplaceFileClients, Kinds

(* After the apply step every client outside the seed is as the file says,   *)
(* and no seeded client has gone (ReplaceFileClients).                       *)
LEMMA ReplaceEffect ==
  ASSUME NEW reg \in Registries, NEW f \in Registries, Seeds \subseteq Registered(reg)
  PROVE  /\ \A c \in ClientIDs \ Seeds : ReplaceFileClients(reg, f)[c] = f[c]
         /\ Seeds \subseteq Registered(ReplaceFileClients(reg, f))
  BY SeedsAssumption DEF ReplaceFileClients, Registered

(* The seed is a registry in which exactly the seeded clients are registered. *)
LEMMA SeedType ==
  /\ SeedClients \in Registries
  /\ \A c \in ClientIDs \ Seeds : SeedClients[c] = "absent"
  /\ Seeds \subseteq Registered(SeedClients)
  BY SeedsAssumption DEF SeedClients, Registries, Kinds, RegisteredKinds, Registered
-----------------------------------------------------------------------------
(* The strengthening: what was loaded is a version that was on disk and      *)
(* loads, and it is no older than what is applied.                           *)
LoadedInv ==
  /\ clock <= Version
  /\ applied <= loaded.version /\ loaded.version <= Version
  /\ loaded.version > 0 =>
       /\ Loads(written[loaded.version])
       /\ loaded.clients = Declared(written[loaded.version])
  /\ pc \in {"apply", "reapply"} => loaded.version > 0

IInv == TypeOK /\ LoadedInv /\ OneVersionAtATime

(* A process that has just started has loaded nothing; nor has one that is   *)
(* started again.                                                            *)
LEMMA NothingType ==
  /\ NothingLoaded.version = 0
  /\ NothingLoaded \in [version : 0..(MaxEdits + 1), clients : Registries]
  BY Bounds DEF NothingLoaded, Registries, Kinds

(* A process that boots with whatever file there is.                         *)
LEMMA InvInit == Init => IInv
  <1> SUFFICES ASSUME Init PROVE IInv
    OBVIOUS
  <1>1. PICK f \in Contents : written = <<f>>
    BY DEF Init
  <1>2. written \in Seq(Contents) /\ Version = 1
    BY <1>1 DEF Version
  <1>3. TypeOK
    <2>1. /\ Version \in 1..(MaxEdits + 1) /\ clock \in 1..(MaxEdits + 1)
          /\ last \in 0..(MaxEdits + 1) /\ applied \in 0..(MaxEdits + 1)
          /\ restarts \in 0..MaxRestarts
      BY <1>2, Bounds DEF Init, ZeroTime
    <2> QED BY <1>2, <2>1, SeedType, NothingType DEF Init, TypeOK
  <1>4. LoadedInv
    BY <1>2, NothingType DEF Init, LoadedInv
  <1>5. OneVersionAtATime
    BY SeedType DEF Init, OneVersionAtATime
  <1> QED BY <1>3, <1>4, <1>5 DEF IInv

(* An edit adds a version; the earlier ones stay what they were.             *)
LEMMA EditEffect ==
  ASSUME TypeOK, NEW f \in Contents, Edit(f)
  PROVE  /\ written' \in Seq(Contents) /\ Version' = Version + 1 /\ Version <= MaxEdits
         /\ \A v \in 1..Version : written'[v] = written[v]
         /\ clock' \in {clock, clock + 1} /\ fresh' \in BOOLEAN
         /\ UNCHANGED <<registry, pc, last, loaded, applied, restarts>>
  <1>1. /\ written' = Append(written, f) /\ Version <= MaxEdits
        /\ UNCHANGED <<registry, pc, last, loaded, applied, restarts>>
    BY DEF Edit
  <1>2. PICK tick \in {0, 1} : clock' = clock + tick /\ fresh' = (Watching /\ tick = 1)
    BY DEF Edit
  <1>3. clock' \in {clock, clock + 1}
    BY <1>2 DEF TypeOK
  <1>4. fresh' \in BOOLEAN
    BY <1>2
  <1> QED BY <1>1, <1>3, <1>4 DEF TypeOK, Version

(* The file on disk is one of the versions written.                          *)
LEMMA DiskType ==
  ASSUME TypeOK
  PROVE  /\ Version \in 1..(MaxEdits + 1) /\ Version \in Nat /\ Disk \in Contents
         /\ ClientsModTime \in 0..(MaxEdits + 1)
  <1>1. Version \in 1..(MaxEdits + 1) /\ Version \in Nat
    BY Bounds DEF TypeOK
  <1>2. Disk \in Contents
    BY <1>1 DEF TypeOK, Disk, Version
  <1>3. ClientsModTime \in 0..(MaxEdits + 1)
    BY Bounds DEF TypeOK, ClientsModTime, ZeroTime
  <1> QED BY <1>1, <1>2, <1>3

(* An edit by the operator, at any moment of the watcher.                    *)
LEMMA InvEdit ==
  ASSUME IInv, NEW f \in Contents, Edit(f)
  PROVE  IInv'
  <1>t. TypeOK
    BY DEF IInv
  <1>2. /\ Version \in Nat /\ clock \in Nat /\ applied \in Nat /\ loaded.version \in Nat
    BY <1>t, Bounds DEF TypeOK
  <1>1. TypeOK'
    <2>1. Version' \in 1..(MaxEdits + 1) /\ clock' \in 1..(MaxEdits + 1)
      <3>1. Version' = Version + 1 /\ Version <= MaxEdits /\ clock' \in {clock, clock + 1}
        BY <1>t, EditEffect
      <3>2. 1 <= Version /\ 1 <= clock /\ clock <= Version
        BY DEF IInv, TypeOK, LoadedInv
      <3> QED BY <1>2, <3>1, <3>2, Bounds
    <2>2. /\ written' \in Seq(Contents) /\ fresh' \in BOOLEAN
          /\ UNCHANGED <<registry, pc, last, loaded, applied, restarts>>
      BY <1>t, EditEffect
    <2> QED BY <1>t, <2>1, <2>2 DEF TypeOK
  <1>3. LoadedInv'
    BY <1>t, <1>2, EditEffect DEF IInv, LoadedInv
  <1>4. OneVersionAtATime'
    <2>1. applied # 0 => applied \in 1..Version
      BY <1>2 DEF IInv, LoadedInv
    <2> QED BY <1>t, <2>1, EditEffect DEF IInv, OneVersionAtATime
  <1> QED BY <1>1, <1>3, <1>4 DEF IInv

(* A load that succeeds, at boot or after a poll, holds the version on disk  *)
(* at that moment; one that fails changes nothing.                           *)
LEMMA InvLoad ==
  ASSUME IInv, BootLoad \/ Reload
  PROVE  IInv'
  <1>t. TypeOK
    BY DEF IInv
  <1>1. UNCHANGED <<written, clock, fresh, registry, last, applied, restarts>>
    BY DEF BootLoad, Reload, file
  <1>2. \/ /\ Loads(Disk) /\ loaded' = [version |-> Version, clients |-> Declared(Disk)]
           /\ pc' \in {"apply", "reapply"}
        \/ loaded' = loaded /\ pc' \in {"exited", "tick"}
    BY DEF BootLoad, Reload, LoadClientsFile
  <1>3. Loads(Disk) => Declared(Disk) \in Registries
    BY <1>t, DiskType, DeclaredType
  <1>4. TypeOK'
    BY <1>t, <1>1, <1>2, <1>3, DiskType DEF TypeOK, Version
  <1>5. LoadedInv'
    <2>1. CASE loaded' = loaded /\ pc' \in {"exited", "tick"}
      BY <1>1, <2>1 DEF IInv, LoadedInv, Version
    <2>2. CASE Loads(Disk) /\ loaded' = [version |-> Version, clients |-> Declared(Disk)]
      <3>1. Version \in Nat /\ Version > 0 /\ applied \in Nat /\ applied <= Version
        BY <1>t, DiskType, Bounds DEF IInv, LoadedInv, TypeOK
      <3>2. loaded'.version = Version /\ loaded'.clients = Declared(written[Version])
        BY <2>2 DEF Disk
      <3> QED BY <1>1, <2>2, <3>1, <3>2 DEF IInv, LoadedInv, Version, Disk
    <2> QED BY <1>2, <2>1, <2>2
  <1>6. OneVersionAtATime'
    BY <1>1 DEF IInv, OneVersionAtATime
  <1> QED BY <1>4, <1>5, <1>6 DEF IInv

(* An apply, at boot or after a reload, registers the loaded version whole.  *)
LEMMA InvApply ==
  ASSUME IInv, BootApply \/ ReApply
  PROVE  IInv'
  <1>t. TypeOK
    BY DEF IInv
  <1>1. /\ UNCHANGED <<written, clock, fresh, last, loaded, restarts>>
        /\ registry' = ReplaceFileClients(registry, loaded.clients)
        /\ applied' = loaded.version /\ loaded.version > 0 /\ pc' \in {"last", "tick"}
    BY DEF BootApply, ReApply, Apply, file, IInv, LoadedInv
  <1>2. registry \in Registries /\ loaded.clients \in Registries /\ loaded.version \in Nat
    BY <1>t, Bounds DEF TypeOK
  <1>3. TypeOK'
    <2>1. registry' \in Registries /\ applied' \in 0..(MaxEdits + 1)
      BY <1>t, <1>1, <1>2, ReplaceType DEF TypeOK
    <2> QED BY <1>t, <1>1, <2>1 DEF TypeOK, Version
  <1>4. LoadedInv'
    BY <1>1, <1>2 DEF IInv, LoadedInv, Version
  <1>5. OneVersionAtATime'
    <2>1. Seeds \subseteq Registered(registry)
      BY DEF IInv, OneVersionAtATime
    <2>2. loaded.clients = Declared(written[loaded.version])
      BY <1>1 DEF IInv, LoadedInv
    <2> QED BY <1>1, <1>2, <2>1, <2>2, ReplaceEffect DEF OneVersionAtATime, Registered
  <1> QED BY <1>3, <1>4, <1>5 DEF IInv

(* The stats, and a restart, which forgets all but the file.                 *)
LEMMA InvRest ==
  ASSUME IInv, BootStat \/ BootModTime \/ Poll \/ Restart
  PROVE  IInv'
  <1>t. TypeOK
    BY DEF IInv
  <1>1. CASE BootStat \/ BootModTime \/ Poll
    <2>1. /\ UNCHANGED <<written, clock, fresh, registry, loaded, applied, restarts>>
          /\ pc' \in {"unwatched", "load", "tick", "reload"}
          /\ last' \in {last, ClientsModTime}
      BY <1>1 DEF BootStat, BootModTime, Poll, file
    <2>2. TypeOK'
      BY <1>t, <2>1, DiskType DEF TypeOK, Version
    <2> QED BY <2>1, <2>2 DEF IInv, LoadedInv, OneVersionAtATime, Version
  <1>2. CASE Restart
    <2>1. /\ UNCHANGED <<written, clock>> /\ fresh' = FALSE
          /\ registry' = SeedClients /\ pc' = "stat" /\ last' = 0
          /\ loaded' = NothingLoaded /\ applied' = 0
          /\ restarts < MaxRestarts /\ restarts' = restarts + 1
      BY <1>2 DEF Restart, ZeroTime
    <2>2. TypeOK'
      <3>1. /\ last' \in 0..(MaxEdits + 1) /\ applied' \in 0..(MaxEdits + 1)
            /\ restarts' \in 0..MaxRestarts
        BY <1>t, <2>1, Bounds DEF TypeOK
      <3> QED BY <1>t, <2>1, <3>1, SeedType, NothingType DEF TypeOK, Version
    <2>3. LoadedInv'
      BY <1>t, <2>1, NothingType, DiskType DEF IInv, LoadedInv, Version
    <2>4. OneVersionAtATime'
      BY <2>1, SeedType DEF OneVersionAtATime, Registered
    <2> QED BY <2>2, <2>3, <2>4 DEF IInv
  <1> QED BY <1>1, <1>2

(* Every step of the watcher, the operator and a restart.                    *)
LEMMA InvNext == IInv /\ [Next]_vars => IInv'
  <1> SUFFICES ASSUME IInv, [Next]_vars PROVE IInv'
    OBVIOUS
  <1>1. CASE UNCHANGED vars
    BY <1>1 DEF vars, file, IInv, TypeOK, LoadedInv, OneVersionAtATime, Version
  <1>2. CASE Next
    BY <1>2, InvEdit, InvLoad, InvApply, InvRest DEF Next, Watcher
  <1> QED BY <1>1, <1>2

(* The inductive invariant holds of every reachable state.                   *)
THEOREM InductiveInvariant == Spec => []IInv
  BY InvInit, InvNext, PTL DEF Spec

(* The watcher's state is well typed, however edits, polls, loads, applies   *)
(* and restarts interleave.                                                  *)
THEOREM TypeCorrect == Spec => []TypeOK
  BY InductiveInvariant, PTL DEF IInv

(* The registry is one whole version of the clients file over the seed.      *)
THEOREM RegistryIsOneVersion == Spec => []OneVersionAtATime
  BY InductiveInvariant, PTL DEF IInv
-----------------------------------------------------------------------------
(* The watcher implements FileRegistry.                                      *)

(* Both speak of the same seed, files and apply step (module Registry).      *)
LEMMA SameRegistry ==
  /\ Promise!SeedClients = SeedClients
  /\ \A f : Promise!Loads(f) = Loads(f) /\ Promise!Declared(f) = Declared(f)
  /\ \A reg, f : Promise!ReplaceFileClients(reg, f) = ReplaceFileClients(reg, f)
  <1>1. \A fc : Promise!AuthMethodFromFile(fc) = AuthMethodFromFile(fc)
    BY DEF Promise!AuthMethodFromFile, AuthMethodFromFile
  <1>2. \A f : Promise!Loads(f) = Loads(f)
    BY <1>1 DEF Promise!Loads, Loads, Promise!Accepted, Accepted, Promise!NoID, NoID
  <1>3. \A f : Promise!Declared(f) = Declared(f)
    BY <1>1 DEF Promise!Declared, Declared
  <1>4. Promise!SeedClients = SeedClients
    BY DEF Promise!SeedClients, SeedClients
  <1>5. \A reg, f : Promise!ReplaceFileClients(reg, f) = ReplaceFileClients(reg, f)
    BY DEF Promise!ReplaceFileClients, ReplaceFileClients
  <1> QED BY <1>2, <1>3, <1>4, <1>5

(* Boot finds a registry of the seeded clients and one version of the file.  *)
LEMMA RefinesInit == Init => Promise!Init
  BY SameRegistry DEF Init, Promise!Init

(* An apply is that of the version loaded: one that loads, and none older    *)
(* than the one applied before, because loads read the file as it is.        *)
LEMMA ApplyRefines ==
  ASSUME IInv, BootApply \/ ReApply
  PROVE  \E v \in 1..Len(written) : Promise!Apply(v)
  <1>1. /\ loaded.version \in 1..Len(written) /\ applied <= loaded.version
        /\ Loads(written[loaded.version])
        /\ loaded.clients = Declared(written[loaded.version])
    BY Bounds DEF IInv, LoadedInv, TypeOK, BootApply, ReApply, Version
  <1>2. /\ registry' = ReplaceFileClients(registry, Declared(written[loaded.version]))
        /\ applied' = loaded.version /\ written' = written
    BY <1>1 DEF BootApply, ReApply, Apply, file
  <1>3. Promise!Apply(loaded.version)
    BY <1>1, <1>2, SameRegistry DEF Promise!Apply
  <1> QED BY <1>1, <1>3

(* Every step is one that the promise allows, or none of it.                 *)
LEMMA RefinesNext == IInv /\ [Next]_vars => [Promise!Next]_(Promise!vars)
  <1> SUFFICES ASSUME IInv, [Next]_vars PROVE [Promise!Next]_(Promise!vars)
    OBVIOUS
  <1>1. ASSUME NEW f \in Contents, Edit(f) PROVE Promise!Next
    BY <1>1 DEF Edit, Version, Promise!Next, Promise!Write
  <1>2. CASE BootApply \/ ReApply
    BY <1>2, ApplyRefines DEF Promise!Next
  <1>3. CASE Restart
    BY <1>3, SameRegistry DEF Restart, Promise!Next, Promise!Restart
  <1>4. CASE BootStat \/ BootLoad \/ BootModTime \/ Poll \/ Reload \/ UNCHANGED vars
    BY <1>4
    DEF BootStat, BootLoad, BootModTime, Poll, Reload, vars, file, Promise!vars
  <1> QED BY <1>1, <1>2, <1>3, <1>4 DEF Next, Watcher

(* Whole files, only files that load, never an older version over a newer    *)
(* one, whatever an operator does between a stat, a read and an apply.       *)
THEOREM WatcherImplements == Spec => ImplementsFileRegistry
  BY InductiveInvariant, RefinesInit, RefinesNext, PTL
  DEF Spec, ImplementsFileRegistry, Promise!Spec
===============================================================================
