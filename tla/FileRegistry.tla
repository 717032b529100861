---------------------------- MODULE FileRegistry ----------------------------
(* What the client registry promises of the clients file, without saying how *)
(* the file is watched: the registry is the seed overlaid, one whole file at *)
(* a time, with versions of the file that load, and it never goes back to an *)
(* older version while the process lives.                                    *)
EXTENDS Registry

CONSTANTS Contents,    \* what the file may hold
          MaxEdits     \* versions written after the first

VARIABLES registry,    \* client_id -> kind
          written,     \* the versions of the file, oldest first
          applied      \* the version last applied, 0 since boot

vars == <<registry, written, applied>>

Init ==
  /\ registry = SeedClients
  /\ written \in {<<f>> : f \in Contents}
  /\ applied = 0

Write(f) ==
  /\ Len(written) <= MaxEdits
  /\ written' = Append(written, f)
  /\ UNCHANGED <<registry, applied>>

Apply(v) ==
  /\ applied <= v
  /\ Loads(written[v])
  /\ registry' = ReplaceFileClients(registry, Declared(written[v]))
  /\ applied' = v
  /\ UNCHANGED written

Restart ==
  /\ registry' = SeedClients
  /\ applied' = 0
  /\ UNCHANGED written

Next ==
  \/ \E f \in Contents : Write(f)
  \/ \E v \in 1..Len(written) : Apply(v)
  \/ Restart

Spec == Init /\ [][Next]_vars
=============================================================================
