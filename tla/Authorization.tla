--------------------------- MODULE Authorization ---------------------------
(* What the two interactive grants promise alike, without saying how: a flow *)
(* (an auth request, a device code) is something a person is shown and picks *)
(* an identity for; a handler of the token endpoint redeems one flow; what   *)
(* it hands out names only identities picked for that flow, and a handler    *)
(* that began after the flow was closed (redeemed, denied) hands out nothing. *)
(* AuthCode and DeviceGrant implement it.                                    *)
CONSTANTS Flows, Handlers, Subjects,
          NoFlow   \* the flow of a handler that has not begun

VARIABLES picked,  \* the identities picked by those who were shown a flow
          closed,  \* the flows that were closed
          holds,   \* the flow a handler redeems
          late,    \* whether that flow was closed when the handler began
          names    \* the identities a handler's tokens name

vars == <<picked, closed, holds, late, names>>

Init ==
  /\ picked = [f \in Flows |-> {}]
  /\ closed = {}
  /\ holds = [h \in Handlers |-> NoFlow]
  /\ late = [h \in Handlers |-> FALSE]
  /\ names = [h \in Handlers |-> {}]

(* A person picks s on the page of the flow they were shown.                 *)
Pick(f, s) ==
  /\ picked' = [picked EXCEPT ![f] = @ \cup {s}]
  /\ UNCHANGED <<closed, holds, late, names>>

(* A closed flow stays closed.                                               *)
Close(f) ==
  /\ closed' = closed \cup {f}
  /\ UNCHANGED <<picked, holds, late, names>>

Begin(h, f) ==
  /\ holds[h] = NoFlow
  /\ holds' = [holds EXCEPT ![h] = f]
  /\ late' = [late EXCEPT ![h] = f \in closed]
  /\ UNCHANGED <<picked, closed, names>>

(* A handler mints a token, or names the subject of an id_token.             *)
Name(h, s) ==
  /\ holds[h] # NoFlow
  /\ ~late[h]
  /\ s \in picked[holds[h]]
  /\ names' = [names EXCEPT ![h] = @ \cup {s}]
  /\ UNCHANGED <<picked, closed, holds, late>>

Next ==
  \/ \E f \in Flows : Close(f)
  \/ \E f \in Flows, s \in Subjects : Pick(f, s)
  \/ \E h \in Handlers, f \in Flows : Begin(h, f)
  \/ \E h \in Handlers, s \in Subjects : Name(h, s)

Spec == Init /\ [][Next]_vars
=============================================================================
