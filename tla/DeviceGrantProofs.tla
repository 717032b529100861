--------------------------- MODULE DeviceGrantProofs ---------------------------
(* Theorems about DeviceGrant, for every set of clients files, flows, user   *)
(* codes, polls and identities, and for every bound.                         *)
EXTENDS DeviceGrant, TLAPS

(* A flow that exists is the one its user code resolves to: user codes are   *)
(* short, drawn at random and never freed. Its client is the one registered  *)
(* when it was created, until a reload; what was approved was picked.        *)
FlowOK(d) ==
  Born(d) =>
    /\ state[d].client \in ClientIDs
    /\ state[d].userCode \in UserCodes /\ userCodes[state[d].userCode] = d
    /\ state[d].createdAt <= reloads
    /\ state[d].createdAt = reloads => state[d].createdAs = clients[state[d].client]
    /\ state[d].subject \in picked[d] \cup {NoSubject}
    /\ state[d].done =>
         /\ state[d].subject \in picked[d]
         /\ state[d].authTime = Len(state[d].approvals)
         /\ state[d].authTime # 0
         /\ state[d].approvals[state[d].authTime] = state[d].subject

(* An approval in progress is of a flow somebody picked for.                 *)
LockOK == lock # Unlocked => Born(lock.flow) /\ lock.subject \in picked[lock.flow]

(* The stages of a poll before GetDeviceAuthorizatonState handed it a state, *)
(* after the token was minted, and all but those.                            *)
Outside == {"idle", "state", "slow down", "failed"}
AfterMint == {"id_token", "userinfo", "apps", "answered"}
Unminted == PollPCs \ (AfterMint \cup {"failed"})

Entitled(p) ==
  LET d == poll[p].flow IN
    /\ poll[p].client = state[d].client
    /\ poll[p].authenticated \/ state[d].createdAs = "public" \/ state[d].createdAt < reloads

(* A poll holds an existing flow. Once it has the flow's state it is of the  *)
(* flow's client, and an approval that runs on the flow has marked it.       *)
HoldsOK(p) ==
  LET d == poll[p].flow IN
    /\ poll[p].pc = "idle" => poll[p] = IdlePoll
    /\ poll[p].pc # "idle" => d \in Flows /\ Born(d) /\ poll[p].client \in ClientIDs
    /\ poll[p].late => state[d].denied /\ poll[p].pc \in Outside \cup {"denied?"}
    /\ poll[p].pc \notin Outside =>
         poll[p].client = state[d].client /\ (lock.flow = d => poll[p].disturbed)

(* It mints for an approved flow only, once, and names what the state says   *)
(* while no approval disturbs it.                                            *)
NamesOK(p) ==
  LET d == poll[p].flow IN
    /\ poll[p].pc \in Unminted => tokens[p] = NoToken
    /\ poll[p].pc \in Unminted \cup {"id_token", "userinfo"} => poll[p].idSub = NoSubject
    /\ poll[p].pc = "mint" \/ Minted(p) => Entitled(p)
    /\ poll[p].pc = "client" => state[d].done \/ lock.flow = d
    /\ poll[p].pc \in {"mint"} \cup AfterMint => state[d].done
    /\ poll[p].pc \in AfterMint /\ d \in OfflineFlows => refreshers[p].userID = tokens[p].subject
    /\ ~poll[p].disturbed =>
         /\ poll[p].pc \in AfterMint => tokens[p].subject = state[d].subject
         /\ poll[p].pc \in AfterMint \ {"id_token"} => poll[p].authTime = state[d].authTime
         /\ poll[p].pc \in {"apps", "answered"} => poll[p].idSub = state[d].subject

IInv ==
  /\ TypeOK
  /\ \A d \in Flows : FlowOK(d)
  /\ LockOK
  /\ \A p \in Polls : HoldsOK(p) /\ NamesOK(p)

(* The type invariant is about the storage and about the polls.              *)
StorageTyped ==
  /\ now \in 0..MaxTime
  /\ clients \in Registries
  /\ reloads \in 0..MaxReloads
  /\ state \in [Flows -> StateType]
  /\ userCodes \in [UserCodes -> Flows \cup {NoFlow}]
  /\ lock \in {Unlocked} \cup [flow : Flows, subject : Subjects]
  /\ picked \in [Flows -> SUBSET Subjects]

TokenType == [client : {NoClient}, subject : Subjects \cup {NoSubject}]
RefreshType == [applicationID : {NoClient}, userID : Subjects \cup {NoSubject}, authTime : {0}]

PollsTyped ==
  /\ tokens \in [Polls -> TokenType]
  /\ refreshers \in [Polls -> RefreshType]
  /\ poll \in [Polls -> PollType]

(* A poll that has begun holds a flow; a token that was minted names someone. *)
PollTyped(p) ==
  /\ poll[p].pc # "idle" => poll[p].flow \in Flows
  /\ poll[p].pc \in AfterMint => tokens[p].subject # NoSubject

(* The type invariant is these parts.                                        *)
LEMMA TypeParts == TypeOK <=> StorageTyped /\ PollsTyped /\ \A p \in Polls : PollTyped(p)
  BY DEF TypeOK, StorageTyped, PollsTyped, PollTyped, TokenType, RefreshType, AfterMint

(* Bounds are numbers, so is when a code expires.                            *)
LEMMA Bounds ==
  /\ MaxReloads \in Nat /\ MaxTime \in Nat
  /\ \A t \in 0..MaxTime : t + Lifetime \in Nat
  BY DeviceGrantAssumption

(* What stands for "nothing yet" is of the types.                            *)
LEMMA NothingType ==
  /\ NoToken \in TokenType /\ NoToken.subject = NoSubject
  /\ NoRefresh \in RefreshType
  /\ Unborn \in StateType /\ Unborn.createdAs = "absent" /\ ~Unborn.done /\ ~Unborn.denied
  /\ IdlePoll \in PollType
  /\ Unlocked.flow = NoFlow
  BY DEF NoToken, TokenType, NoRefresh, RefreshType, Unborn, StateType, IdlePoll, PollType,
     PollPCs, Unlocked, Kinds, RegisteredKinds

(* The seeded registry is a registry, and so is what a reload makes of one.  *)
LEMMA RegistryType ==
  /\ SeedClients \in Registries
  /\ \A file \in Files : \A reg \in Registries : ReplaceFileClients(reg, file) \in Registries
  <1>1. Files \subseteq Registries
    BY DeviceGrantAssumption
  <1> QED BY <1>1 DEF SeedClients, Registries, ReplaceFileClients, Kinds, RegisteredKinds

(* A freshly started IdP knows no flow and serves no poll.                   *)
LEMMA InvInit == Init => IInv
  <1> SUFFICES ASSUME Init PROVE IInv
    OBVIOUS
  <1>1. /\ \A d \in Flows : state[d] = Unborn /\ picked[d] = {}
        /\ \A p \in Polls : poll[p] = IdlePoll /\ tokens[p] = NoToken
        /\ lock = Unlocked
    BY DEF Init
  <1>2. TypeOK
    <2>1. 0 \in 0..MaxTime /\ 0 \in 0..MaxReloads
      BY Bounds
    <2>2. StorageTyped /\ PollsTyped
      BY <2>1, NothingType, RegistryType DEF Init, StorageTyped, PollsTyped
    <2>3. \A p \in Polls : PollTyped(p)
      BY <1>1 DEF PollTyped, IdlePoll, AfterMint
    <2> QED BY <2>2, <2>3, TypeParts
  <1>3. \A d \in Flows : FlowOK(d)
    BY <1>1 DEF FlowOK, Born
  <1>4. \A p \in Polls : HoldsOK(p)
    <2>1. IdlePoll.pc = "idle" /\ ~IdlePoll.late
      BY DEF IdlePoll
    <2> QED BY <1>1, <2>1 DEF HoldsOK, Outside
  <1>5. \A p \in Polls : NamesOK(p)
    BY <1>1 DEF NamesOK, IdlePoll, Minted, AfterMint
  <1> QED BY <1>1, <1>2, <1>3, <1>4, <1>5 DEF IInv, LockOK
-----------------------------------------------------------------------------
(* Steps that are no poll's. A flow is created, approved, denied, the        *)
(* clients are reloaded, time passes: a flow's denial and approval are never *)
(* taken back, and who it is approved for changes under the lock only.       *)
Marked(p) == [poll[p] EXCEPT !.disturbed = TRUE]

FlowStep ==
  /\ reloads <= reloads'
  /\ UNCHANGED <<tokens, refreshers>>
  /\ \A d \in Flows : Born(d) =>
       /\ Born(d)'
       /\ state'[d].client = state[d].client
       /\ state'[d].createdAs = state[d].createdAs /\ state'[d].createdAt = state[d].createdAt
       /\ state[d].done => state'[d].done
       /\ state[d].denied => state'[d].denied
       /\ \/ lock.flow = d
          \/ state'[d].subject = state[d].subject /\ state'[d].authTime = state[d].authTime
  /\ poll' \in [Polls -> PollType]
  /\ \A p \in Polls : poll'[p] = poll[p] \/ (poll[p].flow \in Flows /\ poll'[p] = Marked(p))
  /\ \/ lock' = lock
     \/ lock = Unlocked /\ \A p \in Polls : poll[p].flow = lock'.flow => poll'[p].disturbed
     \/ lock' = Unlocked /\ state'[lock.flow].done

(* A poll that is only marked is otherwise as it was.                        *)
LEMMA MarkedRecord ==
  ASSUME NEW p \in Polls, poll[p] \in PollType
  PROVE  LET y == Marked(p) IN
           /\ y \in PollType /\ y.disturbed
           /\ y.pc = poll[p].pc /\ y.flow = poll[p].flow /\ y.client = poll[p].client
           /\ y.authenticated = poll[p].authenticated /\ y.authTime = poll[p].authTime
           /\ y.idSub = poll[p].idSub /\ y.late = poll[p].late
  BY DEF Marked, PollType

(* What is true of the polls stays true through such steps.                  *)
LEMMA PollsRest ==
  ASSUME IInv, StorageTyped', FlowStep
  PROVE  \A p \in Polls : HoldsOK(p)' /\ NamesOK(p)' /\ PollTyped(p)'
  <1> SUFFICES ASSUME NEW p \in Polls
               PROVE  HoldsOK(p)' /\ NamesOK(p)' /\ PollTyped(p)'
    OBVIOUS
  <1> DEFINE x == poll[p]
             y == poll'[p]
             d == poll[p].flow
  <1>t. StorageTyped /\ PollsTyped /\ PollTyped(p) /\ HoldsOK(p) /\ NamesOK(p)
    BY TypeParts DEF IInv
  <1>r. reloads \in Int /\ reloads' \in Int /\ reloads <= reloads'
    BY <1>t, Bounds DEF StorageTyped, FlowStep
  <1>1. /\ y.pc = x.pc /\ y.flow = d /\ y.client = x.client
        /\ y.authenticated = x.authenticated /\ y.authTime = x.authTime
        /\ y.idSub = x.idSub /\ y.late = x.late
        /\ x.disturbed => y.disturbed
        /\ y = x \/ (d \in Flows /\ y.disturbed)
    <2>1. x \in PollType
      BY <1>t DEF PollsTyped
    <2> QED BY <2>1, MarkedRecord DEF FlowStep
  <1>2. tokens'[p] = tokens[p] /\ refreshers'[p] = refreshers[p] /\ Minted(p)' = Minted(p)
    BY DEF FlowStep, Minted
  <1>3. CASE x.pc = "idle"
    <2>1. x = IdlePoll /\ d \notin Flows /\ ~x.late
      BY <1>t, <1>3, DeviceGrantAssumption DEF HoldsOK, IdlePoll
    <2>2. y = IdlePoll
      BY <1>1, <2>1
    <2>3. tokens[p] = NoToken
      BY <1>t, <1>3 DEF NamesOK, Unminted, PollPCs, AfterMint
    <2> QED BY <1>2, <2>2, <2>3
      DEF HoldsOK, NamesOK, PollTyped, IdlePoll, Outside, AfterMint, Minted
  <1>4. CASE x.pc # "idle"
    <2>1. d \in Flows /\ Born(d) /\ x.client \in ClientIDs
      BY <1>t, <1>4 DEF HoldsOK
    <2>2. /\ state'[d].client = state[d].client /\ state'[d] # Unborn
          /\ state'[d].createdAs = state[d].createdAs /\ state'[d].createdAt = state[d].createdAt
          /\ state[d].done => state'[d].done
          /\ state[d].denied => state'[d].denied
          /\ \/ lock.flow = d
             \/ state'[d].subject = state[d].subject /\ state'[d].authTime = state[d].authTime
      BY <2>1 DEF FlowStep, Born
    <2>3. state[d].createdAt \in Int
      BY <1>t, <2>1 DEF StorageTyped, StateType
    <2>4. Unlocked.flow # d
      BY <2>1, NothingType, DeviceGrantAssumption
    <2>5. x.pc \notin Outside /\ lock'.flow = d => y.disturbed
      BY <1>t, <1>1, <2>4 DEF FlowStep, HoldsOK
    <2>6. x.pc = "client" => state'[d].done \/ lock'.flow = d
      BY <1>t, <2>2, <2>4 DEF FlowStep, NamesOK
    <2>7. ~y.disturbed /\ x.pc \notin Outside => ~x.disturbed /\ lock.flow # d
      BY <1>t, <1>1 DEF HoldsOK
    <2>8. HoldsOK(p)'
      BY <1>t, <1>1, <1>4, <2>1, <2>2, <2>5 DEF HoldsOK, Born
    <2>9. Entitled(p) => Entitled(p)'
      BY <1>1, <1>r, <2>2, <2>3 DEF Entitled
    <2>10. NamesOK(p)'
      <3>1. /\ x.pc \in AfterMint => x.pc \notin Outside
            /\ x.pc \in {"apps", "answered"} => x.pc \notin Outside
            /\ x.pc \in AfterMint \ {"id_token"} => x.pc \notin Outside
        BY DEF AfterMint, Outside
      <3>2. /\ state'[d].subject = state[d].subject \/ y.disturbed \/ x.pc \in Outside
            /\ state'[d].authTime = state[d].authTime \/ y.disturbed \/ x.pc \in Outside
        BY <2>2, <2>7
      <3> QED BY <1>t, <1>1, <1>2, <2>2, <2>6, <2>7, <2>9, <3>1, <3>2 DEF NamesOK
    <2>11. PollTyped(p)'
      BY <1>t, <1>1, <1>2 DEF PollTyped
    <2> QED BY <2>8, <2>10, <2>11
  <1> QED BY <1>3, <1>4

(* A step that is no poll's keeps the invariant if it keeps the flows in     *)
(* order and the lock with one of them.                                      *)
LEMMA FlowStepInv ==
  ASSUME IInv, StorageTyped', FlowStep, \A d \in Flows : FlowOK(d)', LockOK'
  PROVE  IInv'
  <1>1. \A p \in Polls : HoldsOK(p)' /\ NamesOK(p)' /\ PollTyped(p)'
    BY PollsRest
  <1>2. PollsTyped'
    BY TypeParts DEF IInv, PollsTyped, FlowStep
  <1>3. TypeOK'
    BY <1>1, <1>2
    DEF TypeOK, StorageTyped, PollsTyped, PollTyped, TokenType, RefreshType, AfterMint
  <1> QED BY <1>1, <1>2, <1>3 DEF IInv

(* A reload changes the clients, and so ends what was known of a flow's.     *)
LEMMA ReloadInv ==
  ASSUME IInv, NEW file \in Files, Reload(file)
  PROVE  IInv'
  <1>t. StorageTyped /\ PollsTyped
    BY TypeParts DEF IInv
  <1>1. /\ reloads' = reloads + 1 /\ reloads < MaxReloads /\ lock = Unlocked
        /\ clients' = ReplaceFileClients(clients, file)
        /\ UNCHANGED <<now, state, userCodes, tokens, refreshers, lock, poll, picked>>
    BY DEF Reload, LockFree
  <1>2. reloads \in Nat /\ reloads' \in 0..MaxReloads
    BY <1>t, <1>1, Bounds DEF StorageTyped
  <1>3. StorageTyped'
    BY <1>t, <1>1, <1>2, RegistryType DEF StorageTyped
  <1>4. FlowStep
    BY <1>t, <1>1, <1>2 DEF FlowStep, Born, PollsTyped
  <1>5. ASSUME NEW d \in Flows
        PROVE  FlowOK(d)'
    <2>1. Born(d) => state[d].createdAt \in Nat /\ state[d].createdAt <= reloads
      BY <1>t DEF StorageTyped, StateType, IInv, FlowOK
    <2>2. Born(d) => state[d].createdAt <= reloads' /\ state[d].createdAt # reloads'
      BY <1>1, <1>2, <2>1
    <2>3. FlowOK(d)
      BY DEF IInv
    <2> QED BY <1>1, <2>2, <2>3 DEF FlowOK, Born
  <1>6. LockOK'
    BY <1>1 DEF LockOK
  <1> QED BY <1>3, <1>4, <1>5, <1>6, FlowStepInv

(* A new flow takes a user code that resolves to none; no other flow loses   *)
(* its own.                                                                  *)
LEMMA StoreInv ==
  ASSUME IInv, NEW d \in Flows, NEW c \in ClientIDs, NEW u \in UserCodes,
         StoreDeviceAuthorization(d, c, u)
  PROVE  IInv'
  <1>t. StorageTyped /\ PollsTyped
    BY TypeParts DEF IInv
  <1> DEFINE new == NewState(c, u)
  <1>1. /\ lock = Unlocked /\ ~Born(d) /\ clients[c] # "absent" /\ userCodes[u] = NoFlow
        /\ state' = [state EXCEPT ![d] = new]
        /\ userCodes' = [userCodes EXCEPT ![u] = d]
        /\ UNCHANGED <<now, clients, reloads, tokens, refreshers, lock, poll, picked>>
    BY DEF StoreDeviceAuthorization, LockFree
  <1>2. /\ new.client = c /\ new.userCode = u /\ new.createdAs = clients[c]
        /\ new.createdAt = reloads /\ new.subject = NoSubject /\ ~new.done
        /\ new \in StateType
    <2>1. clients[c] \in Kinds /\ now + Lifetime \in Nat /\ reloads \in Nat
      BY <1>t, Bounds DEF StorageTyped, Registries
    <2> QED BY <2>1 DEF NewState, StateType
  <1>3. new # Unborn
    BY <1>1, <1>2, NothingType
  <1> HIDE DEF new
  <1>4. /\ state'[d] = new /\ \A f \in Flows \ {d} : state'[f] = state[f]
        /\ userCodes'[u] = d /\ \A w \in UserCodes \ {u} : userCodes'[w] = userCodes[w]
    BY <1>t, <1>1 DEF StorageTyped
  <1>5. StorageTyped'
    BY <1>t, <1>1, <1>2 DEF StorageTyped
  <1>6. FlowStep
    <2>1. reloads \in Nat
      BY <1>t, Bounds DEF StorageTyped
    <2> QED BY <1>t, <1>1, <1>4, <2>1 DEF FlowStep, Born, PollsTyped
  <1>7. FlowOK(d)'
    <2>1. reloads \in Nat
      BY <1>t, Bounds DEF StorageTyped
    <2> QED BY <1>1, <1>2, <1>4, <2>1 DEF FlowOK
  <1>8. ASSUME NEW f \in Flows \ {d}
        PROVE  FlowOK(f)'
    <2>1. FlowOK(f) /\ f # NoFlow
      BY DeviceGrantAssumption DEF IInv
    <2>2. Born(f) => state[f].userCode # u
      BY <1>1, <2>1 DEF FlowOK
    <2> QED BY <1>1, <1>4, <2>1, <2>2 DEF FlowOK, Born
  <1>9. LockOK'
    BY <1>1 DEF LockOK
  <1> QED BY <1>5, <1>6, <1>7, <1>8, <1>9, FlowStepInv

(* The user code of a flow that exists resolves to that flow and no other.   *)
LEMMA CodeResolves ==
  ASSUME IInv, NEW d \in Flows, Born(d)
  PROVE  userCodes[state[d].userCode] = d
  BY DEF IInv, FlowOK

(* An approval begins under the lock and marks the polls that hold the flow. *)
LEMMA BeginApprovalInv ==
  ASSUME IInv, NEW d \in Flows, NEW s \in Subjects, BeginApproval(d, s)
  PROVE  IInv'
  <1>t. StorageTyped /\ PollsTyped
    BY TypeParts DEF IInv
  <1>1. /\ Born(d) /\ lock = Unlocked
        /\ lock' = [flow |-> d, subject |-> s]
        /\ picked' = [picked EXCEPT ![d] = @ \cup {s}]
        /\ poll' = [p \in Polls |-> IF poll[p].flow = d THEN Marked(p) ELSE poll[p]]
        /\ UNCHANGED <<now, clients, reloads, state, userCodes, tokens, refreshers>>
    BY CodeResolves DEF BeginApproval, LockFree, Marked
  <1>2. /\ lock'.flow = d /\ lock'.subject = s
        /\ s \in picked'[d] /\ \A f \in Flows : picked[f] \subseteq picked'[f]
    BY <1>t, <1>1 DEF StorageTyped
  <1>3. StorageTyped'
    BY <1>t, <1>1 DEF StorageTyped
  <1>4. /\ poll' \in [Polls -> PollType]
        /\ \A p \in Polls : /\ poll[p].flow = d => poll'[p].disturbed
                            /\ poll'[p] = IF poll[p].flow = d THEN Marked(p) ELSE poll[p]
    <2>1. \A p \in Polls : poll[p] \in PollType
      BY <1>t DEF PollsTyped
    <2> QED BY <1>1, <2>1, MarkedRecord
  <1>5. FlowStep
    <2>1. reloads \in Nat
      BY <1>t, Bounds DEF StorageTyped
    <2> QED BY <1>1, <1>2, <1>4, <2>1 DEF FlowStep, Born
  <1>6. \A f \in Flows : FlowOK(f)'
    BY <1>1, <1>2 DEF IInv, FlowOK, Born
  <1>7. LockOK'
    BY <1>1, <1>2 DEF LockOK, Born
  <1> QED BY <1>3, <1>5, <1>6, <1>7, FlowStepInv

(* The approval ends: subject, auth time and approval are of one pick.       *)
Approved(d) ==
  [state[d] EXCEPT !.subject = lock.subject, !.authTime = Len(state[d].approvals) + 1,
                   !.done = TRUE, !.approvals = Append(state[d].approvals, lock.subject)]

(* What CompleteDeviceAuthorization leaves is an approved flow.              *)
LEMMA ApprovedRecord ==
  ASSUME NEW d \in Flows, state[d] \in StateType, lock.subject \in Subjects
  PROVE  LET y == Approved(d) IN
           /\ y \in StateType /\ y.subject = lock.subject /\ y.done
           /\ y.denied = state[d].denied
           /\ y.authTime = Len(y.approvals) /\ y.authTime # 0
           /\ y.approvals[y.authTime] = lock.subject
           /\ y.client = state[d].client /\ y.userCode = state[d].userCode
           /\ y.createdAs = state[d].createdAs /\ y.createdAt = state[d].createdAt
  <1> DEFINE n == Len(state[d].approvals) + 1
             l == Append(state[d].approvals, lock.subject)
  <1>1. state[d].approvals \in Seq(Subjects)
    BY DEF StateType
  <1>2. /\ l \in Seq(Subjects) /\ Len(l) = n /\ l[n] = lock.subject
        /\ n \in Nat /\ n # 0
    BY <1>1
  <1> DEFINE y == [state[d] EXCEPT !.subject = lock.subject, !.authTime = n,
                                   !.done = TRUE, !.approvals = l]
  <1>3. Approved(d) = y
    BY DEF Approved
  <1> HIDE DEF n, l
  <1>4. /\ y \in StateType /\ y.subject = lock.subject /\ y.done
        /\ y.denied = state[d].denied /\ y.authTime = n /\ y.approvals = l
        /\ y.client = state[d].client /\ y.userCode = state[d].userCode
        /\ y.createdAs = state[d].createdAs /\ y.createdAt = state[d].createdAt
    BY <1>2 DEF StateType
  <1> HIDE DEF y
  <1> QED BY <1>2, <1>3, <1>4

(* An approval ends: what the flow says from now on was picked for it.       *)
LEMMA EndApprovalInv ==
  ASSUME IInv, NEW d \in Flows, EndApproval(d)
  PROVE  IInv'
  <1>t. StorageTyped /\ PollsTyped
    BY TypeParts DEF IInv
  <1> DEFINE new == Approved(d)
  <1>1. /\ lock.flow = d /\ lock' = Unlocked
        /\ state' = [state EXCEPT ![d] = new]
        /\ UNCHANGED <<now, clients, reloads, userCodes, tokens, refreshers, poll, picked>>
    BY <1>t DEF EndApproval, StorageTyped, Approved
  <1>2. /\ lock # Unlocked /\ lock.subject \in Subjects
        /\ Born(d) /\ lock.subject \in picked[d]
    <2>1. d # NoFlow
      BY DeviceGrantAssumption
    <2>2. lock # Unlocked
      BY <1>1, <2>1, NothingType
    <2> QED BY <1>t, <1>1, <2>2 DEF StorageTyped, IInv, LockOK
  <1>3. /\ new \in StateType /\ new.subject = lock.subject /\ new.done
        /\ new.denied = state[d].denied
        /\ new.authTime = Len(new.approvals) /\ new.authTime # 0
        /\ new.approvals[new.authTime] = lock.subject
        /\ new.client = state[d].client /\ new.userCode = state[d].userCode
        /\ new.createdAs = state[d].createdAs /\ new.createdAt = state[d].createdAt
    <2>1. state[d] \in StateType
      BY <1>t DEF StorageTyped
    <2> QED BY <1>2, <2>1, ApprovedRecord
  <1>4. new # Unborn
    BY <1>3, NothingType
  <1> HIDE DEF new
  <1>5. state'[d] = new /\ \A f \in Flows \ {d} : state'[f] = state[f]
    BY <1>t, <1>1 DEF StorageTyped
  <1>6. StorageTyped'
    BY <1>t, <1>1, <1>3 DEF StorageTyped
  <1>7. FlowStep
    <2>1. reloads \in Nat
      BY <1>t, Bounds DEF StorageTyped
    <2> QED BY <1>t, <1>1, <1>3, <1>4, <1>5, <2>1 DEF FlowStep, Born, PollsTyped
  <1>8. FlowOK(d)'
    BY <1>1, <1>2, <1>3, <1>5 DEF IInv, FlowOK
  <1>9. \A f \in Flows \ {d} : FlowOK(f)'
    BY <1>1, <1>5 DEF IInv, FlowOK, Born
  <1>10. LockOK'
    BY <1>1 DEF LockOK
  <1> QED BY <1>6, <1>7, <1>8, <1>9, <1>10, FlowStepInv

(* A denial sets one flag of the flow its user code resolves to.             *)
LEMMA DenyInv ==
  ASSUME IInv, NEW d \in Flows, DenyDeviceAuthorization(d)
  PROVE  IInv'
  <1>t. StorageTyped /\ PollsTyped
    BY TypeParts DEF IInv
  <1> DEFINE new == [state[d] EXCEPT !.denied = TRUE]
  <1>1. /\ Born(d)
        /\ state' = [state EXCEPT ![d] = new]
        /\ UNCHANGED <<now, clients, reloads, userCodes, tokens, refreshers, lock, poll, picked>>
    BY CodeResolves DEF DenyDeviceAuthorization
  <1>2. state[d] \in StateType
    BY <1>t DEF StorageTyped
  <1>3. /\ new \in StateType /\ new.subject = state[d].subject /\ new.done = state[d].done
        /\ new.denied /\ new.authTime = state[d].authTime /\ new.approvals = state[d].approvals
        /\ new.client = state[d].client /\ new.userCode = state[d].userCode
        /\ new.createdAs = state[d].createdAs /\ new.createdAt = state[d].createdAt
    BY <1>2 DEF StateType
  <1>4. new # Unborn
    BY <1>3, NothingType
  <1> HIDE DEF new
  <1>5. state'[d] = new /\ \A f \in Flows \ {d} : state'[f] = state[f]
    BY <1>t, <1>1 DEF StorageTyped
  <1>6. StorageTyped'
    BY <1>t, <1>1, <1>3 DEF StorageTyped
  <1>7. FlowStep
    <2>1. reloads \in Nat
      BY <1>t, Bounds DEF StorageTyped
    <2> QED BY <1>t, <1>1, <1>3, <1>4, <1>5, <2>1 DEF FlowStep, Born, PollsTyped
  <1>8. FlowOK(d)'
    BY <1>1, <1>3, <1>5 DEF IInv, FlowOK
  <1>9. \A f \in Flows \ {d} : FlowOK(f)'
    BY <1>1, <1>5 DEF IInv, FlowOK, Born
  <1>10. \A f \in Flows : Born(f) => Born(f)'
    BY <1>4, <1>5 DEF Born
  <1>11. LockOK'
    BY <1>t, <1>1, <1>10 DEF IInv, LockOK, Born, StorageTyped
  <1> QED BY <1>6, <1>7, <1>8, <1>9, <1>11, FlowStepInv

(* Time passes; nothing is removed when a code expires.                      *)
LEMMA TickInv ==
  ASSUME IInv, Tick \/ UNCHANGED vars
  PROVE  IInv'
  <1>t. StorageTyped /\ PollsTyped
    BY TypeParts DEF IInv
  <1>1. /\ UNCHANGED <<clients, reloads, state, userCodes, tokens, refreshers, lock, poll, picked>>
        /\ now' \in 0..MaxTime /\ reloads \in Nat
    BY <1>t, Bounds DEF Tick, vars, StorageTyped
  <1>2. StorageTyped'
    BY <1>t, <1>1 DEF StorageTyped
  <1>3. FlowStep
    BY <1>t, <1>1 DEF FlowStep, Born, PollsTyped
  <1>4. (\A d \in Flows : FlowOK(d)') /\ LockOK'
    BY <1>1 DEF IInv, FlowOK, LockOK, Born
  <1> QED BY <1>2, <1>3, <1>4, FlowStepInv
-----------------------------------------------------------------------------
(* Steps of a poll: they touch no flow and no other poll.                    *)
PollFrame(p) ==
  /\ UNCHANGED <<now, clients, reloads, state, userCodes, lock, picked>>
  /\ PollsTyped'
  /\ \A q \in Polls \ {p} :
       /\ poll'[q] = poll[q] /\ tokens'[q] = tokens[q] /\ refreshers'[q] = refreshers[q]

(* What a poll keeps for good once it has begun.                             *)
Kept(p) ==
  /\ poll'[p].flow = poll[p].flow /\ poll'[p].client = poll[p].client
  /\ poll'[p].authenticated = poll[p].authenticated
  /\ poll'[p].late = poll[p].late /\ poll'[p].disturbed = poll[p].disturbed

(* So only the poll's own part of the invariant is at stake.                 *)
LEMMA PollFrameInv ==
  ASSUME IInv, NEW p \in Polls, PollFrame(p), HoldsOK(p)', NamesOK(p)', PollTyped(p)'
  PROVE  IInv'
  <1>1. /\ UNCHANGED <<now, clients, reloads, state, userCodes, lock, picked>>
        /\ PollsTyped'
        /\ \A q \in Polls \ {p} :
             /\ poll'[q] = poll[q] /\ tokens'[q] = tokens[q] /\ refreshers'[q] = refreshers[q]
    BY DEF PollFrame
  <1>2. ASSUME NEW q \in Polls \ {p}
        PROVE  HoldsOK(q)' /\ NamesOK(q)' /\ PollTyped(q)'
    <2>1. HoldsOK(q) /\ NamesOK(q) /\ PollTyped(q)
      BY TypeParts DEF IInv
    <2>2. Minted(q)' = Minted(q) /\ Entitled(q)' = Entitled(q) /\ Born(poll[q].flow)' = Born(poll[q].flow)
      BY <1>1 DEF Minted, Entitled, Born
    <2>3. HoldsOK(q)'
      BY <1>1, <2>1, <2>2 DEF HoldsOK
    <2>4. NamesOK(q)'
      BY <1>1, <2>1, <2>2 DEF NamesOK
    <2>5. PollTyped(q)'
      BY <1>1, <2>1 DEF PollTyped
    <2> QED BY <2>3, <2>4, <2>5
  <1>3. TypeOK'
    <2>1. StorageTyped
      BY TypeParts DEF IInv
    <2> QED BY <1>1, <1>2, <2>1
      DEF TypeOK, StorageTyped, PollsTyped, PollTyped, TokenType, RefreshType, AfterMint
  <1>4. (\A d \in Flows : FlowOK(d)') /\ LockOK'
    BY <1>1 DEF IInv, FlowOK, LockOK, Born
  <1> QED BY <1>2, <1>3, <1>4 DEF IInv

(* A poll that moves on changes its stage only.                              *)
LEMMA StageRecord ==
  ASSUME PollsTyped, NEW p \in Polls, NEW v \in PollPCs, StepPoll(p, v)
  PROVE  /\ poll' \in [Polls -> PollType] /\ \A q \in Polls \ {p} : poll'[q] = poll[q]
         /\ poll'[p].pc = v /\ Kept(p)
         /\ poll'[p].authTime = poll[p].authTime /\ poll'[p].idSub = poll[p].idSub
  <1> DEFINE y == [poll[p] EXCEPT !.pc = v]
  <1>1. poll' = [poll EXCEPT ![p] = y]
    BY DEF StepPoll
  <1>2. poll[p] \in PollType
    BY DEF PollsTyped
  <1>3. /\ y \in PollType /\ y.pc = v /\ y.flow = poll[p].flow /\ y.client = poll[p].client
        /\ y.authenticated = poll[p].authenticated /\ y.late = poll[p].late
        /\ y.disturbed = poll[p].disturbed /\ y.authTime = poll[p].authTime
        /\ y.idSub = poll[p].idSub
    BY <1>2 DEF PollType
  <1> HIDE DEF y
  <1>4. poll'[p] = y /\ \A q \in Polls \ {p} : poll'[q] = poll[q]
    BY <1>1 DEF PollsTyped
  <1>5. poll' \in [Polls -> PollType]
    BY <1>1, <1>3 DEF PollsTyped
  <1> QED BY <1>3, <1>4, <1>5 DEF Kept

(* A move before the token is minted, or to a failure.                       *)
Moves(p) ==
  /\ UNCHANGED <<now, clients, reloads, state, userCodes, tokens, refreshers, lock, picked>>
  /\ \E v \in PollPCs : StepPoll(p, v)

(* Such a move keeps the invariant.                                          *)
LEMMA MoveInv ==
  ASSUME IInv, NEW p \in Polls, NEW v \in Unminted \cup {"failed"}, StepPoll(p, v),
         UNCHANGED <<now, clients, reloads, state, userCodes, tokens, refreshers, lock, picked>>,
         poll[p].pc # "idle", v # "idle",
         v # "failed" => poll[p].pc \in Unminted,
         v \notin Outside => poll[p].client = state[poll[p].flow].client,
         v \notin Outside /\ lock.flow = poll[p].flow => poll[p].disturbed,
         poll[p].late => v \in Outside \cup {"denied?"},
         v = "client" => state[poll[p].flow].done \/ lock.flow = poll[p].flow,
         v = "mint" => Entitled(p) /\ state[poll[p].flow].done
  PROVE  IInv' /\ Moves(p)
  <1> DEFINE d == poll[p].flow
  <1>t. PollsTyped /\ PollTyped(p) /\ HoldsOK(p) /\ NamesOK(p) /\ v \in PollPCs
    BY TypeParts DEF IInv, Unminted, PollPCs
  <1>1. /\ poll' \in [Polls -> PollType] /\ \A q \in Polls \ {p} : poll'[q] = poll[q]
        /\ poll'[p].pc = v /\ poll'[p].flow = d /\ poll'[p].client = poll[p].client
        /\ poll'[p].authenticated = poll[p].authenticated
        /\ poll'[p].late = poll[p].late /\ poll'[p].disturbed = poll[p].disturbed
        /\ poll'[p].idSub = poll[p].idSub
    BY <1>t, StageRecord DEF Kept
  <1>2. PollFrame(p)
    BY <1>t, <1>1 DEF PollFrame, PollsTyped
  <1>3. HoldsOK(p)'
    BY <1>t, <1>1 DEF HoldsOK, Born
  <1>4. NamesOK(p)'
    <2>1. v \notin AfterMint /\ v \notin {"id_token", "userinfo", "apps", "answered"}
      BY DEF Unminted, AfterMint
    <2>2. v \in Unminted => v # "failed" /\ poll[p].pc \in Unminted
      BY DEF Unminted
    <2>3. Minted(p)' = Minted(p) /\ Entitled(p)' = Entitled(p)
      BY <1>1 DEF Minted, Entitled
    <2> QED BY <1>t, <1>1, <2>1, <2>2, <2>3 DEF NamesOK
  <1>5. PollTyped(p)'
    BY <1>t, <1>1 DEF PollTyped, Unminted, AfterMint
  <1> QED BY <1>t, <1>2, <1>3, <1>4, <1>5, PollFrameInv DEF Moves

(* A request that begins to poll: what it presents is compared later.        *)
BeginsWith(p, d) ==
  \E c \in ClientIDs, authenticated \in BOOLEAN, pc \in {"state", "failed"} :
    BeginPoll(p, d, c, authenticated, pc)

Begins(p, d) ==
  /\ poll[p].pc = "idle" /\ Born(d)
  /\ BeginsWith(p, d)
  /\ UNCHANGED <<now, clients, reloads, state, userCodes, tokens, refreshers, lock, picked>>

(* A poll that has begun knows what it was sent with.                        *)
LEMMA BeginRecord ==
  ASSUME IInv, NEW p \in Polls, NEW d \in Flows, Begins(p, d)
  PROVE  /\ poll' \in [Polls -> PollType] /\ \A q \in Polls \ {p} : poll'[q] = poll[q]
         /\ poll'[p].pc \in {"state", "failed"} /\ poll'[p].flow = d
         /\ poll'[p].client \in ClientIDs /\ poll'[p].late = state[d].denied
         /\ poll'[p].idSub = NoSubject
         /\ poll[p] = IdlePoll /\ tokens[p] = NoToken
  <1>t. StorageTyped /\ PollsTyped /\ HoldsOK(p) /\ NamesOK(p)
    BY TypeParts DEF IInv
  <1>1. PICK c \in ClientIDs, authenticated \in BOOLEAN, pc \in {"state", "failed"} :
          BeginPoll(p, d, c, authenticated, pc)
    BY DEF Begins, BeginsWith
  <1> DEFINE y == [IdlePoll EXCEPT !.pc = pc, !.flow = d, !.client = c,
                                   !.authenticated = authenticated, !.late = state[d].denied,
                                   !.ready = state[d].done, !.began = reloads]
  <1>2. poll' = [poll EXCEPT ![p] = y]
    BY <1>1 DEF BeginPoll
  <1>3. reloads \in Nat /\ state[d].denied \in BOOLEAN /\ state[d].done \in BOOLEAN
    BY <1>t, Bounds DEF StorageTyped, StateType
  <1>4. /\ y \in PollType /\ y.pc = pc /\ y.flow = d /\ y.client = c
        /\ y.late = state[d].denied /\ y.idSub = NoSubject
    BY <1>3 DEF IdlePoll, PollType, PollPCs
  <1> HIDE DEF y
  <1>5. poll'[p] = y /\ \A q \in Polls \ {p} : poll'[q] = poll[q]
    BY <1>t, <1>2 DEF PollsTyped
  <1>6. poll' \in [Polls -> PollType]
    BY <1>t, <1>2, <1>4 DEF PollsTyped
  <1>7. poll[p] = IdlePoll /\ tokens[p] = NoToken
    BY <1>t DEF Begins, HoldsOK, NamesOK, Unminted, PollPCs, AfterMint
  <1> QED BY <1>4, <1>5, <1>6, <1>7

(* A poll that begins holds a flow and no token.                             *)
LEMMA BeginInv ==
  ASSUME IInv, NEW p \in Polls, NEW d \in Flows, Begins(p, d)
  PROVE  IInv'
  <1>1. /\ poll' \in [Polls -> PollType] /\ \A q \in Polls \ {p} : poll'[q] = poll[q]
        /\ poll'[p].pc \in {"state", "failed"} /\ poll'[p].flow = d
        /\ poll'[p].client \in ClientIDs /\ poll'[p].late = state[d].denied
        /\ poll'[p].idSub = NoSubject
        /\ tokens[p] = NoToken
    BY BeginRecord
  <1>2. /\ Born(d)
        /\ UNCHANGED <<now, clients, reloads, state, userCodes, tokens, refreshers, lock, picked>>
    BY DEF Begins
  <1>3. PollFrame(p)
    BY <1>1, <1>2, TypeParts DEF PollFrame, PollsTyped, IInv
  <1>4. HoldsOK(p)'
    BY <1>1, <1>2 DEF HoldsOK, Outside, Born
  <1>5. NamesOK(p)'
    BY <1>1, <1>2 DEF NamesOK, AfterMint, Minted
  <1>6. PollTyped(p)'
    BY <1>1 DEF PollTyped, AfterMint
  <1> QED BY <1>3, <1>4, <1>5, <1>6, PollFrameInv

(* The checks of a poll, in the order the OP makes them: the client's, the   *)
(* denial, the approval, the expiry, and the client's kind.                  *)
LEMMA ChecksInv ==
  ASSUME IInv, NEW p \in Polls,
         \/ GetDeviceAuthorizatonState(p) \/ PollTimesOut(p) \/ CheckDenied(p)
         \/ CheckDone(p) \/ CheckExpires(p) \/ GetClientByClientID(p)
  PROVE  IInv' /\ Moves(p)
  <1> DEFINE d == poll[p].flow
             rest == UNCHANGED <<now, clients, reloads, state, userCodes, tokens, refreshers,
                                 lock, picked>>
  <1>h. HoldsOK(p) /\ NamesOK(p)
    BY DEF IInv
  <1>m. ASSUME NEW v \in PollPCs, StepPoll(p, v), rest,
               v \notin AfterMint \cup {"idle"},
               poll[p].pc \in {"state", "denied?", "done?", "expired?", "client"},
               v \notin Outside => poll[p].client = state[d].client,
               v \notin Outside /\ lock.flow = d => poll[p].disturbed,
               poll[p].late => v \in Outside \cup {"denied?"},
               v = "client" => state[d].done \/ lock.flow = d,
               v = "mint" => Entitled(p) /\ state[d].done
        PROVE  IInv' /\ Moves(p)
    <2>1. v \in Unminted \cup {"failed"} /\ poll[p].pc # "idle" /\ v # "idle"
      BY <1>m DEF Unminted
    <2>2. poll[p].pc \in Unminted
      BY <1>m DEF Unminted, PollPCs, AfterMint
    <2> QED BY <1>m, <2>1, <2>2, MoveInv
  <1>n. Unlocked.flow # d \/ poll[p].pc = "idle"
    BY <1>h, NothingType, DeviceGrantAssumption DEF HoldsOK
  <1>1. CASE GetDeviceAuthorizatonState(p)
    <2> DEFINE v == IF state[d].client = poll[p].client THEN "denied?" ELSE "failed"
    <2>1. /\ StepPoll(p, v) /\ rest /\ poll[p].pc = "state" /\ lock = Unlocked
      BY <1>1 DEF GetDeviceAuthorizatonState, LockFree
    <2>2. v \in PollPCs /\ v \in {"denied?", "failed"} /\ v \notin AfterMint
      BY DEF PollPCs, AfterMint
    <2>3. v \notin Outside => poll[p].client = state[d].client
      BY DEF Outside
    <2> HIDE DEF v
    <2> QED BY <1>m, <1>n, <2>1, <2>2, <2>3 DEF Outside
  <1>2. CASE PollTimesOut(p)
    BY <1>2, <1>m DEF PollTimesOut, PollPCs, AfterMint, Outside
  <1>3. CASE CheckDenied(p)
    <2> DEFINE v == IF state[d].denied THEN "failed" ELSE "done?"
    <2>1. /\ StepPoll(p, v) /\ rest /\ poll[p].pc = "denied?"
      BY <1>3 DEF CheckDenied
    <2>2. v \in PollPCs /\ v \in {"done?", "failed"} /\ v \notin AfterMint
      BY DEF PollPCs, AfterMint
    <2>3. poll[p].late => v = "failed"
      BY <1>h DEF HoldsOK
    <2> HIDE DEF v
    <2> QED BY <1>h, <1>m, <2>1, <2>2, <2>3 DEF Outside, HoldsOK
  <1>4. CASE CheckDone(p)
    <2>1. PICK done \in DoneSeen(d) : StepPoll(p, IF done THEN "client" ELSE "expired?")
      BY <1>4 DEF CheckDone
    <2> DEFINE v == IF done THEN "client" ELSE "expired?"
    <2>2. /\ StepPoll(p, v) /\ rest /\ poll[p].pc = "done?"
      BY <1>4, <2>1 DEF CheckDone
    <2>3. v \in PollPCs /\ v \in {"client", "expired?"} /\ v \notin AfterMint
      BY DEF PollPCs, AfterMint
    <2>4. v = "client" => state[d].done \/ lock.flow = d
      BY <2>1 DEF DoneSeen
    <2> HIDE DEF v
    <2> QED BY <1>h, <1>m, <2>2, <2>3, <2>4 DEF Outside, HoldsOK
  <1>5. CASE CheckExpires(p)
    <2> DEFINE v == IF now > state[d].expires THEN "expired" ELSE "pending"
    <2>1. /\ StepPoll(p, v) /\ rest /\ poll[p].pc = "expired?"
      BY <1>5 DEF CheckExpires
    <2>2. v \in PollPCs /\ v \in {"expired", "pending"} /\ v \notin AfterMint
      BY DEF PollPCs, AfterMint
    <2> HIDE DEF v
    <2> QED BY <1>h, <1>m, <2>1, <2>2 DEF Outside, HoldsOK
  <1>6. CASE GetClientByClientID(p)
    <2> DEFINE kind == clients[poll[p].client]
               v == IF kind # "absent" /\ poll[p].authenticated = DemandsAuthentication(kind)
                    THEN "mint" ELSE "failed"
    <2>1. /\ StepPoll(p, v) /\ rest /\ poll[p].pc = "client" /\ lock = Unlocked
      BY <1>6 DEF GetClientByClientID, LockFree
    <2>2. v \in PollPCs /\ v \in {"mint", "failed"} /\ v \notin AfterMint
      BY DEF PollPCs, AfterMint
    <2>3. /\ d \in Flows /\ Born(d) /\ poll[p].client = state[d].client
          /\ state[d].client \in ClientIDs /\ ~poll[p].late
          /\ lock.flow # d /\ state[d].done
      BY <1>h, <1>n, <2>1 DEF HoldsOK, NamesOK, Outside, IInv, FlowOK
    <2>4. /\ kind \in Kinds /\ poll[p].authenticated \in BOOLEAN
          /\ state[d].createdAt \in Nat /\ reloads \in Nat
      BY <2>3, TypeParts, Bounds
      DEF IInv, StorageTyped, StateType, Registries, PollsTyped, PollType
    <2>5. ASSUME v = "mint" PROVE Entitled(p)
      <3>1. poll[p].authenticated \/ kind = "public"
        BY <2>4, <2>5 DEF DemandsAuthentication, Kinds, RegisteredKinds
      <3>2. /\ state[d].createdAt <= reloads
            /\ state[d].createdAt = reloads => state[d].createdAs = kind
        BY <2>3 DEF IInv, FlowOK
      <3> QED BY <2>3, <2>4, <3>1, <3>2 DEF Entitled
    <2> HIDE DEF v
    <2> QED BY <1>m, <2>1, <2>2, <2>3, <2>5 DEF Outside
  <1> QED BY <1>1, <1>2, <1>3, <1>4, <1>5, <1>6

(* The tokens are minted once, under the lock, for a flow that is approved:  *)
(* for the subject of its last approval.                                     *)
LEMMA MintEffect ==
  ASSUME IInv, NEW p \in Polls, NEW d, d = poll[p].flow, Mint(p)
  PROVE  /\ poll[p].pc = "mint" /\ d \in Flows /\ Born(d) /\ state[d].done /\ ~poll[p].late
         /\ tokens[p] = NoToken /\ poll[p].idSub = NoSubject
         /\ state[d].subject \in picked[d] /\ state[d].subject \in Subjects
         /\ PollFrame(p) /\ Kept(p)
         /\ poll'[p].pc = "id_token" /\ poll'[p].idSub = NoSubject
         /\ tokens'[p].subject = state[d].subject
         /\ d \in OfflineFlows => refreshers'[p].userID = state[d].subject
  <1>t. /\ StorageTyped /\ PollsTyped /\ HoldsOK(p) /\ NamesOK(p)
        /\ poll[p].pc = "mint"
        /\ UNCHANGED <<now, clients, reloads, state, userCodes, lock, picked>>
        /\ StepPoll(p, "id_token")
    BY TypeParts DEF IInv, Mint
  <1>1. /\ d \in Flows /\ Born(d) /\ state[d].done /\ ~poll[p].late
        /\ tokens[p] = NoToken /\ poll[p].idSub = NoSubject
    BY <1>t DEF HoldsOK, NamesOK, Outside, Unminted, PollPCs, AfterMint
  <1>2. state[d].subject \in picked[d] /\ state[d].subject \in Subjects
    BY <1>t, <1>1 DEF IInv, FlowOK, StorageTyped
  <1> DEFINE token == [client |-> NoClient, subject |-> state[d].subject]
             refresher == [NoRefresh EXCEPT !.userID = state[d].subject]
  <1>3. token \in TokenType /\ token.subject = state[d].subject
    BY <1>2 DEF TokenType
  <1>4. refresher \in RefreshType /\ refresher.userID = state[d].subject
    BY <1>2 DEF RefreshType, NoRefresh
  <1>5. /\ tokens' = [tokens EXCEPT ![p] = token]
        /\ refreshers' = IF d \in OfflineFlows THEN [refreshers EXCEPT ![p] = refresher]
                         ELSE refreshers
    BY DEF Mint
  <1> HIDE DEF token, refresher
  <1>6. /\ tokens' \in [Polls -> TokenType] /\ refreshers' \in [Polls -> RefreshType]
        /\ tokens'[p] = token /\ (d \in OfflineFlows => refreshers'[p] = refresher)
        /\ \A q \in Polls \ {p} : tokens'[q] = tokens[q] /\ refreshers'[q] = refreshers[q]
    BY <1>t, <1>3, <1>4, <1>5 DEF PollsTyped
  <1>7. /\ poll' \in [Polls -> PollType] /\ \A q \in Polls \ {p} : poll'[q] = poll[q]
        /\ poll'[p].pc = "id_token" /\ Kept(p)
        /\ poll'[p].idSub = poll[p].idSub
    BY <1>t, StageRecord DEF PollPCs
  <1>8. PollFrame(p)
    BY <1>t, <1>6, <1>7 DEF PollFrame, PollsTyped
  <1> QED BY <1>t, <1>1, <1>2, <1>3, <1>4, <1>6, <1>7, <1>8

(* CreateAccessToken or its twin, for a flow that was found approved.        *)
LEMMA MintInv ==
  ASSUME IInv, NEW p \in Polls, Mint(p)
  PROVE  IInv'
  <1>1. PICK d : d = poll[p].flow
    OBVIOUS
  <1>2. /\ poll[p].pc = "mint" /\ d \in Flows /\ Born(d) /\ state[d].done /\ ~poll[p].late
        /\ state[d].subject \in Subjects
        /\ PollFrame(p) /\ Kept(p)
        /\ poll'[p].pc = "id_token" /\ poll'[p].idSub = NoSubject
        /\ tokens'[p].subject = state[d].subject
        /\ d \in OfflineFlows => refreshers'[p].userID = state[d].subject
    BY <1>1, MintEffect
  <1>3. HoldsOK(p) /\ NamesOK(p)
    BY DEF IInv
  <1>4. UNCHANGED <<state, reloads, lock>>
    BY <1>2 DEF PollFrame
  <1>5. HoldsOK(p)'
    BY <1>1, <1>2, <1>3, <1>4 DEF HoldsOK, Outside, Kept, Born
  <1>6. NamesOK(p)'
    <2>1. Entitled(p)
      BY <1>2, <1>3 DEF NamesOK
    <2>2. Entitled(p)'
      BY <1>1, <1>2, <1>4, <2>1 DEF Entitled, Kept
    <2> QED BY <1>1, <1>2, <1>4, <2>2 DEF NamesOK, Kept, Unminted, PollPCs, AfterMint
  <1>7. PollTyped(p)'
    BY <1>1, <1>2, DeviceGrantAssumption DEF PollTyped, Kept
  <1> QED BY <1>2, <1>5, <1>6, <1>7, PollFrameInv

(* The id_token's auth time is read without the lock.                        *)
LEMMA IDTokenInv ==
  ASSUME IInv, NEW p \in Polls, CreateIDToken(p)
  PROVE  IInv' /\ Kept(p) /\ poll'[p].idSub = poll[p].idSub
         /\ PollFrame(p) /\ UNCHANGED tokens
  <1> DEFINE d == poll[p].flow
  <1>t. /\ StorageTyped /\ PollsTyped /\ HoldsOK(p) /\ NamesOK(p) /\ PollTyped(p)
        /\ poll[p].pc = "id_token"
        /\ UNCHANGED <<now, clients, reloads, state, userCodes, tokens, refreshers, lock, picked>>
    BY TypeParts DEF IInv, CreateIDToken
  <1>1. PICK w \in AuthTimeSeen(d) :
          poll' = [poll EXCEPT ![p].pc = "userinfo", ![p].authTime = w]
    BY DEF CreateIDToken
  <1>2. d \in Flows /\ Born(d) /\ (lock.flow = d => poll[p].disturbed)
    BY <1>t DEF HoldsOK, Outside
  <1>3. w \in {TornTime} \cup Nat
    BY <1>t, <1>2 DEF AuthTimeSeen, StorageTyped, StateType
  <1>4. ~poll[p].disturbed => w = state[d].authTime
    BY <1>2 DEF AuthTimeSeen
  <1> DEFINE y == [poll[p] EXCEPT !.pc = "userinfo", !.authTime = w]
  <1>5. poll' = [poll EXCEPT ![p] = y]
    BY <1>1
  <1>6. /\ y \in PollType /\ y.pc = "userinfo" /\ y.authTime = w /\ y.flow = d
        /\ y.client = poll[p].client /\ y.authenticated = poll[p].authenticated
        /\ y.late = poll[p].late /\ y.disturbed = poll[p].disturbed
        /\ y.idSub = poll[p].idSub
    BY <1>t, <1>3 DEF PollsTyped, PollType, PollPCs
  <1> HIDE DEF y
  <1>7. poll'[p] = y /\ \A q \in Polls \ {p} : poll'[q] = poll[q]
    BY <1>t, <1>5 DEF PollsTyped
  <1>8. Kept(p)
    BY <1>6, <1>7 DEF Kept
  <1>9. PollFrame(p)
    BY <1>t, <1>5, <1>6, <1>7 DEF PollFrame, PollsTyped
  <1>10. HoldsOK(p)'
    BY <1>t, <1>6, <1>7 DEF HoldsOK, Outside, Born
  <1>11. NamesOK(p)'
    <2>1. Minted(p)' = Minted(p) /\ Entitled(p)' = Entitled(p)
      BY <1>t, <1>6, <1>7 DEF Minted, Entitled
    <2> QED BY <1>t, <1>4, <1>6, <1>7, <2>1 DEF NamesOK, Unminted, PollPCs, AfterMint
  <1>12. PollTyped(p)'
    BY <1>t, <1>6, <1>7 DEF PollTyped, AfterMint
  <1> QED BY <1>t, <1>6, <1>7, <1>8, <1>9, <1>10, <1>11, <1>12, PollFrameInv

(* And so is its subject, which has to be an identity: that of the state, or *)
(* of the approval in progress, both picked for this flow.                   *)
LEMMA UserinfoInv ==
  ASSUME IInv, NEW p \in Polls, SetUserinfoFromRequest(p)
  PROVE  /\ IInv'
         /\ \/ Moves(p)
            \/ /\ PollFrame(p) /\ Kept(p) /\ UNCHANGED tokens
               /\ ~poll[p].late /\ poll[p].pc # "idle" /\ poll[p].idSub = NoSubject
               /\ poll'[p].idSub \in Subjects /\ poll'[p].idSub \in picked[poll[p].flow]
  <1> DEFINE d == poll[p].flow
  <1>t. /\ StorageTyped /\ PollsTyped /\ HoldsOK(p) /\ NamesOK(p) /\ PollTyped(p)
        /\ poll[p].pc = "userinfo"
        /\ UNCHANGED <<now, clients, reloads, state, userCodes, tokens, refreshers, lock, picked>>
    BY TypeParts DEF IInv, SetUserinfoFromRequest
  <1>1. PICK s \in SubjectSeen(d) :
          IF s \in Subjects
          THEN poll' = [poll EXCEPT ![p].pc = "apps", ![p].idSub = s]
          ELSE StepPoll(p, "failed")
    BY DEF SetUserinfoFromRequest
  <1>2. /\ d \in Flows /\ Born(d) /\ (lock.flow = d => poll[p].disturbed) /\ ~poll[p].late
        /\ poll[p].idSub = NoSubject
    BY <1>t DEF HoldsOK, NamesOK, Outside
  <1>3. CASE s \notin Subjects
    <2>1. StepPoll(p, "failed")
      BY <1>1, <1>3
    <2> QED BY <1>t, <1>2, <2>1, MoveInv DEF Outside
  <1>4. CASE s \in Subjects
    <2>1. s \in picked[d]
      <3>1. state[d].subject \in picked[d] \cup {NoSubject}
        BY <1>2 DEF IInv, FlowOK
      <3>2. lock.flow = d => lock.subject \in picked[d]
        BY <1>2, NothingType, DeviceGrantAssumption DEF IInv, LockOK
      <3> QED BY <1>4, <3>1, <3>2, DeviceGrantAssumption DEF SubjectSeen
    <2>2. ~poll[p].disturbed => s = state[d].subject
      BY <1>2 DEF SubjectSeen
    <2> DEFINE y == [poll[p] EXCEPT !.pc = "apps", !.idSub = s]
    <2>3. poll' = [poll EXCEPT ![p] = y]
      BY <1>1, <1>4
    <2>4. /\ y \in PollType /\ y.pc = "apps" /\ y.idSub = s /\ y.flow = d
          /\ y.client = poll[p].client /\ y.authenticated = poll[p].authenticated
          /\ y.late = poll[p].late /\ y.disturbed = poll[p].disturbed
          /\ y.authTime = poll[p].authTime
      BY <1>t, <1>4 DEF PollsTyped, PollType, PollPCs
    <2> HIDE DEF y
    <2>5. poll'[p] = y /\ \A q \in Polls \ {p} : poll'[q] = poll[q]
      BY <1>t, <2>3 DEF PollsTyped
    <2>6. Kept(p)
      BY <2>4, <2>5 DEF Kept
    <2>7. PollFrame(p)
      BY <1>t, <2>3, <2>4, <2>5 DEF PollFrame, PollsTyped
    <2>8. HoldsOK(p)'
      BY <1>t, <2>4, <2>5 DEF HoldsOK, Outside, Born
    <2>9. NamesOK(p)'
      <3>1. Minted(p)' = Minted(p) /\ Entitled(p)' = Entitled(p)
        BY <1>t, <2>4, <2>5 DEF Minted, Entitled
      <3> QED BY <1>t, <2>2, <2>4, <2>5, <3>1 DEF NamesOK, Unminted, PollPCs, AfterMint
    <2>10. PollTyped(p)'
      BY <1>t, <2>4, <2>5 DEF PollTyped, AfterMint
    <2> QED BY <1>t, <1>2, <1>4, <2>1, <2>4, <2>5, <2>6, <2>7, <2>8, <2>9, <2>10, PollFrameInv
  <1> QED BY <1>3, <1>4

(* The answer goes out.                                                      *)
LEMMA AnswerInv ==
  ASSUME IInv, NEW p \in Polls, AllClientIDs(p)
  PROVE  IInv' /\ Moves(p)
  <1>t. /\ StorageTyped /\ PollsTyped /\ HoldsOK(p) /\ NamesOK(p) /\ PollTyped(p)
        /\ poll[p].pc = "apps" /\ StepPoll(p, "answered")
        /\ UNCHANGED <<now, clients, reloads, state, userCodes, tokens, refreshers, lock, picked>>
    BY TypeParts DEF IInv, AllClientIDs
  <1>1. /\ poll' \in [Polls -> PollType] /\ \A q \in Polls \ {p} : poll'[q] = poll[q]
        /\ poll'[p].pc = "answered" /\ Kept(p)
        /\ poll'[p].authTime = poll[p].authTime /\ poll'[p].idSub = poll[p].idSub
    BY <1>t, StageRecord DEF PollPCs
  <1>2. PollFrame(p)
    BY <1>t, <1>1 DEF PollFrame, PollsTyped
  <1>3. HoldsOK(p)'
    BY <1>t, <1>1 DEF HoldsOK, Outside, Born, Kept
  <1>4. NamesOK(p)'
    <2>1. Minted(p)' = Minted(p) /\ Entitled(p)' = Entitled(p)
      BY <1>t, <1>1 DEF Minted, Entitled, Kept
    <2> QED BY <1>t, <1>1, <2>1 DEF NamesOK, Unminted, PollPCs, AfterMint, Kept
  <1>5. PollTyped(p)'
    BY <1>t, <1>1 DEF PollTyped, AfterMint, Kept
  <1>6. Moves(p)
    BY <1>t DEF Moves, PollPCs
  <1> QED BY <1>2, <1>3, <1>4, <1>5, <1>6, PollFrameInv
-----------------------------------------------------------------------------
(* The two ways to begin a poll, and the steps that end in a check.          *)
LEMMA BeginKinds ==
  ASSUME NEW p \in Polls, NEW d \in Flows, NEW c \in ClientIDs,
         \/ \E right \in BOOLEAN : AuthorizeClientIDSecret(p, d, c, right)
         \/ ClientIDFromRequest(p, d, c)
  PROVE  Begins(p, d)
  <1>1. CASE ClientIDFromRequest(p, d, c)
    BY <1>1 DEF ClientIDFromRequest, Begins, BeginsWith
  <1>2. ASSUME NEW right \in BOOLEAN, AuthorizeClientIDSecret(p, d, c, right)
        PROVE  Begins(p, d)
    <2> DEFINE authorized == clients[c] = "confidential" /\ right
    <2>1. /\ poll[p].pc = "idle" /\ Born(d)
          /\ BeginPoll(p, d, c, authorized, IF authorized THEN "state" ELSE "failed")
          /\ UNCHANGED <<now, clients, reloads, state, userCodes, tokens, refreshers, lock, picked>>
      BY <1>2 DEF AuthorizeClientIDSecret
    <2>2. authorized \in BOOLEAN /\ (IF authorized THEN "state" ELSE "failed") \in {"state", "failed"}
      OBVIOUS
    <2> HIDE DEF authorized
    <2>3. BeginsWith(p, d)
      BY <2>1, <2>2 DEF BeginsWith
    <2> QED BY <2>1, <2>3 DEF Begins
  <1> QED BY <1>1, <1>2

(* Every operation keeps the invariant.                                      *)
LEMMA InvNext == IInv /\ [Next]_vars => IInv'
  <1> SUFFICES ASSUME IInv, [Next]_vars PROVE IInv'
    OBVIOUS
  <1>1. CASE Tick \/ UNCHANGED vars
    BY <1>1, TickInv
  <1>2. ASSUME NEW file \in Files, Reload(file) PROVE IInv'
    BY <1>2, ReloadInv
  <1>3. ASSUME NEW d \in Flows, NEW c \in ClientIDs, NEW u \in UserCodes,
               StoreDeviceAuthorization(d, c, u)
        PROVE  IInv'
    BY <1>3, StoreInv
  <1>4. ASSUME NEW d \in Flows, NEW s \in Subjects, BeginApproval(d, s) PROVE IInv'
    BY <1>4, BeginApprovalInv
  <1>5. ASSUME NEW d \in Flows, EndApproval(d) \/ DenyDeviceAuthorization(d) PROVE IInv'
    BY <1>5, EndApprovalInv, DenyInv
  <1>6. ASSUME NEW p \in Polls, NEW d \in Flows, NEW c \in ClientIDs,
               \/ \E right \in BOOLEAN : AuthorizeClientIDSecret(p, d, c, right)
               \/ ClientIDFromRequest(p, d, c)
        PROVE  IInv'
    BY <1>6, BeginKinds, BeginInv
  <1>7. ASSUME NEW p \in Polls, PollTimesOut(p) \/ PollStep(p) PROVE IInv'
    BY <1>7, ChecksInv, MintInv, IDTokenInv, UserinfoInv, AnswerInv DEF PollStep
  <1> QED BY <1>1, <1>2, <1>3, <1>4, <1>5, <1>6, <1>7 DEF Next

(* The inductive invariant holds in every reachable state of the flows and   *)
(* the polls, whatever is approved, denied or reloaded while a poll runs.    *)
THEOREM InductiveInvariant == Spec => []IInv
  BY InvInit, InvNext, PTL DEF Spec

(* Every variable of the device grant holds a value of its type.             *)
THEOREM TypeCorrect == Spec => []TypeOK
  <1>1. IInv => TypeOK
    BY DEF IInv
  <1> QED BY <1>1, InductiveInvariant, PTL

(* Tokens go to the flow's own client, and to a confidential one without its *)
(* secret only after a reload (GetDeviceAuthorizatonState,                   *)
(* GetClientByClientID).                                                     *)
THEOREM TokensReachTheirClient == Spec => []DeviceClientBound
  <1>1. IInv => DeviceClientBound
    BY DEF IInv, NamesOK, Entitled, DeviceClientBound
  <1> QED BY <1>1, InductiveInvariant, PTL

(* An answer that no approval disturbed names one subject in all its tokens, *)
(* and the auth time of the approval that picked it, though the state is     *)
(* read without the lock (Mint, CreateIDToken, SetUserinfoFromRequest).      *)
THEOREM AnswersAgree == Spec => []AnswerAgrees
  <1>1. IInv => AnswerAgrees
    <2> SUFFICES ASSUME IInv, NEW p \in Polls, NEW d, d = poll[p].flow,
                        poll[p].pc = "answered", ~poll[p].disturbed
                 PROVE  /\ poll[p].idSub = tokens[p].subject
                        /\ d \in OfflineFlows => refreshers[p].userID = tokens[p].subject
                        /\ poll[p].authTime \in 1..Len(state[d].approvals)
                        /\ state[d].approvals[poll[p].authTime] = poll[p].idSub
      BY DEF AnswerAgrees
    <2>1. /\ d \in Flows /\ Born(d) /\ state[d].done
          /\ poll[p].idSub = tokens[p].subject
          /\ d \in OfflineFlows => refreshers[p].userID = tokens[p].subject
          /\ poll[p].authTime = state[d].authTime /\ poll[p].idSub = state[d].subject
      BY DEF IInv, HoldsOK, NamesOK, AfterMint
    <2>2. /\ state[d].authTime = Len(state[d].approvals) /\ state[d].authTime # 0
          /\ state[d].approvals[state[d].authTime] = state[d].subject
          /\ state[d].authTime \in Nat
      BY <2>1, TypeParts DEF IInv, FlowOK, StorageTyped, StateType
    <2> QED BY <2>1, <2>2
  <1> QED BY <1>1, InductiveInvariant, PTL
-----------------------------------------------------------------------------
(* The device grant implements Authorization. The abstract variables:        *)
Denied == {d \in Flows : state[d].denied}
HoldsFn == [p \in Polls |-> poll[p].flow]
LateFn == [p \in Polls |-> poll[p].late]
Names(p) == {tokens[p].subject, poll[p].idSub} \ {NoSubject}
NamesFn == [p \in Polls |-> Names(p)]

(* The abstract state, initially and when no step is seen.                   *)
LEMMA AbstractState ==
  /\ Promise!Init <=> /\ picked = [d \in Flows |-> {}]
                      /\ Denied = {}
                      /\ HoldsFn = [p \in Polls |-> NoFlow]
                      /\ LateFn = [p \in Polls |-> FALSE]
                      /\ NamesFn = [p \in Polls |-> {}]
  /\ UNCHANGED Promise!vars <=> UNCHANGED <<picked, Denied, HoldsFn, LateFn, NamesFn>>
  BY DEF Promise!Init, Promise!vars, Denied, HoldsFn, LateFn, NamesFn, Names

(* A flow is closed: DenyDeviceAuthorization, seen from above.               *)
LEMMA AbstractClose ==
  ASSUME NEW d \in Flows,
         Denied' = Denied \cup {d},
         UNCHANGED <<picked, HoldsFn, LateFn, NamesFn>>
  PROVE  Promise!Next
  <1>1. Promise!Close(d)
    BY Zenon DEF Promise!Close, Denied, HoldsFn, LateFn, NamesFn, Names
  <1> QED BY <1>1 DEF Promise!Next

(* Somebody picks: the start of CompleteDeviceAuthorization, from above.     *)
LEMMA AbstractPick ==
  ASSUME NEW d \in Flows, NEW s \in Subjects,
         picked' = [picked EXCEPT ![d] = @ \cup {s}],
         UNCHANGED <<Denied, HoldsFn, LateFn, NamesFn>>
  PROVE  Promise!Next
  <1>1. Promise!Pick(d, s)
    BY Zenon DEF Promise!Pick, Denied, HoldsFn, LateFn, NamesFn, Names
  <1> QED BY <1>1 DEF Promise!Next

(* A poll begins, from above.                                                *)
LEMMA AbstractBegin ==
  ASSUME NEW p \in Polls, NEW d \in Flows,
         HoldsFn[p] = NoFlow,
         HoldsFn' = [HoldsFn EXCEPT ![p] = d],
         LateFn' = [LateFn EXCEPT ![p] = d \in Denied],
         UNCHANGED <<picked, Denied, NamesFn>>
  PROVE  Promise!Next
  <1>1. Promise!Begin(p, d)
    BY Zenon DEF Promise!Begin, Denied, HoldsFn, LateFn, NamesFn, Names
  <1> QED BY <1>1 DEF Promise!Next

(* A poll's token or id_token names somebody, from above.                    *)
LEMMA AbstractName ==
  ASSUME NEW p \in Polls, NEW s \in Subjects,
         HoldsFn[p] # NoFlow, ~LateFn[p], s \in picked[HoldsFn[p]],
         NamesFn' = [NamesFn EXCEPT ![p] = @ \cup {s}],
         UNCHANGED <<picked, Denied, HoldsFn, LateFn>>
  PROVE  Promise!Next
  <1>1. Promise!Name(p, s)
    BY Zenon DEF Promise!Name, Denied, HoldsFn, LateFn, NamesFn, Names
  <1> QED BY <1>1 DEF Promise!Next
-----------------------------------------------------------------------------
(* Steps that create no flow's denial and touch no poll: time, reloads, new  *)
(* flows, the end of an approval. None is seen from above.                   *)
LEMMA QuietFlows ==
  ASSUME IInv,
         \/ Tick \/ UNCHANGED vars
         \/ \E file \in Files : Reload(file)
         \/ \E d \in Flows, c \in ClientIDs, u \in UserCodes : StoreDeviceAuthorization(d, c, u)
         \/ \E d \in Flows : EndApproval(d)
  PROVE  UNCHANGED Promise!vars
  <1>t. StorageTyped
    BY Zenon, TypeParts DEF IInv
  <1>1. UNCHANGED <<tokens, poll, picked>>
    BY Zenon DEF Tick, vars, Reload, StoreDeviceAuthorization, EndApproval
  <1>2. ASSUME UNCHANGED state PROVE UNCHANGED Denied
    BY <1>2 DEF Denied
  <1>3. ASSUME NEW d \in Flows, NEW c \in ClientIDs, NEW u \in UserCodes,
               StoreDeviceAuthorization(d, c, u)
        PROVE  UNCHANGED Denied
    <2> DEFINE new == NewState(c, u)
    <2>1. ~new.denied /\ ~state[d].denied
      BY <1>3, NothingType DEF NewState, StoreDeviceAuthorization, Born
    <2>2. state' = [state EXCEPT ![d] = new]
      BY <1>3 DEF StoreDeviceAuthorization
    <2> HIDE DEF new
    <2> QED BY <1>t, <2>1, <2>2 DEF Denied, StorageTyped
  <1>4. ASSUME NEW d \in Flows, EndApproval(d) PROVE UNCHANGED Denied
    <2> DEFINE new == Approved(d)
    <2>1. state' = [state EXCEPT ![d] = new]
      <3>1. state \in [Flows -> StateType]
        BY <1>t DEF StorageTyped
      <3>2. state' = [state EXCEPT ![d].subject = lock.subject,
                                   ![d].authTime = Len(state[d].approvals) + 1,
                                   ![d].done = TRUE,
                                   ![d].approvals = Append(@, lock.subject)]
        BY <1>4 DEF EndApproval
      <3> QED BY <3>1, <3>2 DEF Approved
    <2>2. new.denied = state[d].denied
      BY <1>t DEF Approved, StorageTyped, StateType
    <2> HIDE DEF new
    <2> QED BY <1>t, <2>1, <2>2 DEF Denied, StorageTyped
  <1>5. UNCHANGED Denied
    BY <1>2, <1>3, <1>4 DEF Tick, vars, Reload
  <1> QED BY <1>1, <1>5, AbstractState DEF HoldsFn, LateFn, NamesFn, Names

(* The user code a person types is that of the flow they were shown, so an   *)
(* approval picks for that flow.                                             *)
LEMMA BeginApprovalRefines ==
  ASSUME IInv, NEW d \in Flows, NEW s \in Subjects, BeginApproval(d, s)
  PROVE  Promise!Next
  <1>1. /\ picked' = [picked EXCEPT ![d] = @ \cup {s}]
        /\ UNCHANGED <<state, tokens>>
        /\ poll' = [p \in Polls |-> IF poll[p].flow = d THEN Marked(p) ELSE poll[p]]
    BY CodeResolves DEF BeginApproval, Marked
  <1>2. ASSUME NEW p \in Polls
        PROVE  poll'[p].flow = poll[p].flow /\ poll'[p].late = poll[p].late
               /\ poll'[p].idSub = poll[p].idSub
    <2>1. poll[p] \in PollType
      BY TypeParts DEF IInv, PollsTyped
    <2>2. poll'[p] = poll[p] \/ poll'[p] = Marked(p)
      BY <1>1
    <2> QED BY <2>1, <2>2, MarkedRecord
  <1>3. \A p \in Polls : Names(p)' = Names(p)
    BY <1>1, <1>2 DEF Names
  <1> QED BY <1>1, <1>2, <1>3, AbstractPick DEF Denied, HoldsFn, LateFn, NamesFn

(* And a denial closes it.                                                   *)
LEMMA DenyRefines ==
  ASSUME IInv, NEW d \in Flows, DenyDeviceAuthorization(d)
  PROVE  Promise!Next
  <1>t. StorageTyped
    BY TypeParts DEF IInv
  <1> DEFINE new == [state[d] EXCEPT !.denied = TRUE]
  <1>1. state' = [state EXCEPT ![d] = new] /\ UNCHANGED <<tokens, poll, picked>>
    BY CodeResolves DEF DenyDeviceAuthorization
  <1>2. new.denied
    BY <1>t DEF StorageTyped, StateType
  <1> HIDE DEF new
  <1>3. Denied' = Denied \cup {d}
    BY <1>t, <1>1, <1>2 DEF Denied, StorageTyped
  <1> QED BY <1>1, <1>3, AbstractClose DEF HoldsFn, LateFn, NamesFn, Names
-----------------------------------------------------------------------------
(* A poll that begins is late if its flow was denied before.                 *)
LEMMA BeginPollRefines ==
  ASSUME IInv, NEW p \in Polls, NEW d \in Flows, Begins(p, d)
  PROVE  Promise!Next
  <1>1. /\ \A q \in Polls \ {p} : poll'[q] = poll[q]
        /\ poll'[p].flow = d /\ poll'[p].late = state[d].denied
        /\ poll'[p].idSub = NoSubject
        /\ poll[p] = IdlePoll /\ UNCHANGED <<state, tokens, picked>>
    BY BeginRecord DEF Begins
  <1>2. poll[p].flow = NoFlow /\ poll[p].idSub = NoSubject
    BY <1>1 DEF IdlePoll
  <1>3. \A q \in Polls : Names(q)' = Names(q)
    BY <1>1, <1>2 DEF Names
  <1>4. HoldsFn[p] = NoFlow /\ HoldsFn' = [HoldsFn EXCEPT ![p] = d]
    BY <1>1, <1>2 DEF HoldsFn
  <1>5. state[d].denied = (d \in Denied)
    BY TypeParts DEF Denied, IInv, StorageTyped, StateType
  <1>6. LateFn' = [LateFn EXCEPT ![p] = d \in Denied]
    BY <1>1, <1>5 DEF LateFn
  <1> QED BY <1>1, <1>3, <1>4, <1>6, AbstractBegin DEF Denied, NamesFn

(* A poll that has begun keeps its flow, and touches no other poll's names.  *)
LEMMA PollStepFrame ==
  ASSUME NEW p \in Polls, PollFrame(p), Kept(p)
  PROVE  /\ UNCHANGED <<picked, Denied, HoldsFn, LateFn>>
         /\ \A q \in Polls \ {p} : Names(q)' = Names(q)
  BY DEF PollFrame, Kept, Denied, HoldsFn, LateFn, Names

(* Its names stay as they were: nothing is seen from above.                  *)
LEMMA QuietPoll ==
  ASSUME NEW p \in Polls, PollFrame(p), Kept(p),
         UNCHANGED tokens, poll'[p].idSub = poll[p].idSub
  PROVE  UNCHANGED Promise!vars
  <1>1. \A q \in Polls : Names(q)' = Names(q)
    BY PollStepFrame DEF Names
  <1>2. UNCHANGED NamesFn
    BY <1>1 DEF NamesFn
  <1> QED BY <1>2, PollStepFrame, AbstractState

(* A check that passes or fails is not seen either.                          *)
LEMMA MoveFrame ==
  ASSUME IInv, NEW p \in Polls, Moves(p)
  PROVE  UNCHANGED Promise!vars
  <1>t. PollsTyped
    BY TypeParts DEF IInv
  <1>1. PICK v \in PollPCs : StepPoll(p, v)
    BY DEF Moves
  <1>2. /\ poll' \in [Polls -> PollType] /\ \A q \in Polls \ {p} : poll'[q] = poll[q]
        /\ Kept(p) /\ poll'[p].idSub = poll[p].idSub
    BY <1>t, <1>1, StageRecord
  <1>3. PollFrame(p) /\ UNCHANGED tokens
    BY <1>t, <1>2 DEF Moves, PollFrame, PollsTyped
  <1> QED BY <1>2, <1>3, QuietPoll

(* Or it names one more, whom somebody picked for its flow.                  *)
LEMMA NamesPicked ==
  ASSUME NEW p \in Polls, PollFrame(p), Kept(p), poll[p].flow \in Flows, ~poll[p].late,
         NEW s \in Subjects, s \in picked[poll[p].flow], Names(p)' = Names(p) \cup {s}
  PROVE  Promise!Next
  <1>1. NamesFn' = [NamesFn EXCEPT ![p] = @ \cup {s}]
    BY PollStepFrame DEF NamesFn
  <1>2. HoldsFn[p] # NoFlow /\ ~LateFn[p] /\ s \in picked[HoldsFn[p]]
    BY DeviceGrantAssumption DEF HoldsFn, LateFn
  <1> QED BY <1>1, <1>2, PollStepFrame, AbstractName

(* Minting names the subject of the flow's last approval.                    *)
LEMMA MintRefines ==
  ASSUME IInv, NEW p \in Polls, Mint(p)
  PROVE  Promise!Next
  <1>1. PICK d : d = poll[p].flow
    OBVIOUS
  <1> DEFINE s == state[d].subject
  <1>2. /\ d \in Flows /\ ~poll[p].late /\ PollFrame(p) /\ Kept(p)
        /\ tokens[p] = NoToken /\ poll[p].idSub = NoSubject /\ poll'[p].idSub = NoSubject
        /\ s \in picked[d] /\ s \in Subjects /\ tokens'[p].subject = s
    BY <1>1, MintEffect
  <1> HIDE DEF s
  <1>3. Names(p)' = Names(p) \cup {s}
    BY <1>2, NothingType, DeviceGrantAssumption DEF Names
  <1> QED BY <1>1, <1>2, <1>3, NamesPicked

(* The id_token names whom the state says, or the approval in progress.      *)
LEMMA UserinfoRefines ==
  ASSUME IInv, NEW p \in Polls, SetUserinfoFromRequest(p)
  PROVE  Promise!Next \/ UNCHANGED Promise!vars
  <1>t. PollsTyped /\ HoldsOK(p)
    BY TypeParts DEF IInv
  <1>1. CASE Moves(p)
    BY <1>1, MoveFrame DEF IInv
  <1>2. CASE /\ PollFrame(p) /\ Kept(p) /\ UNCHANGED tokens
             /\ ~poll[p].late /\ poll[p].pc # "idle" /\ poll[p].idSub = NoSubject
             /\ poll'[p].idSub \in Subjects /\ poll'[p].idSub \in picked[poll[p].flow]
    <2>1. PICK s \in Subjects : s = poll'[p].idSub
      BY <1>2
    <2>2. Names(p)' = Names(p) \cup {s}
      BY <1>2, <2>1, DeviceGrantAssumption DEF Names
    <2>3. poll[p].flow \in Flows
      BY <1>2, <1>t DEF HoldsOK
    <2> QED BY <1>2, <2>1, <2>2, <2>3, NamesPicked
  <1> QED BY <1>1, <1>2, UserinfoInv

(* Any other step of a poll hands out nothing.                               *)
LEMMA PollRefines ==
  ASSUME IInv, NEW p \in Polls, PollTimesOut(p) \/ PollStep(p)
  PROVE  Promise!Next \/ UNCHANGED Promise!vars
  <1>1. CASE Mint(p)
    BY <1>1, MintRefines
  <1>2. CASE SetUserinfoFromRequest(p)
    BY <1>2, UserinfoRefines
  <1>3. CASE CreateIDToken(p)
    BY <1>3, IDTokenInv, QuietPoll
  <1>4. CASE \/ GetDeviceAuthorizatonState(p) \/ PollTimesOut(p) \/ CheckDenied(p)
             \/ CheckDone(p) \/ CheckExpires(p) \/ GetClientByClientID(p) \/ AllClientIDs(p)
    BY <1>4, ChecksInv, AnswerInv, MoveFrame
  <1> QED BY <1>1, <1>2, <1>3, <1>4 DEF PollStep
-----------------------------------------------------------------------------
(* The device grant starts as the abstract grant does.                       *)
LEMMA RefinesInit == Init => Promise!Init
  <1> SUFFICES ASSUME Init PROVE Promise!Init
    OBVIOUS
  <1>1. Denied = {}
    BY NothingType DEF Init, Denied
  <1>2. \A p \in Polls : poll[p].flow = NoFlow /\ poll[p].late = FALSE /\ Names(p) = {}
    BY NothingType DEF Init, IdlePoll, Names
  <1> QED BY <1>1, <1>2, AbstractState DEF Init, HoldsFn, LateFn, NamesFn

(* Every step of the device grant is a step of the abstract grant or none.   *)
LEMMA RefinesNext == IInv /\ [Next]_vars => [Promise!Next]_(Promise!vars)
  <1> SUFFICES ASSUME IInv, [Next]_vars
               PROVE  Promise!Next \/ UNCHANGED Promise!vars
    OBVIOUS
  <1>1. CASE \/ Tick \/ UNCHANGED vars
             \/ \E file \in Files : Reload(file)
             \/ \E d \in Flows, c \in ClientIDs, u \in UserCodes : StoreDeviceAuthorization(d, c, u)
             \/ \E d \in Flows : EndApproval(d)
    BY <1>1, QuietFlows
  <1>2. ASSUME NEW d \in Flows, NEW s \in Subjects, BeginApproval(d, s) PROVE Promise!Next
    BY <1>2, BeginApprovalRefines
  <1>3. ASSUME NEW d \in Flows, DenyDeviceAuthorization(d) PROVE Promise!Next
    BY <1>3, DenyRefines
  <1>4. ASSUME NEW p \in Polls, NEW d \in Flows, NEW c \in ClientIDs,
               \/ \E right \in BOOLEAN : AuthorizeClientIDSecret(p, d, c, right)
               \/ ClientIDFromRequest(p, d, c)
        PROVE  Promise!Next
    BY <1>4, BeginKinds, BeginPollRefines
  <1>5. ASSUME NEW p \in Polls, PollTimesOut(p) \/ PollStep(p)
        PROVE  Promise!Next \/ UNCHANGED Promise!vars
    BY <1>5, PollRefines
  <1> QED BY <1>1, <1>2, <1>3, <1>4, <1>5 DEF Next

(* The device grant implements Authorization: a poll names only whom         *)
(* somebody picked who was shown the user code of that very flow, although   *)
(* user codes are short and never freed; and nobody, if the flow was denied  *)
(* when the poll began (StoreDeviceAuthorization, CompleteDeviceAuthorization, *)
(* DenyDeviceAuthorization, Mint, SetUserinfoFromRequest).                   *)
THEOREM DeviceGrantImplements == Spec => ImplementsAuthorization
  BY InductiveInvariant, RefinesInit, RefinesNext, PTL
  DEF Spec, ImplementsAuthorization, Promise!Spec
===============================================================================
