---------------------------- MODULE DeviceGrant ----------------------------
(* The device authorization grant: a CLI obtains a device code and a user    *)
(* code and polls /oauth/token with the first, a person types the second at  *)
(* /login and picks an identity.                                             *)
(*                                                                           *)
(* As in AuthCode, a storage method is one critical section and one action,  *)
(* but CompleteDeviceAuthorization, whose section is opened and closed by    *)
(* two: GetDeviceAuthorizatonState hands out a pointer, and a poll goes on   *)
(* reading the state without the lock.                                       *)
(*                                                                           *)
(* Device codes are fresh random values and name flows; user codes are short *)
(* and may repeat. A poll is one request, whose name bounds how many a       *)
(* behaviour has; a CLI that retries uses several. A restart, which forgets  *)
(* every code, is left out.                                                  *)
EXTENDS Integers, Sequences, Registry

CONSTANTS Files,         \* what a clients file that is reloaded may declare
          Flows,         \* device codes
          OfflineFlows,  \* those whose scopes ask for a refresh token
          UserCodes,     \* what NewUserCode may draw
          Polls,         \* device_code requests at the token endpoint
          Subjects,      \* the built-in identities
          NoFlow, NoClient, NoCode, NoSubject,
          Torn,          \* a subject string read while it is being written
          Lifetime,      \* Config's DeviceAuthorization.Lifetime, in ticks
          MaxTime,       \* the clock's last tick
          MaxApprovals,  \* approvals of one flow
          MaxReloads     \* hot reloads of the clients file

ASSUME DeviceGrantAssumption ==
  /\ Files \subseteq Registries
  /\ OfflineFlows \subseteq Flows
  /\ NoFlow \notin Flows
  /\ NoClient \notin ClientIDs
  /\ NoCode \notin UserCodes
  /\ NoSubject \notin Subjects
  /\ Torn \notin Subjects \cup {NoSubject}
  /\ {Lifetime, MaxTime, MaxApprovals, MaxReloads} \subseteq Nat

VARIABLES now,
          clients,     \* Storage.clients
          reloads,     \* hot reloads so far, a bound
          state,       \* Storage.deviceCodes: the DeviceAuthorizationState objects
          userCodes,   \* Storage.userCodes
          tokens,      \* Storage.tokens, by the poll that minted them
          refreshers,  \* Storage.refreshers, likewise
          lock,        \* the CompleteDeviceAuthorization section in progress
          poll,        \* the polls
          picked       \* history: what those who were shown a flow's code picked

vars == <<now, clients, reloads, state, userCodes, tokens, refreshers, lock, poll, picked>>
-----------------------------------------------------------------------------
(* authTime is the ordinal of the approval that set it, 0 the zero time.     *)
(* userCode belongs to deviceEntry; approvals (the subjects of completed     *)
(* approvals), createdAs and createdAt (the client's kind and the reloads at *)
(* /device_authorization) are history.                                       *)
TornTime == -1

NewState(c, u) ==
  [client |-> c, userCode |-> u, expires |-> now + Lifetime, subject |-> NoSubject,
   authTime |-> 0, done |-> FALSE, denied |-> FALSE, approvals |-> <<>>,
   createdAs |-> clients[c], createdAt |-> reloads]

Unborn ==
  [client |-> NoClient, userCode |-> NoCode, expires |-> 0, subject |-> NoSubject,
   authTime |-> 0, done |-> FALSE, denied |-> FALSE, approvals |-> <<>>,
   createdAs |-> "absent", createdAt |-> 0]

Born(d) == state[d] # Unborn

Unlocked == [flow |-> NoFlow, subject |-> NoSubject]
LockFree == lock = Unlocked

NoToken == [client |-> NoClient, subject |-> NoSubject]
NoRefresh == [applicationID |-> NoClient, userID |-> NoSubject, authTime |-> 0]

(* late, ready, began and disturbed are history: whether the flow was denied *)
(* and whether it was approved when the poll began, the reloads by then, and *)
(* whether an approval ran on the flow while the poll held it.               *)
IdlePoll ==
  [pc |-> "idle", flow |-> NoFlow, client |-> NoClient, authenticated |-> FALSE,
   authTime |-> 0, idSub |-> NoSubject, late |-> FALSE, ready |-> FALSE,
   began |-> 0, disturbed |-> FALSE]

Init ==
  /\ now = 0
  /\ clients = SeedClients
  /\ reloads = 0
  /\ state = [d \in Flows |-> Unborn]
  /\ userCodes = [u \in UserCodes |-> NoFlow]
  /\ tokens = [p \in Polls |-> NoToken]
  /\ refreshers = [p \in Polls |-> NoRefresh]
  /\ lock = Unlocked
  /\ poll = [p \in Polls |-> IdlePoll]
  /\ picked = [d \in Flows |-> {}]
-----------------------------------------------------------------------------
Tick ==
  /\ now < MaxTime
  /\ now' = now + 1
  /\ UNCHANGED <<clients, reloads, state, userCodes, tokens, refreshers, lock, poll, picked>>

(* WatchClientsFile applies a file it has loaded.                            *)
Reload(file) ==
  /\ LockFree
  /\ reloads < MaxReloads
  /\ clients' = ReplaceFileClients(clients, file)
  /\ reloads' = reloads + 1
  /\ UNCHANGED <<now, state, userCodes, tokens, refreshers, lock, poll, picked>>

(* Mutant: a user code that is taken is taken over.                          *)
StoreDeviceAuthorization_overwrites(d, c, u) ==
  /\ LockFree
  /\ ~Born(d)
  /\ clients[c] # "absent"
  /\ state' = [state EXCEPT ![d] = NewState(c, u)]
  /\ userCodes' = [userCodes EXCEPT ![u] = d]
  /\ UNCHANGED <<now, clients, reloads, tokens, refreshers, lock, poll, picked>>

(* /device_authorization: an unregistered client and a user code that was    *)
(* ever handed out before are refused; nothing frees a user code.            *)
StoreDeviceAuthorization(d, c, u) ==
  /\ LockFree
  /\ ~Born(d)
  /\ clients[c] # "absent"
  /\ userCodes[u] = NoFlow
  /\ state' = [state EXCEPT ![d] = NewState(c, u)]
  /\ userCodes' = [userCodes EXCEPT ![u] = d]
  /\ UNCHANGED <<now, clients, reloads, tokens, refreshers, lock, poll, picked>>
-----------------------------------------------------------------------------
(* A person who is shown flow d types its user code at /login and picks s.   *)
(* The code resolves to whatever flow the map holds, approved before or not, *)
(* denied or not, expired or not.                                            *)
BeginApproval(d, s) ==
  LET target == userCodes[state[d].userCode]
  IN /\ LockFree
     /\ Born(d)
     /\ Len(state[target].approvals) < MaxApprovals
     /\ lock' = [flow |-> target, subject |-> s]
     /\ picked' = [picked EXCEPT ![d] = @ \cup {s}]
     /\ poll' = [p \in Polls |->
          IF poll[p].flow = target THEN [poll[p] EXCEPT !.disturbed = TRUE] ELSE poll[p]]
     /\ UNCHANGED <<now, clients, reloads, state, userCodes, tokens, refreshers>>

(* Mutant: auth_time is not renewed.                                         *)
EndApproval_keepsFirstAuthTime(d) ==
  /\ lock.flow = d
  /\ state' = [state EXCEPT ![d].subject = lock.subject, ![d].done = TRUE,
                            ![d].authTime = 1,
                            ![d].approvals = Append(@, lock.subject)]
  /\ lock' = Unlocked
  /\ UNCHANGED <<now, clients, reloads, userCodes, tokens, refreshers, poll, picked>>

EndApproval(d) ==
  /\ lock.flow = d
  /\ state' = [state EXCEPT ![d].subject = lock.subject,
                            ![d].authTime = Len(state[d].approvals) + 1,
                            ![d].done = TRUE,
                            ![d].approvals = Append(@, lock.subject)]
  /\ lock' = Unlocked
  /\ UNCHANGED <<now, clients, reloads, userCodes, tokens, refreshers, poll, picked>>

(* Exported, with no caller in the repository: a page that offers to deny    *)
(* would call it with the code its user typed.                               *)
DenyDeviceAuthorization(d) ==
  LET target == userCodes[state[d].userCode]
  IN /\ LockFree
     /\ Born(d)
     /\ ~state[target].denied
     /\ state' = [state EXCEPT ![target].denied = TRUE]
     /\ UNCHANGED <<now, clients, reloads, userCodes, tokens, refreshers, lock, poll, picked>>

(* What a poll may read of a state it holds, without the lock.               *)
DoneSeen(d) == {state[d].done} \cup (IF lock.flow = d THEN {TRUE} ELSE {})
SubjectSeen(d) ==
  {state[d].subject} \cup (IF lock.flow = d THEN {lock.subject, Torn} ELSE {})
AuthTimeSeen(d) ==
  {state[d].authTime} \cup
    (IF lock.flow = d THEN {Len(state[d].approvals) + 1, TornTime} ELSE {})
-----------------------------------------------------------------------------
(* A poll.                                                                   *)

StepPoll(p, pc) == poll' = [poll EXCEPT ![p].pc = pc]

BeginPoll(p, d, c, authenticated, pc) ==
  poll' = [poll EXCEPT ![p] =
    [IdlePoll EXCEPT !.pc = pc, !.flow = d, !.client = c, !.authenticated = authenticated,
                     !.late = state[d].denied, !.ready = state[d].done, !.began = reloads]]

(* With a Basic header the OP verifies the secret; any client may present    *)
(* any device code.                                                          *)
AuthorizeClientIDSecret(p, d, c, rightSecret) ==
  LET authorized == clients[c] = "confidential" /\ rightSecret
  IN /\ poll[p].pc = "idle"
     /\ Born(d)
     /\ LockFree
     /\ BeginPoll(p, d, c, authorized, IF authorized THEN "state" ELSE "failed")
     /\ UNCHANGED <<now, clients, reloads, state, userCodes, tokens, refreshers, lock, picked>>

(* With client_id alone it verifies nothing yet.                             *)
ClientIDFromRequest(p, d, c) ==
  /\ poll[p].pc = "idle"
  /\ Born(d)
  /\ BeginPoll(p, d, c, FALSE, "state")
  /\ UNCHANGED <<now, clients, reloads, state, userCodes, tokens, refreshers, lock, picked>>

(* Mutants: any client's poll is served; an expired flow is not found.       *)
GetDeviceAuthorizatonState_anyClient(p) ==
  /\ poll[p].pc = "state"
  /\ LockFree
  /\ StepPoll(p, "denied?")
  /\ UNCHANGED <<now, clients, reloads, state, userCodes, tokens, refreshers, lock, picked>>
GetDeviceAuthorizatonState_untilExpiry(p) ==
  /\ poll[p].pc = "state"
  /\ LockFree
  /\ StepPoll(p, IF state[poll[p].flow].client = poll[p].client /\ now <= state[poll[p].flow].expires
                 THEN "denied?" ELSE "failed")
  /\ UNCHANGED <<now, clients, reloads, state, userCodes, tokens, refreshers, lock, picked>>

GetDeviceAuthorizatonState(p) ==
  /\ poll[p].pc = "state"
  /\ LockFree
  /\ StepPoll(p, IF state[poll[p].flow].client = poll[p].client THEN "denied?" ELSE "failed")
  /\ UNCHANGED <<now, clients, reloads, state, userCodes, tokens, refreshers, lock, picked>>

(* The OP gives a poll four seconds to get here and then answers slow_down.  *)
PollTimesOut(p) ==
  /\ poll[p].pc = "state"
  /\ StepPoll(p, "slow down")
  /\ UNCHANGED <<now, clients, reloads, state, userCodes, tokens, refreshers, lock, picked>>

(* The OP reads Denied, Done and Expires, in this order: only a flow that is *)
(* not approved expires.                                                     *)
CheckDenied(p) ==
  /\ poll[p].pc = "denied?"
  /\ StepPoll(p, IF state[poll[p].flow].denied THEN "failed" ELSE "done?")
  /\ UNCHANGED <<now, clients, reloads, state, userCodes, tokens, refreshers, lock, picked>>

CheckDone(p) ==
  /\ poll[p].pc = "done?"
  /\ \E done \in DoneSeen(poll[p].flow) : StepPoll(p, IF done THEN "client" ELSE "expired?")
  /\ UNCHANGED <<now, clients, reloads, state, userCodes, tokens, refreshers, lock, picked>>

CheckExpires(p) ==
  /\ poll[p].pc = "expired?"
  /\ StepPoll(p, IF now > state[poll[p].flow].expires THEN "expired" ELSE "pending")
  /\ UNCHANGED <<now, clients, reloads, state, userCodes, tokens, refreshers, lock, picked>>

(* ApplicationType: a confidential client is a web app, which the OP wants   *)
(* authenticated, a public one a native app, which it does not.              *)
DemandsAuthentication(kind) == kind = "confidential"

GetClientByClientID(p) ==
  LET kind == clients[poll[p].client]
  IN /\ poll[p].pc = "client"
     /\ LockFree
     /\ StepPoll(p, IF kind # "absent" /\ poll[p].authenticated = DemandsAuthentication(kind)
                    THEN "mint" ELSE "failed")
     /\ UNCHANGED <<now, clients, reloads, state, userCodes, tokens, refreshers, lock, picked>>

(* CreateAccessToken, or CreateAccessAndRefreshTokens where the scopes ask   *)
(* for it. infoFromRequest knows neither client nor auth time of a device    *)
(* authorization: both tokens bear the empty client, the refresh token the   *)
(* zero time.                                                                *)
Mint(p) ==
  LET d == poll[p].flow
  IN /\ poll[p].pc = "mint"
     /\ LockFree
     /\ tokens' = [tokens EXCEPT ![p] = [client |-> NoClient, subject |-> state[d].subject]]
     /\ refreshers' = IF d \in OfflineFlows
          THEN [refreshers EXCEPT ![p] = [NoRefresh EXCEPT !.userID = state[d].subject]]
          ELSE refreshers
     /\ StepPoll(p, "id_token")
     /\ UNCHANGED <<now, clients, reloads, state, userCodes, lock, picked>>

(* The id_token is made after, from auth_time and, later, from the subject,  *)
(* both read without the lock. No identity bears a torn name.                *)
CreateIDToken(p) ==
  /\ poll[p].pc = "id_token"
  /\ \E t \in AuthTimeSeen(poll[p].flow) :
       poll' = [poll EXCEPT ![p].pc = "userinfo", ![p].authTime = t]
  /\ UNCHANGED <<now, clients, reloads, state, userCodes, tokens, refreshers, lock, picked>>

(* Mutant: the subject is not looked up among the identities.                *)
SetUserinfoFromRequest_anySubject(p) ==
  /\ poll[p].pc = "userinfo"
  /\ \E s \in SubjectSeen(poll[p].flow) :
       poll' = [poll EXCEPT ![p].pc = "apps", ![p].idSub = s]
  /\ UNCHANGED <<now, clients, reloads, state, userCodes, tokens, refreshers, lock, picked>>

SetUserinfoFromRequest(p) ==
  /\ poll[p].pc = "userinfo"
  /\ \E s \in SubjectSeen(poll[p].flow) :
       IF s \in Subjects
       THEN poll' = [poll EXCEPT ![p].pc = "apps", ![p].idSub = s]
       ELSE StepPoll(p, "failed")
  /\ UNCHANGED <<now, clients, reloads, state, userCodes, tokens, refreshers, lock, picked>>

(* Listing the registered clients takes the lock once more; the OP answers.  *)
AllClientIDs(p) ==
  /\ poll[p].pc = "apps"
  /\ LockFree
  /\ StepPoll(p, "answered")
  /\ UNCHANGED <<now, clients, reloads, state, userCodes, tokens, refreshers, lock, picked>>
-----------------------------------------------------------------------------
PollStep(p) ==
  \/ GetDeviceAuthorizatonState(p)
  \/ CheckDenied(p)
  \/ CheckDone(p)
  \/ CheckExpires(p)
  \/ GetClientByClientID(p)
  \/ Mint(p)
  \/ CreateIDToken(p)
  \/ SetUserinfoFromRequest(p)
  \/ AllClientIDs(p)

Next ==
  \/ Tick
  \/ \E file \in Files : Reload(file)
  \/ \E d \in Flows, c \in ClientIDs, u \in UserCodes : StoreDeviceAuthorization(d, c, u)
  \/ \E d \in Flows, s \in Subjects : BeginApproval(d, s)
  \/ \E d \in Flows : EndApproval(d)
  \/ \E d \in Flows : DenyDeviceAuthorization(d)
  \/ \E p \in Polls, d \in Flows, c \in ClientIDs :
       \/ \E right \in BOOLEAN : AuthorizeClientIDSecret(p, d, c, right)
       \/ ClientIDFromRequest(p, d, c)
  \/ \E p \in Polls : PollTimesOut(p)
  \/ \E p \in Polls : PollStep(p)

Spec == Init /\ [][Next]_vars

(* As in AuthCode: goroutines are scheduled and the lock goes to whoever     *)
(* waits for it. Nobody has to approve, deny, poll or reload, and no poll    *)
(* has to time out.                                                          *)
FairSpec ==
  /\ Spec
  /\ \A d \in Flows : WF_vars(EndApproval(d))
  /\ \A p \in Polls : SF_vars(PollStep(p))
-----------------------------------------------------------------------------
(* Types.                                                                    *)
StateType ==
  [client : ClientIDs \cup {NoClient}, userCode : UserCodes \cup {NoCode}, expires : Nat,
   subject : Subjects \cup {NoSubject}, authTime : Nat, done : BOOLEAN, denied : BOOLEAN,
   approvals : Seq(Subjects), createdAs : Kinds, createdAt : Nat]

PollPCs == {"idle", "state", "denied?", "done?", "expired?", "client", "mint", "id_token",
            "userinfo", "apps", "answered", "pending", "expired", "slow down", "failed"}

PollType ==
  [pc : PollPCs, flow : Flows \cup {NoFlow}, client : ClientIDs \cup {NoClient},
   authenticated : BOOLEAN, authTime : {TornTime} \cup Nat,
   idSub : Subjects \cup {NoSubject}, late : BOOLEAN, ready : BOOLEAN, began : Nat,
   disturbed : BOOLEAN]

(* Every variable holds a value of its type, no token bears a torn or an     *)
(* empty subject, and a poll that has begun holds a flow.                    *)
TypeOK ==
  /\ now \in 0..MaxTime
  /\ clients \in Registries
  /\ reloads \in 0..MaxReloads
  /\ state \in [Flows -> StateType]
  /\ userCodes \in [UserCodes -> Flows \cup {NoFlow}]
  /\ tokens \in [Polls -> [client : {NoClient}, subject : Subjects \cup {NoSubject}]]
  /\ refreshers \in [Polls -> [applicationID : {NoClient}, userID : Subjects \cup {NoSubject},
                               authTime : {0}]]
  /\ lock \in {Unlocked} \cup [flow : Flows, subject : Subjects]
  /\ poll \in [Polls -> PollType]
  /\ picked \in [Flows -> SUBSET Subjects]
  /\ \A p \in Polls :
       /\ poll[p].pc # "idle" => poll[p].flow \in Flows
       /\ poll[p].pc \in {"id_token", "userinfo", "apps", "answered"} =>
            tokens[p].subject # NoSubject
-----------------------------------------------------------------------------
(* Safety.                                                                   *)

Minted(p) == tokens[p] # NoToken

Promise == INSTANCE Authorization WITH
  Flows <- Flows, Handlers <- Polls, Subjects <- Subjects, NoFlow <- NoFlow,
  picked <- picked,
  closed <- {d \in Flows : state[d].denied},
  holds <- [p \in Polls |-> poll[p].flow],
  late <- [p \in Polls |-> poll[p].late],
  names <- [p \in Polls |-> {tokens[p].subject, poll[p].idSub} \ {NoSubject}]

(* A CLI gets tokens only for an identity that somebody picked who was shown *)
(* the user code of that very CLI, although user codes are short and nothing *)
(* frees them (StoreDeviceAuthorization refuses a duplicate); and a denial   *)
(* holds for every later poll, whatever is approved before or after it       *)
(* (DenyDeviceAuthorization and CompleteDeviceAuthorization write different  *)
(* flags of one state).                                                      *)
ImplementsAuthorization == Promise!Spec

(* Unless an approval ran on the flow while the poll held it, access token,  *)
(* refresh token and id_token name one subject, and the id_token's auth_time *)
(* is that of the approval that picked it (Mint reads the subject under the  *)
(* lock, CreateIDToken and SetUserinfoFromRequest read the shared state      *)
(* after it).                                                                *)
AnswerAgrees ==
  \A p \in Polls : LET d == poll[p].flow IN
    poll[p].pc = "answered" /\ ~poll[p].disturbed =>
      /\ poll[p].idSub = tokens[p].subject
      /\ d \in OfflineFlows => refreshers[p].userID = tokens[p].subject
      /\ poll[p].authTime \in 1..Len(state[d].approvals)
      /\ state[d].approvals[poll[p].authTime] = poll[p].idSub

(* Tokens go to the client the device code was issued to, and without the    *)
(* secret of a confidential one only if a hot reload has changed it since    *)
(* (GetDeviceAuthorizatonState compares client ids, GetClientByClientID      *)
(* looks at the client of another moment than AuthorizeClientIDSecret).      *)
DeviceClientBound ==
  \A p \in Polls : LET d == poll[p].flow IN
    Minted(p) =>
      /\ poll[p].client = state[d].client
      /\ poll[p].authenticated \/ state[d].createdAs = "public" \/ state[d].createdAt < reloads
-----------------------------------------------------------------------------
(* Liveness: a poll that begins once the flow is approved, with credentials  *)
(* that fit its registered client, is answered with tokens, after the code's *)
(* expiry too and however often it was polled before, unless it times out,   *)
(* or the flow is denied or approved anew or the clients reloaded meanwhile  *)
(* (CheckDeviceAuthorizationState looks at Expires last).                    *)
ApprovedPollsSucceed ==
  \A p \in Polls, d \in Flows :
    /\ poll[p].flow = d /\ poll[p].ready
    /\ poll[p].client = state[d].client
    /\ clients[state[d].client] # "absent"
    /\ poll[p].authenticated = DemandsAuthentication(clients[state[d].client])
    /\ poll[p].began = reloads
    /\ poll[p].pc = "state"
    ~> \/ poll[p].pc \in {"answered", "slow down"}
       \/ state[d].denied
       \/ poll[p].disturbed
       \/ poll[p].began < reloads
=============================================================================
