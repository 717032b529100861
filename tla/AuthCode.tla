------------------------------ MODULE AuthCode ------------------------------
(* The authorization-code grant: /authorize, the passwordless /login, the    *)
(* authorize callback and the code exchange at /oauth/token, as concurrent   *)
(* HTTP handlers over one Storage, with the client registry hot-reloaded     *)
(* underneath them.                                                          *)
(*                                                                           *)
(* Every storage method is a critical section of Storage.lock and is one     *)
(* action. The exception is CompleteAuthRequest, whose section is opened and *)
(* closed by two actions, because a handler that already holds the           *)
(* *authRequest reads its fields without the lock: between the two actions   *)
(* such a read sees the old value, the new one, or a torn string.            *)
(*                                                                           *)
(* Handlers are one-shot: a callback handler is named by the code it mints,  *)
(* an exchange by the access token it mints (both fresh random values), and  *)
(* the pools of names bound how many requests a behaviour has.               *)
EXTENDS Integers, Sequences, Registry

CONSTANTS Requests,          \* auth request ids, handed out by uuid.NewString
          OfflineRequests,   \* those whose scopes ask for a refresh token
          Codes,             \* authorization codes, one per callback
          Exchanges,         \* token-endpoint handlers
          Subjects,          \* the built-in identities
          Presented,         \* code challenges clients send to /authorize
          Hints,             \* subjects an id_token_hint may name, or NoSubject
          NoRequest, NoClient, NoCode, NoSubject,
          Torn,              \* a subject string read while it is being written
          MaxLogins,         \* logins completed on one auth request
          MaxReloads         \* hot reloads of the clients file

(* "none" is a request without a code_challenge.                             *)
Challenges == {"none", "plain", "S256"}

ASSUME AuthCodeAssumption ==
  /\ OfflineRequests \subseteq Requests
  /\ Presented \subseteq Challenges
  /\ Hints \subseteq Subjects \cup {NoSubject}
  /\ NoRequest \notin Requests
  /\ NoClient \notin ClientIDs
  /\ NoCode \notin Codes
  /\ NoSubject \notin Subjects
  /\ Torn \notin Subjects \cup {NoSubject}
  /\ MaxLogins \in Nat
  /\ MaxReloads \in Nat

VARIABLES clients,       \* Storage.clients
          reloads,       \* hot reloads so far, a bound
          requests,      \* the *authRequest objects, by id; a handler keeps one alive
          authRequests,  \* the ids in Storage.authRequests
          codes,         \* Storage.codes
          tokens,        \* Storage.tokens, by the exchange that minted them
          refreshers,    \* Storage.refreshers, likewise
          lock,          \* the CompleteAuthRequest section in progress
          callback,      \* the authorize-callback handlers, by the code they mint
          exchange,      \* the token-endpoint handlers
          spent          \* history: the requests an exchange has deleted

storage == <<authRequests, codes, tokens, refreshers>>
vars == <<clients, reloads, requests, storage, lock, callback, exchange, spent>>
-----------------------------------------------------------------------------
(* Records. authTime is the ordinal of the login that set it, 0 the zero     *)
(* time. picks (the subjects completed logins chose, in order) and createdAs *)
(* (the client's kind at /authorize) are history, read by properties only.   *)
TornTime == -1
AuthTimes == {TornTime} \cup Nat

(* Mutant: an id_token_hint logs its subject in.                             *)
NewRequest_hintLogsIn(c, challenge, hint) ==
  [client |-> c, codeChallenge |-> challenge, userID |-> hint, authTime |-> 0,
   done |-> hint # NoSubject, picks |-> <<>>, createdAs |-> clients[c]]

NewRequest(c, challenge, hint) ==
  [client |-> c, codeChallenge |-> challenge, userID |-> hint, authTime |-> 0,
   done |-> FALSE, picks |-> <<>>, createdAs |-> clients[c]]

Unborn == [client |-> NoClient, codeChallenge |-> "none", userID |-> NoSubject,
           authTime |-> 0, done |-> FALSE, picks |-> <<>>, createdAs |-> "absent"]

Unlocked == [req |-> NoRequest, subject |-> NoSubject]

NoToken == [client |-> NoClient, subject |-> NoSubject]
NoRefresh == [userID |-> NoSubject, authTime |-> 0]

(* proved: what the exchange presented and the server verified. late, began  *)
(* and disturbed are history: the code's request was already spent when the  *)
(* exchange began; the reloads there had been by then; a login ran on the    *)
(* request the exchange was holding.                                         *)
IdleExchange ==
  [pc |-> "idle", client |-> NoClient, kind |-> "absent", code |-> NoCode,
   req |-> NoRequest, proved |-> {}, authTime |-> 0, idSub |-> NoSubject,
   apps |-> {}, late |-> FALSE, began |-> 0, disturbed |-> FALSE]

Init ==
  /\ clients = SeedClients
  /\ reloads = 0
  /\ requests = [r \in Requests |-> Unborn]
  /\ authRequests = {}
  /\ codes = [k \in Codes |-> NoRequest]
  /\ tokens = [e \in Exchanges |-> NoToken]
  /\ refreshers = [e \in Exchanges |-> NoRefresh]
  /\ lock = Unlocked
  /\ callback = [k \in Codes |-> [pc |-> "idle", req |-> NoRequest]]
  /\ exchange = [e \in Exchanges |-> IdleExchange]
  /\ spent = {}
-----------------------------------------------------------------------------
(* The registry under the handlers.                                          *)

LockFree == lock = Unlocked

(* WatchClientsFile applies a file it has loaded.                            *)
Reload(file) ==
  /\ LockFree
  /\ reloads < MaxReloads
  /\ clients' = ReplaceFileClients(clients, file)
  /\ reloads' = reloads + 1
  /\ UNCHANGED <<requests, storage, lock, callback, exchange, spent>>
-----------------------------------------------------------------------------
(* /authorize and /login.                                                    *)

(* Mutant: a public client's challenge may be of any method.                 *)
RequirePKCES256_anyMethod(kind, challenge) == kind = "public" => challenge # "none"

RequirePKCES256(kind, challenge) == kind = "public" => challenge = "S256"

(* An unregistered client and a public client without S256 are refused; the  *)
(* request stored has a fresh id. prompt=none is refused before the lock.    *)
CreateAuthRequest(r, c, challenge, hint) ==
  /\ LockFree
  /\ requests[r] = Unborn
  /\ clients[c] # "absent"
  /\ RequirePKCES256(clients[c], challenge)
  /\ requests' = [requests EXCEPT ![r] = NewRequest(c, challenge, hint)]
  /\ authRequests' = authRequests \cup {r}
  /\ UNCHANGED <<clients, reloads, codes, tokens, refreshers, lock, callback, exchange, spent>>

(* /login picks identity s for a stored request, done or not: the login page *)
(* stays usable until the request is deleted.                                *)
BeginLogin(r, s) ==
  /\ LockFree
  /\ r \in authRequests
  /\ Len(requests[r].picks) < MaxLogins
  /\ lock' = [req |-> r, subject |-> s]
  /\ exchange' = [e \in Exchanges |->
       IF exchange[e].req = r THEN [exchange[e] EXCEPT !.disturbed = TRUE]
                              ELSE exchange[e]]
  /\ UNCHANGED <<clients, reloads, requests, storage, callback, spent>>

(* Mutants: auth_time is only ever set once; the lock is never released.     *)
EndLogin_keepsFirstAuthTime(r) ==
  /\ lock.req = r
  /\ requests' = [requests EXCEPT
       ![r].userID = lock.subject,
       ![r].authTime = IF requests[r].done THEN @ ELSE 1,
       ![r].done = TRUE,
       ![r].picks = Append(@, lock.subject)]
  /\ lock' = Unlocked
  /\ UNCHANGED <<clients, reloads, storage, callback, exchange, spent>>
EndLogin_staysLocked(r) ==
  /\ lock.req = r /\ lock.subject # NoSubject
  /\ requests' = [requests EXCEPT ![r].userID = lock.subject, ![r].done = TRUE]
  /\ lock' = [lock EXCEPT !.subject = NoSubject]
  /\ UNCHANGED <<clients, reloads, storage, callback, exchange, spent>>

EndLogin(r) ==
  /\ lock.req = r
  /\ requests' = [requests EXCEPT
       ![r].userID = lock.subject,
       ![r].authTime = Len(requests[r].picks) + 1,
       ![r].done = TRUE,
       ![r].picks = Append(@, lock.subject)]
  /\ lock' = Unlocked
  /\ UNCHANGED <<clients, reloads, storage, callback, exchange, spent>>

(* What a read of a request's fields may return when the reader does not     *)
(* hold the lock.                                                            *)
SubjectSeen(r) ==
  {requests[r].userID} \cup (IF lock.req = r THEN {lock.subject, Torn} ELSE {})
AuthTimeSeen(r) ==
  {requests[r].authTime} \cup
    (IF lock.req = r THEN {Len(requests[r].picks) + 1, TornTime} ELSE {})
(* Mutant: the callback does not look at Done.                               *)
DoneSeen_ignored(r) == {TRUE}

DoneSeen(r) == {requests[r].done} \cup (IF lock.req = r THEN {TRUE} ELSE {})
-----------------------------------------------------------------------------
(* The authorize callback, run by the OP; every visit mints a fresh code.    *)

StepCallback(k, pc) == callback' = [callback EXCEPT ![k].pc = pc]

CallbackLoad(k, r) ==
  /\ callback[k].pc = "idle"
  /\ LockFree
  /\ r \in authRequests
  /\ callback' = [callback EXCEPT ![k] = [pc |-> "done?", req |-> r]]
  /\ UNCHANGED <<clients, reloads, requests, storage, lock, exchange, spent>>

(* The OP refuses a request that is not Done, reading it without the lock.   *)
CallbackDone(k) ==
  /\ callback[k].pc = "done?"
  /\ \E done \in DoneSeen(callback[k].req) :
       StepCallback(k, IF done THEN "client" ELSE "failed")
  /\ UNCHANGED <<clients, reloads, requests, storage, lock, exchange, spent>>

CallbackClient(k) ==
  /\ callback[k].pc = "client"
  /\ LockFree
  /\ StepCallback(k, IF clients[requests[callback[k].req].client] = "absent"
                     THEN "failed" ELSE "save")
  /\ UNCHANGED <<clients, reloads, requests, storage, lock, exchange, spent>>

(* Unconditional: the request may have been deleted since CallbackLoad.      *)
SaveAuthCode(k) ==
  /\ callback[k].pc = "save"
  /\ LockFree
  /\ codes' = [codes EXCEPT ![k] = callback[k].req]
  /\ StepCallback(k, "redirected")
  /\ UNCHANGED <<clients, reloads, requests, authRequests, tokens, refreshers, lock, exchange, spent>>
-----------------------------------------------------------------------------
(* The code exchange, one handler e from the client lookup to the response.  *)

StepExchange(e, pc) == exchange' = [exchange EXCEPT ![e].pc = pc]

(* A client presents a code that a callback redirect carried to it.          *)
GetClientByClientID(e, c, k) ==
  /\ exchange[e].pc = "idle"
  /\ LockFree
  /\ callback[k].pc = "redirected"
  /\ exchange' = [exchange EXCEPT ![e] =
       [IdleExchange EXCEPT
          !.pc = CASE clients[c] = "absent" -> "failed"
                   [] clients[c] = "confidential" -> "secret"
                   [] OTHER -> "code",
          !.client = c, !.kind = clients[c], !.code = k,
          !.late = callback[k].req \in spent, !.began = reloads]]
  /\ UNCHANGED <<clients, reloads, requests, storage, lock, callback, spent>>

(* The registry is read again: by now the client may be gone, or public, and *)
(* a public client has no secret to match.                                   *)
AuthorizeClientIDSecret(e, rightSecret) ==
  /\ exchange[e].pc = "secret"
  /\ LockFree
  /\ IF clients[exchange[e].client] = "confidential" /\ rightSecret
     THEN exchange' = [exchange EXCEPT ![e].pc = "code", ![e].proved = {"secret"}]
     ELSE StepExchange(e, "failed")
  /\ UNCHANGED <<clients, reloads, requests, storage, lock, callback, spent>>

(* Mutant: the code is consumed when it is looked up.                        *)
AuthRequestByCode_consumes(e) ==
  /\ exchange[e].pc = "code"
  /\ LockFree
  /\ codes[exchange[e].code] # NoRequest
  /\ codes' = [codes EXCEPT ![exchange[e].code] = NoRequest]
  /\ exchange' = [exchange EXCEPT ![e].pc = "request", ![e].req = codes[exchange[e].code]]
  /\ UNCHANGED <<clients, reloads, requests, authRequests, tokens, refreshers, lock, callback, spent>>

(* AuthRequestByCode takes the lock twice: once for the code, once for the   *)
(* request it names.                                                         *)
AuthRequestByCode(e) ==
  /\ exchange[e].pc = "code"
  /\ LockFree
  /\ IF codes[exchange[e].code] = NoRequest
     THEN StepExchange(e, "failed")
     ELSE exchange' = [exchange EXCEPT ![e].pc = "request",
                                       ![e].req = codes[exchange[e].code]]
  /\ UNCHANGED <<clients, reloads, requests, storage, lock, callback, spent>>

AuthRequestByID(e) ==
  /\ exchange[e].pc = "request"
  /\ LockFree
  /\ StepExchange(e, IF exchange[e].req \in authRequests THEN "validate" ELSE "failed")
  /\ UNCHANGED <<clients, reloads, requests, storage, lock, callback, spent>>

(* Mutant: PKCE is checked only if a challenge was recorded, whoever asks.   *)
ValidateExchange_ifRecorded(e, rightVerifier) ==
  LET req == requests[exchange[e].req]
      challenged == req.codeChallenge # "none"
  IN /\ exchange[e].pc = "validate"
     /\ IF req.client = exchange[e].client /\ (challenged => rightVerifier)
        THEN exchange' = [exchange EXCEPT
               ![e].pc = IF exchange[e].req \in OfflineRequests THEN "info" ELSE "mint",
               ![e].proved = @ \cup (IF challenged THEN {"verifier"} ELSE {})]
        ELSE StepExchange(e, "failed")
     /\ UNCHANGED <<clients, reloads, requests, storage, lock, callback, spent>>

(* The OP compares the client and, where a challenge was recorded, the       *)
(* verifier, by the recorded method; without a challenge a public client is  *)
(* refused. The fields it reads never change after CreateAuthRequest.        *)
ValidateExchange(e, rightVerifier) ==
  LET req == requests[exchange[e].req]
      challenged == req.codeChallenge # "none"
      mustProve == challenged \/ exchange[e].kind = "public"
  IN /\ exchange[e].pc = "validate"
     /\ IF req.client = exchange[e].client /\ (mustProve => challenged /\ rightVerifier)
        THEN exchange' = [exchange EXCEPT
               ![e].pc = IF exchange[e].req \in OfflineRequests THEN "info" ELSE "mint",
               ![e].proved = @ \cup (IF challenged THEN {"verifier"} ELSE {})]
        ELSE StepExchange(e, "failed")
     /\ UNCHANGED <<clients, reloads, requests, storage, lock, callback, spent>>

CreateAccessToken(e) ==
  /\ exchange[e].pc = "mint"
  /\ LockFree
  /\ tokens' = [tokens EXCEPT ![e] = [client |-> requests[exchange[e].req].client,
                                      subject |-> requests[exchange[e].req].userID]]
  /\ StepExchange(e, "userinfo")
  /\ UNCHANGED <<clients, reloads, requests, authRequests, codes, refreshers, lock, callback, spent>>

(* CreateAccessAndRefreshTokens reads auth_time before it takes the lock ... *)
InfoFromRequest(e) ==
  /\ exchange[e].pc = "info"
  /\ \E t \in AuthTimeSeen(exchange[e].req) :
       exchange' = [exchange EXCEPT ![e].pc = "mint both", ![e].authTime = t]
  /\ UNCHANGED <<clients, reloads, requests, storage, lock, callback, spent>>

(* Mutant: the subject is read, as auth_time is, without the lock.           *)
CreateAccessAndRefreshTokens_unlocked(e) ==
  LET req == requests[exchange[e].req]
  IN /\ exchange[e].pc = "mint both"
     /\ \E s \in SubjectSeen(exchange[e].req) :
          /\ tokens' = [tokens EXCEPT ![e] = [client |-> req.client, subject |-> s]]
          /\ refreshers' = [refreshers EXCEPT ![e] =
               [userID |-> s, authTime |-> exchange[e].authTime]]
     /\ StepExchange(e, "userinfo")
     /\ UNCHANGED <<clients, reloads, requests, authRequests, codes, lock, callback, spent>>

(* ... and the subject after.                                                *)
CreateAccessAndRefreshTokens(e) ==
  LET req == requests[exchange[e].req]
  IN /\ exchange[e].pc = "mint both"
     /\ LockFree
     /\ tokens' = [tokens EXCEPT ![e] = [client |-> req.client, subject |-> req.userID]]
     /\ refreshers' = [refreshers EXCEPT ![e] =
          [userID |-> req.userID, authTime |-> exchange[e].authTime]]
     /\ StepExchange(e, "userinfo")
     /\ UNCHANGED <<clients, reloads, requests, authRequests, codes, lock, callback, spent>>

(* Mutant: the subject is not looked up among the identities.                *)
SetUserinfoFromRequest_anySubject(e) ==
  /\ exchange[e].pc = "userinfo"
  /\ \E s \in SubjectSeen(exchange[e].req) :
       exchange' = [exchange EXCEPT ![e].pc = "apps", ![e].idSub = s]
  /\ UNCHANGED <<clients, reloads, requests, storage, lock, callback, spent>>

(* The id_token is made after the access token, from a second read of the    *)
(* subject, without the lock. No identity bears a torn name.                 *)
SetUserinfoFromRequest(e) ==
  /\ exchange[e].pc = "userinfo"
  /\ \E s \in SubjectSeen(exchange[e].req) :
       IF s \in Subjects
       THEN exchange' = [exchange EXCEPT ![e].pc = "apps", ![e].idSub = s]
       ELSE StepExchange(e, "failed")
  /\ UNCHANGED <<clients, reloads, requests, storage, lock, callback, spent>>

(* Mutant: only the compiled-in clients are listed.                          *)
AllClientIDs_seedsOnly(e) ==
  /\ exchange[e].pc = "apps"
  /\ LockFree
  /\ exchange' = [exchange EXCEPT ![e].pc = "delete", ![e].apps = Seeds]
  /\ UNCHANGED <<clients, reloads, requests, storage, lock, callback, spent>>

(* The apps claim: the seeded apps every identity declares, and every        *)
(* client_id registered at this moment.                                      *)
AllClientIDs(e) ==
  /\ exchange[e].pc = "apps"
  /\ LockFree
  /\ exchange' = [exchange EXCEPT ![e].pc = "delete",
                                  ![e].apps = Seeds \cup Registered(clients)]
  /\ UNCHANGED <<clients, reloads, requests, storage, lock, callback, spent>>

(* Mutant: the codes go, the request stays.                                  *)
DeleteAuthRequest_keepsRequest(e) ==
  LET r == exchange[e].req
  IN /\ exchange[e].pc = "delete"
     /\ LockFree
     /\ codes' = [k \in Codes |-> IF codes[k] = r THEN NoRequest ELSE codes[k]]
     /\ spent' = spent \cup {r}
     /\ StepExchange(e, "answered")
     /\ UNCHANGED <<clients, reloads, requests, authRequests, tokens, refreshers, lock, callback>>

(* The request goes, with every code that names it; then the OP responds.    *)
DeleteAuthRequest(e) ==
  LET r == exchange[e].req
  IN /\ exchange[e].pc = "delete"
     /\ LockFree
     /\ authRequests' = authRequests \ {r}
     /\ codes' = [k \in Codes |-> IF codes[k] = r THEN NoRequest ELSE codes[k]]
     /\ spent' = spent \cup {r}
     /\ StepExchange(e, "answered")
     /\ UNCHANGED <<clients, reloads, requests, tokens, refreshers, lock, callback>>
-----------------------------------------------------------------------------
CallbackStep(k) ==
  CallbackDone(k) \/ CallbackClient(k) \/ SaveAuthCode(k)

ExchangeStep(e) ==
  \/ \E right \in BOOLEAN : AuthorizeClientIDSecret(e, right)
  \/ AuthRequestByCode(e)
  \/ AuthRequestByID(e)
  \/ \E right \in BOOLEAN : ValidateExchange(e, right)
  \/ CreateAccessToken(e)
  \/ InfoFromRequest(e)
  \/ CreateAccessAndRefreshTokens(e)
  \/ SetUserinfoFromRequest(e)
  \/ AllClientIDs(e)
  \/ DeleteAuthRequest(e)

Next ==
  \/ \E file \in Registries : Reload(file)
  \/ \E r \in Requests, c \in ClientIDs, challenge \in Presented, hint \in Hints :
       CreateAuthRequest(r, c, challenge, hint)
  \/ \E r \in Requests, s \in Subjects : BeginLogin(r, s)
  \/ \E r \in Requests : EndLogin(r)
  \/ \E k \in Codes, r \in Requests : CallbackLoad(k, r)
  \/ \E k \in Codes : CallbackStep(k)
  \/ \E e \in Exchanges, c \in ClientIDs, k \in Codes : GetClientByClientID(e, c, k)
  \/ \E e \in Exchanges : ExchangeStep(e)

Spec == Init /\ [][Next]_vars

(* A handler's goroutine keeps being scheduled, and sync.Mutex hands the     *)
(* lock to a waiter that has waited long enough, so a step that is enabled   *)
(* again and again is taken: strong fairness. Nobody has to log in, visit    *)
(* the callback, redeem a code or edit the clients file.                     *)
Fairness ==
  /\ \A r \in Requests : WF_vars(EndLogin(r))
  /\ \A k \in Codes : SF_vars(CallbackStep(k))
  /\ \A e \in Exchanges : SF_vars(ExchangeStep(e))

FairSpec == Spec /\ Fairness
-----------------------------------------------------------------------------
(* Types.                                                                    *)

RequestType ==
  [client : ClientIDs \cup {NoClient}, codeChallenge : Challenges,
   userID : Subjects \cup {NoSubject}, authTime : Nat, done : BOOLEAN,
   picks : Seq(Subjects), createdAs : Kinds]

ExchangePCs == {"idle", "secret", "code", "request", "validate", "info", "mint",
                "mint both", "userinfo", "apps", "delete", "answered", "failed"}

ExchangeType ==
  [pc : ExchangePCs, client : ClientIDs \cup {NoClient}, kind : Kinds,
   code : Codes \cup {NoCode}, req : Requests \cup {NoRequest},
   proved : SUBSET {"secret", "verifier"}, authTime : AuthTimes,
   idSub : Subjects \cup {NoSubject}, apps : SUBSET ClientIDs,
   late : BOOLEAN, began : Nat, disturbed : BOOLEAN]

CallbackType ==
  [pc : {"idle", "done?", "client", "save", "redirected", "failed"},
   req : Requests \cup {NoRequest}]

(* The steps at which an exchange has read which request its code names.     *)
Resolved == ExchangePCs \ {"idle", "secret", "code", "failed"}

(* Every variable holds a value of its type, and a handler that has started  *)
(* holds what it looked up. A torn subject reaches neither a request nor a   *)
(* token: only the unlocked reads can see one.                               *)
TypeOK ==
  /\ clients \in Registries
  /\ reloads \in 0..MaxReloads
  /\ requests \in [Requests -> RequestType]
  /\ authRequests \in SUBSET Requests
  /\ codes \in [Codes -> Requests \cup {NoRequest}]
  /\ tokens \in [Exchanges -> [client : ClientIDs \cup {NoClient},
                               subject : Subjects \cup {NoSubject}]]
  /\ refreshers \in [Exchanges -> [userID : Subjects \cup {NoSubject},
                                   authTime : AuthTimes]]
  /\ lock \in {Unlocked} \cup [req : Requests, subject : Subjects]
  /\ callback \in [Codes -> CallbackType]
  /\ exchange \in [Exchanges -> ExchangeType]
  /\ spent \in SUBSET Requests
  /\ \A k \in Codes : callback[k].pc # "idle" => callback[k].req \in Requests
  /\ \A e \in Exchanges :
       /\ exchange[e].pc # "idle" =>
            exchange[e].code \in Codes /\ exchange[e].client \in ClientIDs
       /\ exchange[e].pc \in Resolved => exchange[e].req \in Requests
-----------------------------------------------------------------------------
(* Safety.                                                                   *)

Minted(e) == tokens[e] # NoToken
Chosen(r) == {requests[r].picks[i] : i \in 1..Len(requests[r].picks)}

(* A code names a request whose login is complete, whatever the callback saw *)
(* of a login still being written (CallbackDone reads Done without the lock, *)
(* SaveAuthCode then waits for it).                                          *)
CodeAfterLogin ==
  \A k \in Codes : codes[k] # NoRequest =>
    /\ requests[codes[k]].done
    /\ requests[codes[k]].userID \in Chosen(codes[k])

(* Every token, and every id_token subject, is an identity somebody picked   *)
(* on the login page of that very request: never the id_token_hint, never a  *)
(* torn read, never another request's user (storage.go CreateAccessToken     *)
(* reads the subject under the lock, SetUserinfoFromRequest does not).       *)
SubjectWasPicked ==
  \A e \in Exchanges : LET r == exchange[e].req IN
    /\ Minted(e) => tokens[e].subject \in Chosen(r)
    /\ exchange[e].idSub # NoSubject =>
         \/ exchange[e].idSub \in Chosen(r)
         \/ lock.req = r /\ lock.subject = exchange[e].idSub

Promise == INSTANCE Authorization WITH
  Flows <- Requests, Handlers <- Exchanges, Subjects <- Subjects, NoFlow <- NoRequest,
  picked <- [r \in Requests |->
               Chosen(r) \cup (IF lock.req = r THEN {lock.subject} ELSE {})],
  closed <- spent,
  holds <- [e \in Exchanges |->
              IF exchange[e].pc = "idle" THEN NoRequest ELSE callback[exchange[e].code].req],
  late <- [e \in Exchanges |-> exchange[e].late],
  names <- [e \in Exchanges |-> {tokens[e].subject, exchange[e].idSub} \ {NoSubject}]

(* The code grant implements Authorization: however logins, callbacks and    *)
(* exchanges of several requests interleave, an exchange names only whom     *)
(* somebody picked on the login page of the request its code came from, and  *)
(* nobody once that request was redeemed (DeleteAuthRequest).                *)
ImplementsAuthorization == Promise!Spec

(* An exchange that began after another exchange of the same request was     *)
(* answered mints nothing, even with a code the callback saved after the     *)
(* request was deleted (DeleteAuthRequest drops the request, and SaveAuthCode *)
(* never checks that it is still there). Exchanges that overlap may both     *)
(* mint: the code is consumed last, not first.                               *)
NoLateRedemption == \A e \in Exchanges : exchange[e].late => ~Minted(e)

(* What one answer carries agrees with itself unless a login ran on the      *)
(* request while the exchange held it: access token and id_token name one    *)
(* subject, and the refresh token's auth_time is that of the login that      *)
(* picked its user (infoFromRequest, CreateAccessAndRefreshTokens and        *)
(* SetUserinfoFromRequest read the request at three different moments).      *)
AnswerAgrees ==
  \A e \in Exchanges : LET r == exchange[e].req IN
    exchange[e].pc = "answered" /\ ~exchange[e].disturbed =>
      /\ exchange[e].idSub = tokens[e].subject
      /\ r \in OfflineRequests =>
           /\ refreshers[e].userID = tokens[e].subject
           /\ refreshers[e].authTime \in 1..Len(requests[r].picks)
           /\ requests[r].picks[refreshers[e].authTime] = refreshers[e].userID

(* A token is minted for whoever proved something: a confidential client its *)
(* secret, a public client the verifier of a challenge, which was an S256    *)
(* one, unless a hot reload turned the client public after /authorize        *)
(* (requirePKCES256 looks at the client of the one moment, AuthMethod at the *)
(* client of the other).                                                     *)
SecretOrVerifier ==
  \A e \in Exchanges : LET req == requests[exchange[e].req] IN
    Minted(e) =>
      /\ exchange[e].kind = "confidential" => "secret" \in exchange[e].proved
      /\ exchange[e].kind = "public" =>
           /\ "verifier" \in exchange[e].proved
           /\ req.codeChallenge = "S256" \/ req.createdAs = "confidential"

(* An id_token lists its own audience among the apps it entitles to, even   *)
(* where the clients file names a seeded client or drops everything, unless  *)
(* a reload took a client of the file away while the exchange was running    *)
(* (the registry is read at its start and, by allClientIDs, near its end).   *)
AudienceEntitled ==
  \A e \in Exchanges :
    exchange[e].pc \in {"delete", "answered"} /\ exchange[e].client \notin exchange[e].apps =>
      exchange[e].client \notin Seeds /\ exchange[e].began < reloads

(* A code stops working only because an exchange of its own request was      *)
(* answered: a refused or half-failed exchange, another request's answer, a  *)
(* reload or a second login leave it redeemable (DeleteAuthRequest).         *)
CodeLostOnlyByAnswer ==
  [][\A k \in Codes : codes[k] # NoRequest /\ codes'[k] # codes[k] =>
       /\ codes'[k] = NoRequest
       /\ codes[k] \notin authRequests'
       /\ \E e \in Exchanges : exchange[e].req = codes[k] /\ exchange'[e].pc = "answered"]_vars

Busy(pc) == pc \notin {"idle", "redirected", "answered", "failed"}

(* Liveness: every callback and every exchange that started is finished, so  *)
(* no order of lock acquisitions leaves a handler waiting for good.          *)
HandlersFinish ==
  /\ \A k \in Codes : Busy(callback[k].pc) ~> ~Busy(callback[k].pc)
  /\ \A e \in Exchanges : Busy(exchange[e].pc) ~> ~Busy(exchange[e].pc)
-----------------------------------------------------------------------------
(* What the repository says and the code does not do.                        *)

(* A public client "MUST use PKCE S256 (enforced at /authorize by            *)
(* Storage.CreateAuthRequest, and at /oauth/token by the OP)" (clients.go:70). *)
(* The OP is handed whatever method CreateAuthRequest recorded, "plain" for  *)
(* a client that was confidential then.                                      *)
PublicClientsUseS256 ==
  \A e \in Exchanges : Minted(e) /\ exchange[e].kind = "public" =>
    requests[exchange[e].req].codeChallenge = "S256"
=============================================================================
