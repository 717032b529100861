--------------------------- MODULE AuthCodeAnswers ---------------------------
(* What one answer of the code exchange carries, for every set of requests,  *)
(* codes, exchanges, clients and identities: one subject and one login, a    *)
(* proof of who asked, and an audience that is entitled.                     *)
EXTENDS AuthCodeProofs

(* How a step of an exchange turns its record x into y, field by field.      *)
Later(pc) ==
  CASE pc = "code" -> {"secret"}       [] pc = "request" -> {"code"}
    [] pc = "validate" -> {"request"}  [] pc = "info" -> {"validate"}
    [] pc = "mint" -> {"validate"}     [] pc = "mint both" -> {"info"}
    [] pc = "userinfo" -> {"mint", "mint both"}
    [] pc = "apps" -> {"userinfo"}     [] pc = "delete" -> {"apps"}
    [] pc = "answered" -> {"delete"}
    [] OTHER -> ExchangePCs \ {"idle", "failed", "answered"}

Advances(x, y) ==
  /\ y.client = x.client /\ y.kind = x.kind /\ y.code = x.code
  /\ y.began = x.began /\ y.disturbed = x.disturbed
  /\ y.pc \notin {"idle", "secret"} /\ x.pc \in Later(y.pc)

Proves(x, y) ==
  /\ x.pc = "secret" /\ y.pc = "code" => "secret" \in y.proved
  /\ x.pc # "secret" => x.proved \subseteq y.proved
  /\ y.pc \in {"info", "mint"} /\ x.kind = "public" =>
       requests[x.req].codeChallenge # "none" /\ "verifier" \in y.proved

Reads(x, y) ==
  /\ x.pc # "code" => y.req = x.req
  /\ y.pc = "mint" => x.req \notin OfflineRequests
  /\ IF y.pc = "mint both" THEN y.authTime \in AuthTimeSeen(x.req) ELSE y.authTime = x.authTime
  /\ IF y.pc = "apps" THEN y.idSub \in SubjectSeen(x.req) ELSE y.idSub = x.idSub
  /\ y.apps = IF y.pc = "delete" THEN Seeds \cup Registered(clients) ELSE x.apps

StepRecord(x, y) == Advances(x, y) /\ Proves(x, y) /\ Reads(x, y)

(* The records a step may leave: one field, or two.                          *)
LEMMA FailRecord ==
  ASSUME NEW x \in ExchangeType, x.pc \notin {"idle", "failed", "answered"}
  PROVE  StepRecord(x, [x EXCEPT !.pc = "failed"])
  BY DEF ExchangeType, StepRecord, Advances, Proves, Reads, Later

(* A check that passes (DeleteAuthRequest answers; a lookup goes on).        *)
LEMMA MoveRecord ==
  ASSUME NEW x \in ExchangeType,
         NEW pc \in {"validate", "userinfo", "answered"}, x.pc \in Later(pc)
  PROVE  StepRecord(x, [x EXCEPT !.pc = pc])
  BY DEF ExchangeType, StepRecord, Advances, Proves, Reads, Later

(* AuthorizeClientIDSecret has compared the secret.                          *)
LEMMA SecretRecord ==
  ASSUME NEW x \in ExchangeType, x.pc = "secret"
  PROVE  StepRecord(x, [x EXCEPT !.pc = "code", !.proved = {"secret"}])
  BY DEF ExchangeType, StepRecord, Advances, Proves, Reads, Later

(* AuthRequestByCode has resolved the code to a request id.                  *)
LEMMA ResolveRecord ==
  ASSUME NEW x \in ExchangeType, x.pc = "code", NEW r
  PROVE  StepRecord(x, [x EXCEPT !.pc = "request", !.req = r])
  BY DEF ExchangeType, StepRecord, Advances, Proves, Reads, Later

(* ValidateExchange has seen the verifier a public client owes.              *)
LEMMA ValidRecord ==
  ASSUME NEW x \in ExchangeType, x.pc = "validate",
         NEW pc \in {"info", "mint"}, pc = "mint" => x.req \notin OfflineRequests,
         NEW shown,
         x.kind = "public" => requests[x.req].codeChallenge # "none" /\ "verifier" \in shown
  PROVE  StepRecord(x, [x EXCEPT !.pc = pc, !.proved = @ \cup shown])
  BY DEF ExchangeType, StepRecord, Advances, Proves, Reads, Later

(* InfoFromRequest reads the time of the login without the lock.             *)
LEMMA InfoRecord ==
  ASSUME NEW x \in ExchangeType, x.pc = "info", NEW t \in AuthTimeSeen(x.req)
  PROVE  StepRecord(x, [x EXCEPT !.pc = "mint both", !.authTime = t])
  BY DEF ExchangeType, StepRecord, Advances, Proves, Reads, Later

(* SetUserinfoFromRequest reads the subject without the lock.                *)
LEMMA UserinfoRecord ==
  ASSUME NEW x \in ExchangeType, x.pc = "userinfo", NEW s \in SubjectSeen(x.req)
  PROVE  StepRecord(x, [x EXCEPT !.pc = "apps", !.idSub = s])
  BY DEF ExchangeType, StepRecord, Advances, Proves, Reads, Later

(* AllClientIDs lists what is registered.                                    *)
LEMMA AppsRecord ==
  ASSUME NEW x \in ExchangeType, x.pc = "apps"
  PROVE  StepRecord(x, [x EXCEPT !.pc = "delete", !.apps = Seeds \cup Registered(clients)])
  BY DEF ExchangeType, StepRecord, Advances, Proves, Reads, Later

(* Every step of an exchange is one of these.                                *)
LEMMA StepEffect ==
  ASSUME TypeOK, NEW e \in Exchanges, ExchangeStep(e)
  PROVE  StepRecord(exchange[e], exchange'[e])
  <1> DEFINE x == exchange[e]
             y == exchange'[e]
  <1>x. x \in ExchangeType /\ e \in DOMAIN exchange
    BY DEF TypeOK
  <1>f. ASSUME StepExchange(e, "failed"), x.pc \notin {"idle", "failed", "answered"}
        PROVE  StepRecord(x, y)
    BY <1>x, <1>f, FailRecord DEF StepExchange
  <1>m. ASSUME NEW pc \in {"validate", "userinfo", "answered"}, x.pc \in Later(pc),
               StepExchange(e, pc)
        PROVE  StepRecord(x, y)
    BY <1>x, <1>m, MoveRecord DEF StepExchange
  <1>1. ASSUME NEW right \in BOOLEAN, AuthorizeClientIDSecret(e, right) PROVE StepRecord(x, y)
    <2>1. x.pc = "secret"
      BY <1>1 DEF AuthorizeClientIDSecret
    <2>2. \/ StepExchange(e, "failed")
          \/ exchange' = [exchange EXCEPT ![e].pc = "code", ![e].proved = {"secret"}]
      BY <1>1, Zenon DEF AuthorizeClientIDSecret
    <2> QED BY <1>x, <1>f, <2>1, <2>2, SecretRecord
  <1>2. CASE AuthRequestByCode(e)
    <2>1. x.pc = "code"
      BY <1>2 DEF AuthRequestByCode
    <2>2. \/ StepExchange(e, "failed")
          \/ exchange' = [exchange EXCEPT ![e].pc = "request", ![e].req = codes[x.code]]
      BY <1>2, Zenon DEF AuthRequestByCode
    <2> DEFINE r == codes[x.code]
    <2> HIDE DEF r
    <2>3. exchange' = [exchange EXCEPT ![e].pc = "request", ![e].req = r]
            => y = [x EXCEPT !.pc = "request", !.req = r]
      BY <1>x
    <2>4. y = [x EXCEPT !.pc = "request", !.req = r] => StepRecord(x, y)
      BY <1>x, <2>1, ResolveRecord
    <2> QED BY <1>f, <2>1, <2>2, <2>3, <2>4 DEF r
  <1>3. CASE AuthRequestByID(e)
    <2>1. x.pc = "request" /\ x.pc \in Later("validate")
      BY <1>3 DEF AuthRequestByID, Later
    <2>2. StepExchange(e, "validate") \/ StepExchange(e, "failed")
      BY <1>3, Zenon DEF AuthRequestByID
    <2> QED BY <1>f, <1>m, <2>1, <2>2
  <1>4. ASSUME NEW right \in BOOLEAN, ValidateExchange(e, right) PROVE StepRecord(x, y)
    <2> DEFINE challenged == requests[x.req].codeChallenge # "none"
               shown == IF challenged THEN {"verifier"} ELSE {}
               pc == IF x.req \in OfflineRequests THEN "info" ELSE "mint"
    <2>1. x.pc = "validate"
      BY <1>4 DEF ValidateExchange
    <2>2. \/ StepExchange(e, "failed")
          \/ /\ exchange' = [exchange EXCEPT ![e].pc = pc, ![e].proved = @ \cup shown]
             /\ x.kind = "public" => challenged
      BY <1>4, Zenon DEF ValidateExchange
    <2>3. /\ pc \in {"info", "mint"}
          /\ pc = "mint" => x.req \notin OfflineRequests
          /\ challenged => "verifier" \in shown
      OBVIOUS
    <2> HIDE DEF shown, pc
    <2>4. exchange' = [exchange EXCEPT ![e].pc = pc, ![e].proved = @ \cup shown]
            => y = [x EXCEPT !.pc = pc, !.proved = @ \cup shown]
      BY <1>x
    <2>5. ASSUME x.kind = "public" => challenged
          PROVE  StepRecord(x, [x EXCEPT !.pc = pc, !.proved = @ \cup shown])
      BY <1>x, <2>1, <2>3, <2>5, ValidRecord
    <2> QED BY <1>f, <2>1, <2>2, <2>4, <2>5
  <1>5. CASE CreateAccessToken(e)
    <2>1. x.pc \in Later("userinfo") /\ StepExchange(e, "userinfo")
      BY <1>5 DEF CreateAccessToken, Later
    <2> QED BY <1>m, <2>1
  <1>6. CASE InfoFromRequest(e)
    <2>1. PICK t \in AuthTimeSeen(x.req) :
            exchange' = [exchange EXCEPT ![e].pc = "mint both", ![e].authTime = t]
      BY <1>6, Zenon DEF InfoFromRequest
    <2>2. x.pc = "info"
      BY <1>6 DEF InfoFromRequest
    <2> QED BY <1>x, <2>1, <2>2, InfoRecord
  <1>7. CASE CreateAccessAndRefreshTokens(e)
    <2>1. x.pc \in Later("userinfo") /\ StepExchange(e, "userinfo")
      BY <1>7 DEF CreateAccessAndRefreshTokens, Later
    <2> QED BY <1>m, <2>1
  <1>8. CASE SetUserinfoFromRequest(e)
    <2>1. PICK s \in SubjectSeen(x.req) :
            IF s \in Subjects
            THEN exchange' = [exchange EXCEPT ![e].pc = "apps", ![e].idSub = s]
            ELSE StepExchange(e, "failed")
      BY <1>8, Zenon DEF SetUserinfoFromRequest
    <2>2. x.pc = "userinfo"
      BY <1>8 DEF SetUserinfoFromRequest
    <2>3. exchange' = [exchange EXCEPT ![e].pc = "apps", ![e].idSub = s]
            => y = [x EXCEPT !.pc = "apps", !.idSub = s]
      BY <1>x
    <2> QED BY <1>x, <1>f, <2>1, <2>2, <2>3, UserinfoRecord
  <1>9. CASE AllClientIDs(e)
    <2>1. /\ x.pc = "apps"
          /\ exchange' = [exchange EXCEPT ![e].pc = "delete",
                                          ![e].apps = Seeds \cup Registered(clients)]
      BY <1>9 DEF AllClientIDs
    <2> QED BY <1>x, <2>1, AppsRecord
  <1>10. CASE DeleteAuthRequest(e)
    <2>1. x.pc \in Later("answered") /\ StepExchange(e, "answered")
      BY <1>10 DEF DeleteAuthRequest, Later
    <2> QED BY <1>m, <2>1
  <1> QED
    BY <1>1, <1>2, <1>3, <1>4, <1>5, <1>6, <1>7, <1>8, <1>9, <1>10 DEF ExchangeStep

(* What the steps of an exchange leave alone.                                *)
LEMMA StepFrame ==
  ASSUME TypeOK, NEW e \in Exchanges, ExchangeStep(e)
  PROVE  UNCHANGED <<clients, reloads, requests, lock>>
  BY DEF ExchangeStep, AuthorizeClientIDSecret, AuthRequestByCode, AuthRequestByID,
         ValidateExchange, CreateAccessToken, InfoFromRequest,
         CreateAccessAndRefreshTokens, SetUserinfoFromRequest, AllClientIDs,
         DeleteAuthRequest

(* An exchange begins with the kind its client has at that moment, and is    *)
(* refused where the client is not registered (GetClientByClientID).         *)
LEMMA BeginRecord ==
  ASSUME TypeOK, NEW e \in Exchanges, NEW c \in ClientIDs, NEW k \in Codes,
         GetClientByClientID(e, c, k)
  PROVE  /\ exchange[e].pc = "idle"
         /\ exchange'[e].pc \in {"failed", "secret", "code"}
         /\ exchange'[e].pc = "secret" => clients[c] = "confidential"
         /\ exchange'[e].pc = "code" => clients[c] = "public"
         /\ exchange'[e].client = c /\ exchange'[e].kind = clients[c]
         /\ exchange'[e].began = reloads
         /\ \A f \in Exchanges \ {e} : exchange'[f] = exchange[f]
         /\ UNCHANGED <<clients, reloads, requests, tokens, refreshers, lock>>
  <1>1. clients[c] \in {"confidential", "public", "absent"}
    BY DEF TypeOK, Registries, Kinds, RegisteredKinds
  <1>2. /\ exchange[e].pc = "idle"
        /\ UNCHANGED <<clients, reloads, requests, tokens, refreshers, lock>>
    BY DEF GetClientByClientID, storage
  <1> DEFINE pc == CASE clients[c] = "absent" -> "failed"
                     [] clients[c] = "confidential" -> "secret"
                     [] OTHER -> "code"
  <1>3. /\ pc \in {"failed", "secret", "code"}
        /\ pc = "secret" => clients[c] = "confidential"
        /\ pc = "code" => clients[c] = "public"
    BY <1>1
  <1> DEFINE rec == [IdleExchange EXCEPT
                       !.pc = pc, !.client = c, !.kind = clients[c], !.code = k,
                       !.late = callback[k].req \in spent, !.began = reloads]
  <1>4. exchange' = [exchange EXCEPT ![e] = rec]
    BY Zenon DEF GetClientByClientID
  <1> HIDE DEF pc
  <1>5. rec.pc = pc /\ rec.client = c /\ rec.kind = clients[c] /\ rec.began = reloads
    BY DEF IdleExchange
  <1> HIDE DEF rec
  <1>6. exchange'[e] = rec /\ \A f \in Exchanges \ {e} : exchange'[f] = exchange[f]
    BY <1>4 DEF TypeOK
  <1> QED BY <1>2, <1>3, <1>5, <1>6

(* What a login leaves of an exchange that holds its request.                *)
LEMMA DisturbedKeeps ==
  ASSUME NEW x \in ExchangeType
  PROVE  /\ Disturbed(x).pc = x.pc /\ Disturbed(x).client = x.client
         /\ Disturbed(x).kind = x.kind /\ Disturbed(x).req = x.req
         /\ Disturbed(x).proved = x.proved /\ Disturbed(x).apps = x.apps
         /\ Disturbed(x).began = x.began /\ Disturbed(x).disturbed
  BY DEF Disturbed, ExchangeType
-----------------------------------------------------------------------------
(* The audience. An exchange whose client has gone from the registry since   *)
(* knows of a reload since; a seeded client never goes.                      *)
Entitled(x) ==
  x.pc \notin {"idle", "failed"} =>
    /\ x.began <= reloads
    /\ x.began = reloads => clients[x.client] # "absent"
    /\ x.pc \in {"delete", "answered"} /\ x.client \notin x.apps =>
         x.client \notin Seeds /\ x.began < reloads

EntitledInv ==
  /\ \A c \in Seeds : clients[c] # "absent"
  /\ \A e \in Exchanges : Entitled(exchange[e])

(* At startup the seeded clients are registered and nothing is exchanged.    *)
LEMMA EntitledInit == Init => EntitledInv
  <1> SUFFICES ASSUME Init PROVE EntitledInv
    OBVIOUS
  <1>1. \A c \in Seeds : clients[c] # "absent"
    BY SeedsAssumption DEF Init, SeedClients
  <1>2. \A e \in Exchanges : exchange[e].pc = "idle"
    BY DEF Init, IdleExchange
  <1> QED BY <1>1, <1>2 DEF EntitledInv, Entitled

(* No reload takes a seeded client away (ReplaceFileClients), and every other *)
(* absence of a client from the apps claim has a reload behind it.           *)
LEMMA EntitledNext == TypeOK /\ EntitledInv /\ [Next]_vars => EntitledInv'
  <1> SUFFICES ASSUME TypeOK, EntitledInv, [Next]_vars PROVE EntitledInv'
    OBVIOUS
  <1>n. reloads \in Nat /\ \A e \in Exchanges : exchange[e].began \in Nat
    BY AuthCodeAssumption DEF TypeOK, ExchangeType
  <1>1. CASE UNCHANGED vars
    BY <1>1 DEF vars, EntitledInv, Entitled
  <1>2. ASSUME NEW f \in Registries, Reload(f) PROVE EntitledInv'
    <2>1. reloads' = reloads + 1 /\ exchange' = exchange
          /\ clients' = ReplaceFileClients(clients, f)
      BY <1>2 DEF Reload
    <2>2. \A c \in Seeds : clients'[c] # "absent"
      BY <2>1, SeedsAssumption DEF ReplaceFileClients, EntitledInv
    <2>3. ASSUME NEW e \in Exchanges PROVE Entitled(exchange[e])'
      BY <1>n, <2>1 DEF EntitledInv, Entitled
    <2> QED BY <2>2, <2>3 DEF EntitledInv
  <1>3. CASE OtherStep /\ UNCHANGED <<clients, reloads>>
    <2>1. ASSUME NEW e \in Exchanges PROVE Entitled(exchange[e])'
      <3>1. /\ exchange'[e].pc = exchange[e].pc /\ exchange'[e].client = exchange[e].client
            /\ exchange'[e].began = exchange[e].began /\ exchange'[e].apps = exchange[e].apps
        BY <1>3, OtherEffect, DisturbedKeeps DEF TypeOK
      <3> QED BY <1>3, <3>1 DEF EntitledInv, Entitled
    <2> QED BY <1>3, <2>1 DEF EntitledInv
  <1>4. ASSUME NEW e \in Exchanges, NEW c \in ClientIDs, NEW k \in Codes,
               GetClientByClientID(e, c, k)
        PROVE  EntitledInv'
    BY <1>4, <1>n, BeginRecord DEF EntitledInv, Entitled
  <1>5. ASSUME NEW e \in Exchanges, ExchangeStep(e) PROVE EntitledInv'
    <2> DEFINE x == exchange[e]
               y == exchange'[e]
    <2>1. UNCHANGED <<clients, reloads>>
      BY <1>5, StepFrame
    <2>2. \A f \in Exchanges \ {e} : exchange'[f] = exchange[f]
      BY <1>5, ExchangeEffect DEF OwnStep
    <2>3. Advances(x, y) /\ Reads(x, y)
      BY <1>5, StepEffect DEF StepRecord
    <2>4. y.pc # "failed" => x.client \in ClientIDs /\ x.pc \notin {"idle", "failed"}
      BY <2>3 DEF Advances, Later, TypeOK
    <2>5. y.pc \in {"delete", "answered"} => y.pc = "delete" \/ (x.pc = "delete" /\ y.apps = x.apps)
      BY <2>3 DEF Advances, Reads, Later
    <2>6. y.pc = "delete" => y.apps = Seeds \cup Registered(clients)
      BY <2>3 DEF Reads
    <2>7. Entitled(x)'
      BY <1>n, <2>1, <2>3, <2>4, <2>5, <2>6 DEF EntitledInv, Entitled, Advances, Registered
    <2> QED BY <2>1, <2>2, <2>7 DEF EntitledInv, Entitled
  <1>6. [Next]_vars =>
          \/ UNCHANGED vars
          \/ \E f \in Registries : Reload(f)
          \/ OtherStep /\ UNCHANGED <<clients, reloads>>
          \/ \E e \in Exchanges, c \in ClientIDs, k \in Codes : GetClientByClientID(e, c, k)
          \/ \E e \in Exchanges : ExchangeStep(e)
    BY DEF Next, OtherStep, CreateAuthRequest, BeginLogin, EndLogin, CallbackLoad,
           CallbackStep, CallbackDone, CallbackClient, SaveAuthCode
  <1> QED BY <1>1, <1>2, <1>3, <1>4, <1>5, <1>6

(* An id_token lists its own audience among its apps, unless a hot reload    *)
(* took a client of the file away while the exchange ran (allClientIDs).     *)
THEOREM AudiencesAreEntitled == Spec => []AudienceEntitled
  <1>1. EntitledInv => AudienceEntitled
    BY DEF EntitledInv, Entitled, AudienceEntitled
  <1> QED BY <1>1, EntitledInit, EntitledNext, TypeCorrect, PTL DEF Spec
-----------------------------------------------------------------------------
(* The proof of who asked. A public client's request carries an S256         *)
(* challenge (requirePKCES256), and its exchange showed the verifier; a      *)
(* confidential client's exchange showed its secret.                         *)
Challenged(r) ==
  /\ requests[r].createdAs = "public" => requests[r].codeChallenge = "S256"
  /\ requests[r].createdAs \in Kinds
  /\ requests[r].createdAs = "absent" => requests[r].codeChallenge = "none"
  /\ r \in authRequests \/ lock.req = r \/ requests[r].done =>
       requests[r].createdAs # "absent"

Owed(x) ==
  /\ x.kind = "confidential" => "secret" \in x.proved
  /\ x.kind = "public" =>
       /\ "verifier" \in x.proved
       /\ \/ requests[x.req].codeChallenge = "S256"
          \/ requests[x.req].createdAs = "confidential"

Shown(x, minted) ==
  /\ x.pc = "secret" => x.kind = "confidential"
  /\ x.pc \notin {"idle", "secret", "failed"} =>
       x.kind = "public" \/ (x.kind = "confidential" /\ "secret" \in x.proved)
  /\ x.pc \in {"info", "mint", "mint both"} \/ minted => Owed(x)

ShownInv ==
  /\ \A r \in Requests : Challenged(r)
  /\ \A e \in Exchanges : Shown(exchange[e], Minted(e))

(* At startup no request is stored and nothing is exchanged.                 *)
LEMMA ShownInit == Init => ShownInv
  <1> SUFFICES ASSUME Init PROVE ShownInv
    OBVIOUS
  <1>1. \A r \in Requests : Challenged(r)
    <2>1. \A r \in Requests : requests[r] = Unborn /\ r \notin authRequests /\ lock.req # r
      BY AuthCodeAssumption DEF Init, Unlocked
    <2> QED BY <2>1 DEF Challenged, Unborn, Kinds
  <1>2. \A e \in Exchanges : exchange[e].pc = "idle" /\ ~Minted(e)
    BY DEF Init, IdleExchange, Minted
  <1> QED BY <1>1, <1>2 DEF ShownInv, Shown

(* What a request was created with stays with it: only /authorize writes it, *)
(* once, for a client that is registered and passes requirePKCES256.         *)
LEMMA ChallengedNext ==
  ASSUME TypeOK, \A r \in Requests : Challenged(r), [Next]_vars
  PROVE  /\ \A r \in Requests : Challenged(r)'
         /\ \A r \in Requests : requests[r].createdAs # "absent" =>
              /\ requests'[r].createdAs = requests[r].createdAs
              /\ requests'[r].codeChallenge = requests[r].codeChallenge
  <1> DEFINE Goal == /\ \A r \in Requests : Challenged(r)'
                     /\ \A r \in Requests : requests[r].createdAs # "absent" =>
                          /\ requests'[r].createdAs = requests[r].createdAs
                          /\ requests'[r].codeChallenge = requests[r].codeChallenge
  <1>1. ASSUME NEW r \in Requests, NEW c \in ClientIDs, NEW challenge \in Presented,
               NEW hint \in Hints, CreateAuthRequest(r, c, challenge, hint)
        PROVE  Goal
    <2> DEFINE rec == NewRequest(c, challenge, hint)
    <2>1. /\ requests[r] = Unborn /\ requests' = [requests EXCEPT ![r] = rec]
          /\ clients[c] # "absent" /\ RequirePKCES256(clients[c], challenge)
          /\ authRequests' = authRequests \cup {r} /\ lock' = lock
      BY <1>1 DEF CreateAuthRequest
    <2>2. /\ rec.createdAs = clients[c] /\ rec.codeChallenge = challenge /\ ~rec.done
          /\ clients[c] \in Kinds
      BY DEF NewRequest, TypeOK, Registries
    <2> HIDE DEF rec
    <2>3. requests'[r] = rec /\ \A q \in Requests \ {r} : requests'[q] = requests[q]
      BY <2>1 DEF TypeOK
    <2>4. Challenged(r)'
      BY <2>1, <2>2, <2>3 DEF Challenged, RequirePKCES256
    <2>5. \A q \in Requests \ {r} : Challenged(q)'
      BY <2>1, <2>3 DEF Challenged
    <2>6. requests[r].createdAs = "absent"
      BY <2>1 DEF Unborn
    <2> QED BY <2>3, <2>4, <2>5, <2>6
  <1>2. ASSUME NEW r \in Requests, NEW s \in Subjects, BeginLogin(r, s) PROVE Goal
    <2>1. /\ requests' = requests /\ authRequests' = authRequests
          /\ r \in authRequests /\ lock' = [req |-> r, subject |-> s]
      BY <1>2 DEF BeginLogin, storage
    <2> QED BY <2>1 DEF Challenged
  <1>3. ASSUME NEW r \in Requests, EndLogin(r) PROVE Goal
    <2> DEFINE rec == [requests[r] EXCEPT
                         !.userID = lock.subject,
                         !.authTime = Len(requests[r].picks) + 1,
                         !.done = TRUE,
                         !.picks = Append(@, lock.subject)]
    <2>1. /\ requests' = [requests EXCEPT ![r] = rec]
          /\ lock.req = r /\ lock'.req = NoRequest /\ authRequests' = authRequests
      BY <1>3 DEF EndLogin, Unlocked, storage
    <2>2. requests[r] \in RequestType
      BY DEF TypeOK
    <2>3. rec.createdAs = requests[r].createdAs /\ rec.codeChallenge = requests[r].codeChallenge
      BY <2>2 DEF RequestType
    <2> HIDE DEF rec
    <2>4. requests'[r] = rec /\ \A q \in Requests \ {r} : requests'[q] = requests[q]
      BY <2>1 DEF TypeOK
    <2> QED BY <2>1, <2>3, <2>4, AuthCodeAssumption DEF Challenged
  <1>4. ASSUME UNCHANGED <<requests, lock>>, authRequests' \subseteq authRequests PROVE Goal
    BY <1>4 DEF Challenged
  <1>5. CASE UNCHANGED vars
    BY <1>4, <1>5 DEF vars, storage
  <1>6. ASSUME NEW f \in Registries, Reload(f) PROVE Goal
    BY <1>4, <1>6 DEF Reload, storage
  <1>7. ASSUME NEW k \in Codes, CallbackStep(k) \/ \E r \in Requests : CallbackLoad(k, r)
        PROVE  Goal
    BY <1>4, <1>7
    DEF CallbackLoad, CallbackStep, CallbackDone, CallbackClient, SaveAuthCode, storage
  <1>8. ASSUME NEW e \in Exchanges, NEW c \in ClientIDs, NEW k \in Codes,
               GetClientByClientID(e, c, k)
        PROVE  Goal
    BY <1>4, <1>8 DEF GetClientByClientID, storage
  <1>9. ASSUME NEW e \in Exchanges, ExchangeStep(e) PROVE Goal
    <2>1. authRequests' \subseteq authRequests
      BY <1>9
      DEF ExchangeStep, AuthorizeClientIDSecret, AuthRequestByCode, AuthRequestByID,
          ValidateExchange, CreateAccessToken, InfoFromRequest,
          CreateAccessAndRefreshTokens, SetUserinfoFromRequest, AllClientIDs,
          DeleteAuthRequest, storage
    <2> QED BY <1>4, <1>9, <2>1, StepFrame
  <1> QED BY <1>1, <1>2, <1>3, <1>5, <1>6, <1>7, <1>8, <1>9 DEF Next

(* The step of an exchange that shows a proof is the one that compares it:   *)
(* AuthorizeClientIDSecret the secret, ValidateExchange the verifier.        *)
LEMMA ShownStep ==
  ASSUME IInv, ShownInv, NEW e \in Exchanges, ExchangeStep(e)
  PROVE  Shown(exchange[e], Minted(e))'
  <1> DEFINE x == exchange[e]
             y == exchange'[e]
  <1>t. TypeOK
    BY DEF IInv
  <1>1. Advances(x, y) /\ Proves(x, y) /\ Reads(x, y)
    BY <1>t, StepEffect DEF StepRecord
  <1>2. requests' = requests
    BY <1>t, StepFrame
  <1>3. Minted(e)' => x.pc \in {"mint", "mint both"} \/ (Minted(e) /\ x.pc \notin {"secret", "code"})
    <2>1. x.pc \notin {"mint", "mint both"} => tokens'[e] = tokens[e]
      BY <1>t, ExchangeEffect DEF OwnStep
    <2>2. x.pc \in {"secret", "code"} => ~Minted(e)
      BY DEF IInv, ExchangeInv
    <2> QED BY <2>1, <2>2 DEF Minted
  <1>4. x.proved \subseteq y.proved \/ x.pc = "secret"
    BY <1>1 DEF Proves
  <1>5. y.pc \notin {"idle", "secret", "failed"} =>
          y.kind = "public" \/ (y.kind = "confidential" /\ "secret" \in y.proved)
    <2>1. y.pc \in ExchangePCs
      BY <1>t, TypeNext DEF Next, TypeOK, ExchangeType
    <2>2. y.pc \notin {"idle", "secret", "failed"} =>
            x.pc \notin {"idle", "failed"} /\ (x.pc = "secret" => y.pc = "code")
      BY <1>1, <2>1 DEF Advances, Later, ExchangePCs
    <2>3. x.pc = "secret" /\ y.pc = "code" => "secret" \in y.proved
      BY <1>1 DEF Proves
    <2>4. y.kind = x.kind
      BY <1>1 DEF Advances
    <2> QED BY <1>4, <2>2, <2>3, <2>4 DEF ShownInv, Shown
  <1>6. ASSUME y.pc \in {"info", "mint"}
        PROVE  Owed(y)
    <2>1. x.pc = "validate" /\ x.pc \in Resolved
      BY <1>1, <1>6 DEF Advances, Later, Resolved, ExchangePCs
    <2>2. y.req = x.req /\ y.kind = x.kind /\ (y.kind = "public" => "verifier" \in y.proved)
      BY <1>1, <1>6, <2>1 DEF Reads, Proves, Advances
    <2>3. x.req \in Requests /\ requests[x.req].done
      BY <2>1, HeldRequest
    <2>4. requests[x.req].codeChallenge = "S256" \/ requests[x.req].createdAs = "confidential"
      BY <2>3 DEF ShownInv, Challenged, Kinds, RegisteredKinds
    <2> QED BY <1>5, <1>6, <2>2, <2>4 DEF Owed
  <1>7. ASSUME x.pc \in {"info", "mint", "mint both"} \/ (Minted(e) /\ x.pc \notin {"secret", "code"})
        PROVE  Owed(y)
    <2>1. x.pc \notin {"secret", "code"}
      BY <1>7
    <2>2. y.req = x.req /\ y.kind = x.kind
      BY <1>1, <2>1 DEF Reads, Advances
    <2> QED BY <1>4, <1>7, <2>1, <2>2 DEF ShownInv, Shown, Owed
  <1>8. y.pc = "mint both" => x.pc = "info"
    BY <1>1 DEF Advances, Later
  <1>9. y.pc # "secret"
    BY <1>1 DEF Advances
  <1>10. y.pc \in {"info", "mint", "mint both"} \/ Minted(e)' => Owed(y)
    BY <1>3, <1>6, <1>7, <1>8
  <1> QED BY <1>2, <1>5, <1>9, <1>10 DEF Shown, Owed

(* Between its own steps an exchange keeps what it showed, and the request    *)
(* what it was created with.                                                 *)
LEMMA ShownNext == IInv /\ ShownInv /\ [Next]_vars => ShownInv'
  <1> SUFFICES ASSUME IInv, ShownInv, [Next]_vars PROVE ShownInv'
    OBVIOUS
  <1>t. TypeOK
    BY DEF IInv
  <1>1. /\ \A r \in Requests : Challenged(r)'
        /\ \A r \in Requests : requests[r].createdAs # "absent" =>
             /\ requests'[r].createdAs = requests[r].createdAs
             /\ requests'[r].codeChallenge = requests[r].codeChallenge
    BY <1>t, ChallengedNext DEF ShownInv
  <1>2. ASSUME NEW e \in Exchanges,
               exchange[e].req \in Requests,
               Owed(exchange[e]), exchange[e].kind = "public"
        PROVE  LET r == exchange[e].req IN
                 /\ requests'[r].createdAs = requests[r].createdAs
                 /\ requests'[r].codeChallenge = requests[r].codeChallenge
    BY <1>1, <1>2 DEF ShownInv, Challenged, Owed
  <1>3. ASSUME NEW e \in Exchanges,
               exchange'[e] \in {exchange[e], Disturbed(exchange[e])}, tokens'[e] = tokens[e]
        PROVE  Shown(exchange[e], Minted(e))'
    <2>1. /\ exchange'[e].pc = exchange[e].pc /\ exchange'[e].kind = exchange[e].kind
          /\ exchange'[e].proved = exchange[e].proved /\ exchange'[e].req = exchange[e].req
      BY <1>3, <1>t, DisturbedKeeps DEF TypeOK
    <2>2. Minted(e)' = Minted(e)
      BY <1>3 DEF Minted
    <2>3. exchange[e].pc \in {"info", "mint", "mint both"} \/ Minted(e) =>
            exchange[e].req \in Requests
      BY DEF IInv, ExchangeInv, TypeOK, Resolved, ExchangePCs
    <2> QED BY <1>2, <2>1, <2>2, <2>3 DEF ShownInv, Shown, Owed
  <1>4. CASE UNCHANGED vars
    BY <1>1, <1>3, <1>4 DEF vars, storage, ShownInv
  <1>5. CASE OtherStep
    BY <1>1, <1>3, <1>5, <1>t, OtherEffect DEF ShownInv
  <1>6. ASSUME NEW e \in Exchanges, NEW c \in ClientIDs, NEW k \in Codes,
               GetClientByClientID(e, c, k)
        PROVE  ShownInv'
    <2>1. Shown(exchange[e], Minted(e))'
      <3>1. ~Minted(e)'
        BY <1>6, <1>t, BeginRecord DEF IInv, ExchangeInv, Minted
      <3> QED BY <1>6, <1>t, <3>1, BeginRecord DEF Shown
    <2> QED BY <1>1, <1>3, <1>6, <1>t, <2>1, BeginRecord DEF ShownInv
  <1>7. ASSUME NEW e \in Exchanges, ExchangeStep(e) PROVE ShownInv'
    <2>1. \A f \in Exchanges \ {e} : exchange'[f] = exchange[f] /\ tokens'[f] = tokens[f]
      BY <1>7, <1>t, ExchangeEffect DEF OwnStep
    <2> QED BY <1>1, <1>3, <1>7, <2>1, ShownStep DEF ShownInv
  <1> QED BY <1>4, <1>5, <1>6, <1>7 DEF Next, OtherStep

(* A token is minted for a confidential client that showed its secret, or a  *)
(* public one that showed the verifier of an S256 challenge, or of another   *)
(* where a hot reload turned the client public since /authorize.             *)
THEOREM TokensAreProven == Spec => []SecretOrVerifier
  <1>1. ShownInv => SecretOrVerifier
    BY DEF ShownInv, Shown, Owed, SecretOrVerifier
  <1> QED BY <1>1, ShownInit, ShownNext, InductiveInvariant, PTL DEF Spec
-----------------------------------------------------------------------------
(* The three reads of one answer. A request holds its last login; while no   *)
(* login runs on it, the subject and the auth_time an exchange has read are  *)
(* still those it holds.                                                     *)
LastLogin(r) ==
  requests[r].done =>
    /\ Len(requests[r].picks) > 0
    /\ requests[r].authTime = Len(requests[r].picks)
    /\ requests[r].userID = requests[r].picks[Len(requests[r].picks)]

Minting == {"userinfo", "apps", "delete", "answered"}

Agrees(x, token, refresh) ==
  LET req == requests[x.req] IN
  ~x.disturbed /\ x.pc \in Resolved =>
    /\ lock.req # x.req
    /\ x.pc = "mint" => x.req \notin OfflineRequests
    /\ x.pc = "mint both" => x.authTime = req.authTime
    /\ x.pc \in Minting => token.subject = req.userID
    /\ x.pc \in Minting /\ x.req \in OfflineRequests =>
         refresh.userID = req.userID /\ refresh.authTime = req.authTime
    /\ x.pc \in Minting \ {"userinfo"} => x.idSub = req.userID

AgreesInv ==
  /\ \A r \in Requests : LastLogin(r)
  /\ \A e \in Exchanges : Agrees(exchange[e], tokens[e], refreshers[e])

(* At startup no login was completed and nothing is exchanged.               *)
LEMMA AgreesInit == Init => AgreesInv
  <1> SUFFICES ASSUME Init PROVE AgreesInv
    OBVIOUS
  <1>1. \A r \in Requests : ~requests[r].done
    BY DEF Init, Unborn
  <1>2. \A e \in Exchanges : exchange[e].pc \notin Resolved
    BY DEF Init, IdleExchange, Resolved
  <1> QED BY <1>1, <1>2 DEF AgreesInv, LastLogin, Agrees

(* A completed login is the last one (CompleteAuthRequest sets user and      *)
(* auth_time in one critical section); no other request changes.             *)
LEMMA LastLoginEnds ==
  ASSUME TypeOK, NEW r \in Requests, EndLogin(r)
  PROVE  /\ LastLogin(r)'
         /\ \A q \in Requests \ {r} : requests'[q] = requests[q]
  <1> DEFINE old == requests[r].picks
             new == Append(old, lock.subject)
             rec == [requests[r] EXCEPT
                       !.userID = lock.subject,
                       !.authTime = Len(old) + 1,
                       !.done = TRUE,
                       !.picks = new]
  <1>1. requests' = [requests EXCEPT ![r] = rec]
    BY DEF EndLogin
  <1>2. requests[r] \in RequestType /\ old \in Seq(Subjects) /\ lock.subject \in Subjects
    BY EndLoginPicks DEF TypeOK, RequestType
  <1>3. Len(new) = Len(old) + 1 /\ new[Len(old) + 1] = lock.subject /\ Len(old) \in Nat
    BY <1>2
  <1> HIDE DEF old, new
  <1>4. rec.userID = lock.subject /\ rec.authTime = Len(old) + 1 /\ rec.picks = new
    BY <1>2 DEF RequestType
  <1> HIDE DEF rec
  <1>5. requests'[r] = rec /\ \A q \in Requests \ {r} : requests'[q] = requests[q]
    BY <1>1 DEF TypeOK
  <1> QED BY <1>3, <1>4, <1>5 DEF LastLogin

(* What the storage calls of an exchange write: the subject the request has  *)
(* under the lock, and the auth_time that was read before.                   *)
LEMMA WriteEffect ==
  ASSUME TypeOK, NEW e \in Exchanges, ExchangeStep(e)
  PROVE  LET req == requests[exchange[e].req]
         IN /\ exchange[e].pc = "mint" => tokens'[e].subject = req.userID
            /\ exchange[e].pc = "mint both" =>
                 /\ tokens'[e].subject = req.userID
                 /\ refreshers'[e].userID = req.userID
                 /\ refreshers'[e].authTime = exchange[e].authTime
            /\ exchange[e].pc \notin {"mint", "mint both"} =>
                 tokens'[e] = tokens[e] /\ refreshers'[e] = refreshers[e]
            /\ \A f \in Exchanges \ {e} : refreshers'[f] = refreshers[f]
            /\ exchange'[e].pc = "request" => LockFree
  <1> DEFINE req == requests[exchange[e].req]
             Goal == /\ exchange[e].pc = "mint" => tokens'[e].subject = req.userID
                     /\ exchange[e].pc = "mint both" =>
                          /\ tokens'[e].subject = req.userID
                          /\ refreshers'[e].userID = req.userID
                          /\ refreshers'[e].authTime = exchange[e].authTime
                     /\ exchange[e].pc \notin {"mint", "mint both"} =>
                          tokens'[e] = tokens[e] /\ refreshers'[e] = refreshers[e]
                     /\ \A f \in Exchanges \ {e} : refreshers'[f] = refreshers[f]
                     /\ exchange'[e].pc = "request" => LockFree
  <1>1. CASE CreateAccessToken(e)
    <2>1. /\ tokens' = [tokens EXCEPT ![e] = [client |-> req.client, subject |-> req.userID]]
          /\ refreshers' = refreshers /\ LockFree /\ exchange[e].pc = "mint"
      BY <1>1 DEF CreateAccessToken
    <2> QED BY <2>1 DEF TypeOK
  <1>2. CASE CreateAccessAndRefreshTokens(e)
    <2>1. /\ tokens' = [tokens EXCEPT ![e] = [client |-> req.client, subject |-> req.userID]]
          /\ refreshers' = [refreshers EXCEPT ![e] =
                              [userID |-> req.userID, authTime |-> exchange[e].authTime]]
          /\ LockFree /\ exchange[e].pc = "mint both"
      BY <1>2 DEF CreateAccessAndRefreshTokens
    <2> QED BY <2>1 DEF TypeOK
  <1>3. ASSUME UNCHANGED <<tokens, refreshers>>, exchange[e].pc \notin {"mint", "mint both"},
               exchange'[e].pc = "request" => LockFree
        PROVE  Goal
    BY <1>3
  <1>4. exchange'[e].pc = "request" => exchange[e].pc = "code"
    BY StepEffect DEF StepRecord, Advances, Later
  <1>5. CASE AuthRequestByCode(e)
    BY <1>3, <1>5 DEF AuthRequestByCode, storage
  <1>6. CASE ~CreateAccessToken(e) /\ ~CreateAccessAndRefreshTokens(e) /\ ~AuthRequestByCode(e)
    <2>1. UNCHANGED <<tokens, refreshers>> /\ exchange[e].pc \notin {"mint", "mint both", "code"}
      BY <1>6
      DEF ExchangeStep, AuthorizeClientIDSecret, AuthRequestByID, ValidateExchange,
          InfoFromRequest, SetUserinfoFromRequest, AllClientIDs, DeleteAuthRequest, storage
    <2> QED BY <1>3, <1>4, <2>1
  <1> QED BY <1>1, <1>2, <1>5, <1>6

(* While no login runs on its request, each of an exchange's reads returns   *)
(* what the request holds, under the lock or not.                            *)
LEMMA AgreesStep ==
  ASSUME TypeOK, AgreesInv, NEW e \in Exchanges, ExchangeStep(e)
  PROVE  Agrees(exchange[e], tokens[e], refreshers[e])'
  <1> DEFINE x == exchange[e]
             y == exchange'[e]
             req == requests[x.req]
  <1>1. UNCHANGED <<requests, lock>>
    BY StepFrame
  <1>2. Advances(x, y) /\ Reads(x, y)
    BY StepEffect DEF StepRecord
  <1> SUFFICES ASSUME ~y.disturbed, y.pc \in Resolved
               PROVE  Agrees(exchange[e], tokens[e], refreshers[e])'
    BY DEF Agrees
  <1>3. CASE y.pc = "request"
    <2>1. lock = Unlocked
      BY <1>3, WriteEffect DEF LockFree
    <2>2. y.req \in Requests
      BY TypeNext DEF Next, TypeOK
    <2>3. lock'.req # y.req
      BY <1>1, <2>1, <2>2, AuthCodeAssumption DEF Unlocked
    <2> QED BY <1>3, <2>3 DEF Agrees, Minting
  <1>4. CASE y.pc # "request"
    <2>1. ~x.disturbed /\ x.pc \in Resolved /\ x.pc # "code" /\ y.req = x.req
      BY <1>2, <1>4 DEF Advances, Reads, Later, Resolved, ExchangePCs
    <2>2. /\ lock.req # x.req
          /\ x.pc = "mint" => x.req \notin OfflineRequests
          /\ x.pc = "mint both" => x.authTime = req.authTime
          /\ x.pc \in Minting => tokens[e].subject = req.userID
          /\ x.pc \in Minting /\ x.req \in OfflineRequests =>
               refreshers[e].userID = req.userID /\ refreshers[e].authTime = req.authTime
          /\ x.pc \in Minting \ {"userinfo"} => x.idSub = req.userID
      BY <2>1 DEF AgreesInv, Agrees
    <2>3. y.pc = "mint" => y.req \notin OfflineRequests
      BY <1>2, <2>1 DEF Reads
    <2>4. y.pc = "mint both" => y.authTime = req.authTime
      BY <1>2, <2>2 DEF Reads, AuthTimeSeen
    <2>5. y.pc \in Minting => x.pc \in {"mint", "mint both"} \/ x.pc \in Minting
      BY <1>2 DEF Advances, Later, Minting
    <2>6. y.pc \in Minting => tokens'[e].subject = req.userID
      BY <2>2, <2>5, WriteEffect DEF Minting
    <2>7. y.pc \in Minting /\ x.req \in OfflineRequests =>
            refreshers'[e].userID = req.userID /\ refreshers'[e].authTime = req.authTime
      BY <2>2, <2>5, WriteEffect DEF Minting
    <2>8. y.pc = "apps" => y.idSub = req.userID
      BY <1>2, <2>2 DEF Reads, SubjectSeen
    <2>9. y.pc \in {"delete", "answered"} => x.pc \in Minting \ {"userinfo"} /\ y.idSub = x.idSub
      BY <1>2 DEF Advances, Reads, Later, Minting
    <2> QED BY <1>1, <2>1, <2>2, <2>3, <2>4, <2>6, <2>7, <2>8, <2>9 DEF Agrees, Minting
  <1> QED BY <1>3, <1>4

(* A login marks the exchanges that hold its request, and leaves what every  *)
(* other exchange has read as it was.                                        *)
LEMMA AgreesNext == IInv /\ AgreesInv /\ [Next]_vars => AgreesInv'
  <1> SUFFICES ASSUME IInv, AgreesInv, [Next]_vars PROVE AgreesInv'
    OBVIOUS
  <1>t. TypeOK
    BY DEF IInv
  <1>0. ASSUME UNCHANGED <<requests, lock>>, NEW e \in Exchanges,
               exchange'[e] = exchange[e], tokens'[e] = tokens[e], refreshers'[e] = refreshers[e]
        PROVE  Agrees(exchange[e], tokens[e], refreshers[e])'
    BY <1>0 DEF AgreesInv, Agrees
  <1>1. ASSUME UNCHANGED <<requests, lock, exchange, tokens, refreshers>> PROVE AgreesInv'
    BY <1>0, <1>1 DEF AgreesInv, LastLogin
  <1>2. CASE UNCHANGED vars
    BY <1>1, <1>2 DEF vars, storage
  <1>3. CASE \/ \E f \in Registries : Reload(f)
             \/ \E k \in Codes, r \in Requests : CallbackLoad(k, r)
             \/ \E k \in Codes : CallbackStep(k)
    BY <1>1, <1>3
    DEF Reload, CallbackLoad, CallbackStep, CallbackDone, CallbackClient, SaveAuthCode, storage
  <1>4. ASSUME NEW r \in Requests, NEW c \in ClientIDs, NEW challenge \in Presented,
               NEW hint \in Hints, CreateAuthRequest(r, c, challenge, hint)
        PROVE  AgreesInv'
    <2> DEFINE rec == NewRequest(c, challenge, hint)
    <2>1. /\ requests[r] = Unborn /\ requests' = [requests EXCEPT ![r] = rec]
          /\ UNCHANGED <<lock, exchange, tokens, refreshers>>
      BY <1>4 DEF CreateAuthRequest
    <2>2. ~rec.done
      BY DEF NewRequest
    <2> HIDE DEF rec
    <2>3. requests'[r] = rec /\ \A q \in Requests \ {r} : requests'[q] = requests[q]
      BY <2>1 DEF TypeOK, IInv
    <2>4. \A q \in Requests : LastLogin(q)'
      BY <2>2, <2>3 DEF AgreesInv, LastLogin
    <2>5. ASSUME NEW e \in Exchanges PROVE Agrees(exchange[e], tokens[e], refreshers[e])'
      <3>1. exchange[e].pc \in Resolved => exchange[e].req \in Requests \ {r}
        BY <2>1, HeldRequest DEF Unborn
      <3>2. exchange[e].pc \in Resolved => requests'[exchange[e].req] = requests[exchange[e].req]
        BY <2>3, <3>1
      <3> QED BY <2>1, <3>2 DEF AgreesInv, Agrees
    <2> QED BY <2>4, <2>5 DEF AgreesInv
  <1>5. ASSUME NEW r \in Requests, NEW s \in Subjects, BeginLogin(r, s) PROVE AgreesInv'
    <2>1. /\ UNCHANGED <<requests, tokens, refreshers>> /\ lock' = [req |-> r, subject |-> s]
          /\ \A e \in Exchanges :
               IF exchange[e].req = r THEN exchange'[e] = Disturbed(exchange[e])
                                      ELSE exchange'[e] = exchange[e]
      BY <1>5 DEF BeginLogin, storage, Disturbed
    <2>2. ASSUME NEW e \in Exchanges PROVE Agrees(exchange[e], tokens[e], refreshers[e])'
      <3>1. CASE exchange[e].req = r
        <4>1. exchange'[e].disturbed
          BY <1>t, <2>1, <3>1, DisturbedKeeps DEF TypeOK
        <4> QED BY <4>1 DEF Agrees
      <3>2. CASE exchange[e].req # r
        BY <2>1, <3>2 DEF AgreesInv, Agrees
      <3> QED BY <3>1, <3>2
    <2> QED BY <2>1, <2>2 DEF AgreesInv, LastLogin
  <1>6. ASSUME NEW r \in Requests, EndLogin(r) PROVE AgreesInv'
    <2>1. UNCHANGED <<exchange, tokens, refreshers>> /\ lock.req = r /\ lock'.req = NoRequest
      BY <1>6 DEF EndLogin, storage, Unlocked
    <2>2. LastLogin(r)' /\ \A q \in Requests \ {r} : requests'[q] = requests[q]
      BY <1>t, <1>6, LastLoginEnds
    <2>3. \A q \in Requests : LastLogin(q)'
      BY <2>2 DEF AgreesInv, LastLogin
    <2>4. ASSUME NEW e \in Exchanges PROVE Agrees(exchange[e], tokens[e], refreshers[e])'
      <3>1. ~exchange[e].disturbed /\ exchange[e].pc \in Resolved =>
              exchange[e].req \in Requests \ {r}
        BY <1>t, <2>1 DEF AgreesInv, Agrees, TypeOK
      <3>2. ~exchange[e].disturbed /\ exchange[e].pc \in Resolved =>
              /\ requests'[exchange[e].req] = requests[exchange[e].req]
              /\ exchange[e].req # NoRequest
        BY <2>2, <3>1, AuthCodeAssumption
      <3> QED BY <2>1, <3>2 DEF AgreesInv, Agrees
    <2> QED BY <2>3, <2>4 DEF AgreesInv
  <1>7. ASSUME NEW e \in Exchanges, NEW c \in ClientIDs, NEW k \in Codes,
               GetClientByClientID(e, c, k)
        PROVE  AgreesInv'
    <2>1. exchange'[e].pc \notin Resolved
      BY <1>7, <1>t, BeginRecord DEF Resolved
    <2>2. /\ UNCHANGED <<requests, lock, tokens, refreshers>>
          /\ \A f \in Exchanges \ {e} : exchange'[f] = exchange[f]
      BY <1>7, <1>t, BeginRecord
    <2>3. Agrees(exchange[e], tokens[e], refreshers[e])'
      BY <2>1 DEF Agrees
    <2>4. \A f \in Exchanges \ {e} : Agrees(exchange[f], tokens[f], refreshers[f])'
      BY <1>0, <2>2
    <2> QED BY <2>2, <2>3, <2>4 DEF AgreesInv, LastLogin
  <1>8. ASSUME NEW e \in Exchanges, ExchangeStep(e) PROVE AgreesInv'
    <2>1. UNCHANGED <<requests, lock>> /\ Agrees(exchange[e], tokens[e], refreshers[e])'
      BY <1>8, <1>t, StepFrame, AgreesStep
    <2>2. \A f \in Exchanges \ {e} : exchange'[f] = exchange[f] /\ tokens'[f] = tokens[f]
      BY <1>8, <1>t, ExchangeEffect DEF OwnStep
    <2>3. \A f \in Exchanges \ {e} : refreshers'[f] = refreshers[f]
      BY <1>8, <1>t, WriteEffect
    <2> QED BY <1>0, <2>1, <2>2, <2>3 DEF AgreesInv, LastLogin
  <1> QED BY <1>2, <1>3, <1>4, <1>5, <1>6, <1>7, <1>8 DEF Next

(* Access token, id_token and refresh token of one answer name one subject   *)
(* and one login, unless a login ran on the request the exchange held.       *)
THEOREM AnswersAgree == Spec => []AnswerAgrees
  <1>1. IInv /\ AgreesInv => AnswerAgrees
    <2> SUFFICES ASSUME IInv, AgreesInv, NEW e \in Exchanges,
                        exchange[e].pc = "answered", ~exchange[e].disturbed
                 PROVE  LET r == exchange[e].req
                        IN /\ exchange[e].idSub = tokens[e].subject
                           /\ r \in OfflineRequests =>
                                /\ refreshers[e].userID = tokens[e].subject
                                /\ refreshers[e].authTime \in 1..Len(requests[r].picks)
                                /\ requests[r].picks[refreshers[e].authTime] = refreshers[e].userID
      BY Zenon DEF AnswerAgrees
    <2>1. exchange[e].pc \in Resolved /\ exchange[e].pc \in Minting \ {"userinfo"}
      BY DEF Resolved, ExchangePCs, Minting
    <2>2. exchange[e].req \in Requests /\ requests[exchange[e].req].done
      BY <2>1, HeldRequest
    <2>3. requests[exchange[e].req].picks \in Seq(Subjects)
      BY <2>2 DEF IInv, TypeOK, RequestType
    <2>4. LastLogin(exchange[e].req) /\ Agrees(exchange[e], tokens[e], refreshers[e])
      BY <2>2 DEF AgreesInv
    <2> QED BY <2>1, <2>2, <2>3, <2>4 DEF LastLogin, Agrees
  <1> QED BY <1>1, AgreesInit, AgreesNext, InductiveInvariant, PTL DEF Spec
===============================================================================
