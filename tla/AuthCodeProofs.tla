--------------------------- MODULE AuthCodeProofs ---------------------------
(* Theorems about AuthCode, for every set of requests, codes, exchanges,     *)
(* clients and identities and every bound.                                   *)
EXTENDS AuthCode, TLAPS

(* The apply step of a hot reload yields a registry again (one kind per      *)
(* client_id), whatever the file declared.                                   *)
LEMMA ReplaceType ==
  ASSUME NEW reg \in Registries, NEW f \in Registries
  PROVE  ReplaceFileClients(reg, f) \in Registries
  BY DEF Registries, ReplaceFileClients, Kinds

(* A stored request is of the request type (authRequestFromOIDC).            *)
LEMMA NewRequestType ==
  ASSUME TypeOK, NEW c \in ClientIDs, NEW challenge \in Challenges, NEW hint \in Hints
  PROVE  NewRequest(c, challenge, hint) \in RequestType
  BY AuthCodeAssumption DEF NewRequest, RequestType, TypeOK, Registries, Kinds, Challenges

(* Each exchange starts from a record of the exchange type.                  *)
LEMMA IdleType == IdleExchange \in ExchangeType
  BY DEF IdleExchange, ExchangeType, ExchangePCs, AuthTimes, TornTime, Kinds

(* The type invariant has conjuncts about every variable, about callbacks    *)
(* and about exchanges. A step of one exchange disturbs only the last.       *)
ExchangesTyped ==
  /\ exchange \in [Exchanges -> ExchangeType]
  /\ \A e \in Exchanges :
       /\ exchange[e].pc # "idle" =>
            exchange[e].code \in Codes /\ exchange[e].client \in ClientIDs
       /\ exchange[e].pc \in Resolved => exchange[e].req \in Requests

CallbacksTyped ==
  /\ callback \in [Codes -> CallbackType]
  /\ \A k \in Codes : callback[k].pc # "idle" => callback[k].req \in Requests

StorageTyped ==
  /\ clients \in Registries
  /\ reloads \in 0..MaxReloads
  /\ requests \in [Requests -> RequestType]
  /\ authRequests \in SUBSET Requests
  /\ codes \in [Codes -> Requests \cup {NoRequest}]
  /\ tokens \in [Exchanges -> [client : ClientIDs \cup {NoClient},
                               subject : Subjects \cup {NoSubject}]]
  /\ refreshers \in [Exchanges -> [userID : Subjects \cup {NoSubject},
                                   authTime : AuthTimes]]
  /\ lock \in {Unlocked} \cup [req : Requests, subject : Subjects]
  /\ spent \in SUBSET Requests

(* The type invariant is its three parts: the storage maps, the callback      *)
(* handlers, the exchange handlers.                                           *)
LEMMA TypeParts == TypeOK <=> StorageTyped /\ CallbacksTyped /\ ExchangesTyped
  BY DEF TypeOK, StorageTyped, CallbacksTyped, ExchangesTyped

(* A freshly started IdP (NewStorage: no requests, codes or tokens) is well   *)
(* typed.                                                                     *)
LEMMA TypeInit == Init => TypeOK
  <1> SUFFICES ASSUME Init PROVE TypeOK OBVIOUS
  <1>1. SeedClients \in Registries
    BY DEF SeedClients, Registries, Kinds, RegisteredKinds
  <1>2. Unborn \in RequestType
    BY DEF Unborn, RequestType, Challenges, Kinds
  <1>3. StorageTyped
    BY <1>1, <1>2, AuthCodeAssumption
    DEF Init, StorageTyped, AuthTimes, NoToken, NoRefresh
  <1>4. CallbacksTyped
    BY DEF Init, CallbacksTyped, CallbackType
  <1>5. ExchangesTyped
    BY IdleType DEF Init, ExchangesTyped, IdleExchange, Resolved
  <1> QED BY <1>3, <1>4, <1>5, TypeParts

(* An update of one exchange to a well-typed record keeps exchanges typed.   *)
LEMMA ExchangeUpdate ==
  ASSUME TypeOK, NEW e \in Exchanges, NEW rec \in ExchangeType,
         rec.pc # "idle" => rec.code \in Codes /\ rec.client \in ClientIDs,
         rec.pc \in Resolved => rec.req \in Requests,
         exchange' = [exchange EXCEPT ![e] = rec]
  PROVE  ExchangesTyped'
  BY DEF TypeOK, ExchangesTyped

(* A callback that only moves on, as it does at every step of the OP after    *)
(* loading its request, stays typed.                                          *)
LEMMA CallbackUpdate ==
  ASSUME TypeOK, NEW k \in Codes, callback[k].pc # "idle",
         NEW pc \in {"client", "save", "redirected", "failed"}, StepCallback(k, pc)
  PROVE  CallbacksTyped'
  BY DEF TypeOK, CallbacksTyped, StepCallback, CallbackType

(* The step of an exchange is a field of its own.                            *)
LEMMA MoveEffect ==
  ASSUME TypeOK, NEW e \in Exchanges, NEW pc, StepExchange(e, pc)
  PROVE  /\ exchange'[e] = [exchange[e] EXCEPT !.pc = pc]
         /\ exchange'[e].pc = pc
         /\ \A f \in Exchanges \ {e} : exchange'[f] = exchange[f]
  <1>1. exchange[e] \in ExchangeType /\ e \in DOMAIN exchange
    BY DEF TypeOK
  <1>2. /\ exchange'[e] = [exchange[e] EXCEPT !.pc = pc]
        /\ \A f \in Exchanges \ {e} : exchange'[f] = exchange[f]
    BY <1>1 DEF StepExchange, TypeOK
  <1> QED BY <1>1, <1>2 DEF ExchangeType

(* An exchange that only moves on, to a step before or after which it holds  *)
(* its request as it did, stays typed.                                       *)
LEMMA ExchangeMove ==
  ASSUME TypeOK, NEW e \in Exchanges, NEW pc \in ExchangePCs, pc # "idle",
         exchange[e].pc # "idle",
         pc \in Resolved => exchange[e].pc \in Resolved,
         StepExchange(e, pc)
  PROVE  ExchangesTyped'
  <1> DEFINE rec == [exchange[e] EXCEPT !.pc = pc]
  <1>1. exchange[e] \in ExchangeType
    BY DEF TypeOK
  <1>2. /\ rec \in ExchangeType
        /\ rec.pc = pc
        /\ rec.code = exchange[e].code
        /\ rec.client = exchange[e].client
        /\ rec.req = exchange[e].req
    BY <1>1 DEF ExchangeType
  <1>3. exchange' = [exchange EXCEPT ![e] = rec]
    BY DEF StepExchange
  <1>4. /\ rec.code \in Codes /\ rec.client \in ClientIDs
        /\ rec.pc \in Resolved => rec.req \in Requests
    BY <1>2 DEF TypeOK
  <1> QED BY <1>2, <1>3, <1>4, ExchangeUpdate

(* What a login leaves of an exchange that holds its request: all but the    *)
(* history of having been disturbed.                                         *)
Disturbed(x) == [x EXCEPT !.disturbed = TRUE]

(* It stays what it was but for that.                                        *)
LEMMA DisturbedType ==
  ASSUME NEW x \in ExchangeType
  PROVE  /\ Disturbed(x) \in ExchangeType
         /\ Disturbed(x).pc = x.pc /\ Disturbed(x).code = x.code
         /\ Disturbed(x).client = x.client /\ Disturbed(x).req = x.req
         /\ Disturbed(x).late = x.late /\ Disturbed(x).idSub = x.idSub
  BY DEF Disturbed, ExchangeType

(* No handler of the client registry, /authorize or /login leaves the types. *)
LEMMA TypeLogin ==
  ASSUME TypeOK,
         \/ \E f \in Registries : Reload(f)
         \/ \E r \in Requests, c \in ClientIDs, challenge \in Presented, hint \in Hints :
              CreateAuthRequest(r, c, challenge, hint)
         \/ \E r \in Requests, s \in Subjects : BeginLogin(r, s)
         \/ \E r \in Requests : EndLogin(r)
  PROVE  TypeOK'
  <1>1. ASSUME NEW f \in Registries, Reload(f) PROVE TypeOK'
    <2>1. clients' \in Registries
      BY <1>1, ReplaceType DEF Reload, TypeOK
    <2> QED BY <1>1, <2>1, AuthCodeAssumption DEF Reload, TypeOK, storage
  <1>2. ASSUME NEW r \in Requests, NEW c \in ClientIDs, NEW challenge \in Presented,
               NEW hint \in Hints, CreateAuthRequest(r, c, challenge, hint)
        PROVE TypeOK'
    <2>1. NewRequest(c, challenge, hint) \in RequestType
      BY NewRequestType, AuthCodeAssumption
    <2> QED BY <1>2, <2>1 DEF CreateAuthRequest, TypeOK
  <1>3. ASSUME NEW r \in Requests, NEW s \in Subjects, BeginLogin(r, s) PROVE TypeOK'
    <2>1. ExchangesTyped'
      <3>1. \A e \in Exchanges : exchange'[e] \in {exchange[e], Disturbed(exchange[e])}
        BY <1>3 DEF BeginLogin, Disturbed
      <3>2. \A e \in Exchanges :
              /\ exchange'[e] \in ExchangeType
              /\ exchange'[e].pc = exchange[e].pc
              /\ exchange'[e].code = exchange[e].code
              /\ exchange'[e].client = exchange[e].client
              /\ exchange'[e].req = exchange[e].req
        BY <3>1, DisturbedType DEF TypeOK
      <3>3. exchange' \in [Exchanges -> ExchangeType]
        BY <1>3, <3>2 DEF BeginLogin
      <3> QED BY <3>2, <3>3 DEF TypeOK, ExchangesTyped
    <2>2. StorageTyped' /\ CallbacksTyped'
      BY <1>3 DEF BeginLogin, TypeOK, storage, StorageTyped, CallbacksTyped
    <2> QED BY <2>1, <2>2 DEF TypeOK, StorageTyped, CallbacksTyped, ExchangesTyped
  <1>4. ASSUME NEW r \in Requests, EndLogin(r) PROVE TypeOK'
    <2>1. lock \in [req : Requests, subject : Subjects]
      <3>1. Unlocked.req = NoRequest
        BY DEF Unlocked
      <3>2. lock # Unlocked
        BY <1>4, <3>1, AuthCodeAssumption DEF EndLogin
      <3> QED BY <3>2 DEF TypeOK
    <2>2. /\ Append(requests[r].picks, lock.subject) \in Seq(Subjects)
          /\ Len(requests[r].picks) + 1 \in Nat
      BY <2>1 DEF TypeOK, RequestType
    <2>3. requests' \in [Requests -> RequestType]
      <3> DEFINE rec == [requests[r] EXCEPT
                           !.userID = lock.subject,
                           !.authTime = Len(requests[r].picks) + 1,
                           !.done = TRUE,
                           !.picks = Append(@, lock.subject)]
      <3>1. requests[r] \in RequestType
        BY DEF TypeOK
      <3>2. rec \in RequestType
        BY <2>1, <2>2, <3>1 DEF RequestType
      <3>3. requests' = [requests EXCEPT ![r] = rec]
        BY <1>4 DEF EndLogin
      <3> HIDE DEF rec
      <3> QED BY <3>2, <3>3 DEF TypeOK
    <2> QED BY <1>4, <2>3 DEF EndLogin, TypeOK, storage
  <1> QED BY <1>1, <1>2, <1>3, <1>4

(* No step of the authorize callback leaves the types.                       *)
LEMMA TypeCallback ==
  ASSUME TypeOK, NEW k \in Codes,
         (\E r \in Requests : CallbackLoad(k, r)) \/ CallbackStep(k)
  PROVE  TypeOK'
  <1>1. ASSUME NEW r \in Requests, CallbackLoad(k, r) PROVE TypeOK'
    BY <1>1 DEF CallbackLoad, TypeOK, storage, CallbackType
  <1>2. CASE CallbackDone(k)
    <2>1. callback[k].pc # "idle"
      BY <1>2 DEF CallbackDone
    <2>2. StepCallback(k, "client") \/ StepCallback(k, "failed")
      BY <1>2, Zenon DEF CallbackDone
    <2>3. CallbacksTyped'
      BY <2>1, <2>2, CallbackUpdate
    <2>4. StorageTyped' /\ ExchangesTyped'
      BY <1>2 DEF CallbackDone, TypeOK, storage, StorageTyped, ExchangesTyped
    <2> QED BY <2>3, <2>4 DEF TypeOK, StorageTyped, CallbacksTyped, ExchangesTyped
  <1>3. CASE CallbackClient(k)
    <2>1. callback[k].pc # "idle"
      BY <1>3 DEF CallbackClient
    <2>2. StepCallback(k, "save") \/ StepCallback(k, "failed")
      BY <1>3, Zenon DEF CallbackClient
    <2>3. CallbacksTyped'
      BY <2>1, <2>2, CallbackUpdate
    <2>4. StorageTyped' /\ ExchangesTyped'
      BY <1>3 DEF CallbackClient, TypeOK, storage, StorageTyped, ExchangesTyped
    <2> QED BY <2>3, <2>4 DEF TypeOK, StorageTyped, CallbacksTyped, ExchangesTyped
  <1>4. CASE SaveAuthCode(k)
    <2>1. callback[k].pc # "idle" /\ callback[k].req \in Requests
      BY <1>4 DEF SaveAuthCode, TypeOK
    <2>2. CallbacksTyped'
      BY <1>4, <2>1, CallbackUpdate DEF SaveAuthCode
    <2>3. StorageTyped' /\ ExchangesTyped'
      BY <1>4, <2>1 DEF SaveAuthCode, TypeOK, StorageTyped, ExchangesTyped
    <2> QED BY <2>2, <2>3 DEF TypeOK, StorageTyped, CallbacksTyped, ExchangesTyped
  <1> QED BY <1>1, <1>2, <1>3, <1>4 DEF CallbackStep

(* What an exchange that holds its request may rely on.                      *)
LEMMA Held ==
  ASSUME TypeOK, NEW e \in Exchanges
  PROVE  /\ exchange[e] \in ExchangeType
         /\ exchange[e].pc # "idle" => exchange[e].code \in Codes /\ exchange[e].client \in ClientIDs
         /\ exchange[e].pc \in Resolved =>
              exchange[e].req \in Requests /\ requests[exchange[e].req] \in RequestType
  BY DEF TypeOK

(* No step of the code exchange leaves the types, once an exchange began.    *)
LEMMA TypeExchange ==
  ASSUME TypeOK, NEW e \in Exchanges, ExchangeStep(e)
  PROVE  TypeOK'
  <1>x. exchange[e] \in ExchangeType
    BY Held
  <1>h. /\ exchange[e].pc # "idle" =>
             exchange[e].code \in Codes /\ exchange[e].client \in ClientIDs
        /\ exchange[e].pc \in Resolved =>
             exchange[e].req \in Requests /\ requests[exchange[e].req] \in RequestType
    BY Held
  <1>0. ASSUME StorageTyped', CallbacksTyped', ExchangesTyped' PROVE TypeOK'
    BY <1>0 DEF TypeOK, StorageTyped, CallbacksTyped, ExchangesTyped
  <1>1. ASSUME NEW right \in BOOLEAN, AuthorizeClientIDSecret(e, right) PROVE TypeOK'
    <2>1. ExchangesTyped'
      <3>1. CASE StepExchange(e, "failed")
        BY <1>1, <3>1, ExchangeMove DEF AuthorizeClientIDSecret, ExchangePCs, Resolved
      <3>2. CASE exchange' = [exchange EXCEPT ![e].pc = "code", ![e].proved = {"secret"}]
        <4> DEFINE rec == [exchange[e] EXCEPT !.pc = "code", !.proved = {"secret"}]
        <4>1. rec \in ExchangeType /\ rec.pc = "code"
              /\ rec.code = exchange[e].code /\ rec.client = exchange[e].client
          BY <1>x DEF ExchangeType, ExchangePCs
        <4>2. exchange[e].pc # "idle" /\ rec.pc \notin Resolved
          BY <1>1, <4>1 DEF AuthorizeClientIDSecret, Resolved
        <4>3. exchange' = [exchange EXCEPT ![e] = rec]
          BY <3>2
        <4> HIDE DEF rec
        <4> QED BY <1>h, <4>1, <4>2, <4>3, ExchangeUpdate
      <3> QED BY <1>1, <3>1, <3>2, Zenon DEF AuthorizeClientIDSecret
    <2>2. StorageTyped' /\ CallbacksTyped'
      BY <1>1 DEF AuthorizeClientIDSecret, TypeOK, storage, StorageTyped, CallbacksTyped
    <2> QED BY <1>0, <2>1, <2>2
  <1>2. CASE AuthRequestByCode(e)
    <2>1. ExchangesTyped'
      <3>1. CASE StepExchange(e, "failed")
        BY <1>2, <3>1, ExchangeMove DEF AuthRequestByCode, ExchangePCs, Resolved
      <3>2. CASE codes[exchange[e].code] # NoRequest
        <4> DEFINE r == codes[exchange[e].code]
        <4> DEFINE rec == [exchange[e] EXCEPT !.pc = "request", !.req = r]
        <4>1. exchange[e].code \in Codes /\ exchange[e].client \in ClientIDs
          BY <1>h, <1>2 DEF AuthRequestByCode
        <4>2. r \in Requests
          BY <3>2, <4>1 DEF TypeOK
        <4>3. rec \in ExchangeType /\ rec.req = r
              /\ rec.code = exchange[e].code /\ rec.client = exchange[e].client
          BY <1>x, <4>2 DEF ExchangeType, ExchangePCs
        <4>4. exchange' = [exchange EXCEPT ![e] = rec]
          BY <1>2, <3>2 DEF AuthRequestByCode
        <4> HIDE DEF rec
        <4> QED BY <1>h, <4>1, <4>2, <4>3, <4>4, ExchangeUpdate
      <3> QED BY <1>2, <3>1, <3>2 DEF AuthRequestByCode
    <2>2. StorageTyped' /\ CallbacksTyped'
      BY <1>2 DEF AuthRequestByCode, TypeOK, storage, StorageTyped, CallbacksTyped
    <2> QED BY <1>0, <2>1, <2>2
  <1>3. CASE AuthRequestByID(e)
    <2>1. StepExchange(e, "validate") \/ StepExchange(e, "failed")
      BY <1>3, Zenon DEF AuthRequestByID
    <2>2. ExchangesTyped'
      BY <1>3, <2>1, ExchangeMove DEF AuthRequestByID, ExchangePCs, Resolved
    <2>3. StorageTyped' /\ CallbacksTyped'
      BY <1>3 DEF AuthRequestByID, TypeOK, storage, StorageTyped, CallbacksTyped
    <2> QED BY <1>0, <2>2, <2>3
  <1>4. ASSUME NEW right \in BOOLEAN, ValidateExchange(e, right) PROVE TypeOK'
    <2>1. ExchangesTyped'
      <3>1. CASE StepExchange(e, "failed")
        BY <1>4, <3>1, ExchangeMove DEF ValidateExchange, ExchangePCs, Resolved
      <3>2. CASE \E pc \in {"info", "mint"}, shown \in {{}, {"verifier"}} :
                   exchange' = [exchange EXCEPT ![e].pc = pc, ![e].proved = @ \cup shown]
        <4>1. PICK pc \in {"info", "mint"}, shown \in {{}, {"verifier"}} :
                   exchange' = [exchange EXCEPT ![e].pc = pc, ![e].proved = @ \cup shown]
          BY <3>2
        <4> DEFINE rec == [exchange[e] EXCEPT !.pc = pc, !.proved = @ \cup shown]
        <4>2. exchange[e].proved \cup shown \in SUBSET {"secret", "verifier"}
          BY <1>x DEF ExchangeType
        <4>3. rec \in ExchangeType /\ rec.req = exchange[e].req
              /\ rec.code = exchange[e].code /\ rec.client = exchange[e].client
          BY <1>x, <4>2 DEF ExchangeType, ExchangePCs
        <4>4. exchange[e].pc \in Resolved /\ exchange[e].pc # "idle"
          BY <1>h, <1>4 DEF ValidateExchange, Resolved, ExchangePCs
        <4>5. exchange' = [exchange EXCEPT ![e] = rec]
          BY <4>1
        <4> HIDE DEF rec
        <4> QED BY <1>h, <4>3, <4>4, <4>5, ExchangeUpdate
      <3> QED BY <1>4, <3>1, <3>2 DEF ValidateExchange
    <2>2. StorageTyped' /\ CallbacksTyped'
      BY <1>4 DEF ValidateExchange, TypeOK, storage, StorageTyped, CallbacksTyped
    <2> QED BY <1>0, <2>1, <2>2
  <1>5. CASE CreateAccessToken(e)
    <2>1. ExchangesTyped'
      BY <1>5, ExchangeMove DEF CreateAccessToken, ExchangePCs, Resolved
    <2>2. exchange[e].req \in Requests /\ requests[exchange[e].req] \in RequestType
      BY <1>h, <1>5 DEF CreateAccessToken, Resolved, ExchangePCs
    <2>3. StorageTyped' /\ CallbacksTyped'
      BY <1>5, <2>2 DEF CreateAccessToken, TypeOK, StorageTyped, CallbacksTyped, RequestType
    <2> QED BY <1>0, <2>1, <2>3
  <1>6. CASE InfoFromRequest(e)
    <2>1. ExchangesTyped'
      <3>1. exchange[e].req \in Requests /\ requests[exchange[e].req] \in RequestType
        BY <1>h, <1>6 DEF InfoFromRequest, Resolved, ExchangePCs
      <3>2. AuthTimeSeen(exchange[e].req) \subseteq AuthTimes
        BY <3>1 DEF AuthTimeSeen, AuthTimes, RequestType
      <3>3. PICK t \in AuthTimes :
              exchange' = [exchange EXCEPT ![e].pc = "mint both", ![e].authTime = t]
        BY <1>6, <3>2 DEF InfoFromRequest
      <3> DEFINE rec == [exchange[e] EXCEPT !.pc = "mint both", !.authTime = t]
      <3>4. rec \in ExchangeType /\ rec.req = exchange[e].req
            /\ rec.code = exchange[e].code /\ rec.client = exchange[e].client
        BY <1>x DEF ExchangeType, ExchangePCs
      <3>5. exchange' = [exchange EXCEPT ![e] = rec] /\ exchange[e].pc # "idle"
        BY <1>6, <3>3 DEF InfoFromRequest
      <3> HIDE DEF rec
      <3> QED BY <1>h, <3>1, <3>4, <3>5, ExchangeUpdate
    <2>2. StorageTyped' /\ CallbacksTyped'
      BY <1>6 DEF InfoFromRequest, TypeOK, storage, StorageTyped, CallbacksTyped
    <2> QED BY <1>0, <2>1, <2>2
  <1>7. CASE CreateAccessAndRefreshTokens(e)
    <2>1. ExchangesTyped'
      BY <1>7, ExchangeMove DEF CreateAccessAndRefreshTokens, ExchangePCs, Resolved
    <2>2. exchange[e].req \in Requests /\ requests[exchange[e].req] \in RequestType
      BY <1>h, <1>7 DEF CreateAccessAndRefreshTokens, Resolved, ExchangePCs
    <2>3. exchange[e].authTime \in AuthTimes
      BY <1>x DEF ExchangeType
    <2>4. StorageTyped' /\ CallbacksTyped'
      BY <1>7, <2>2, <2>3
      DEF CreateAccessAndRefreshTokens, TypeOK, StorageTyped, CallbacksTyped, RequestType
    <2> QED BY <1>0, <2>1, <2>4
  <1>8. CASE SetUserinfoFromRequest(e)
    <2>1. ExchangesTyped'
      <3>1. CASE StepExchange(e, "failed")
        BY <1>8, <3>1, ExchangeMove DEF SetUserinfoFromRequest, ExchangePCs, Resolved
      <3>2. CASE \E s \in Subjects :
                   exchange' = [exchange EXCEPT ![e].pc = "apps", ![e].idSub = s]
        <4>1. PICK s \in Subjects :
                exchange' = [exchange EXCEPT ![e].pc = "apps", ![e].idSub = s]
          BY <3>2
        <4> DEFINE rec == [exchange[e] EXCEPT !.pc = "apps", !.idSub = s]
        <4>2. rec \in ExchangeType /\ rec.req = exchange[e].req
              /\ rec.code = exchange[e].code /\ rec.client = exchange[e].client
          BY <1>x DEF ExchangeType, ExchangePCs
        <4>3. exchange[e].pc \in Resolved /\ exchange[e].pc # "idle"
          BY <1>h, <1>8 DEF SetUserinfoFromRequest, Resolved, ExchangePCs
        <4>4. exchange' = [exchange EXCEPT ![e] = rec]
          BY <4>1
        <4> HIDE DEF rec
        <4> QED BY <1>h, <4>2, <4>3, <4>4, ExchangeUpdate
      <3> QED BY <1>8, <3>1, <3>2 DEF SetUserinfoFromRequest
    <2>2. StorageTyped' /\ CallbacksTyped'
      BY <1>8 DEF SetUserinfoFromRequest, TypeOK, storage, StorageTyped, CallbacksTyped
    <2> QED BY <1>0, <2>1, <2>2
  <1>9. CASE AllClientIDs(e)
    <2>1. ExchangesTyped'
      <3> DEFINE rec == [exchange[e] EXCEPT !.pc = "delete",
                                            !.apps = Seeds \cup Registered(clients)]
      <3>1. Seeds \cup Registered(clients) \subseteq ClientIDs
        BY SeedsAssumption DEF Registered
      <3>2. rec \in ExchangeType /\ rec.req = exchange[e].req
            /\ rec.code = exchange[e].code /\ rec.client = exchange[e].client
        BY <1>x, <3>1 DEF ExchangeType, ExchangePCs
      <3>3. exchange[e].pc \in Resolved /\ exchange[e].pc # "idle"
        BY <1>h, <1>9 DEF AllClientIDs, Resolved, ExchangePCs
      <3>4. exchange' = [exchange EXCEPT ![e] = rec]
        BY <1>9 DEF AllClientIDs
      <3> HIDE DEF rec
      <3> QED BY <1>h, <3>2, <3>3, <3>4, ExchangeUpdate
    <2>2. StorageTyped' /\ CallbacksTyped'
      BY <1>9 DEF AllClientIDs, TypeOK, storage, StorageTyped, CallbacksTyped
    <2> QED BY <1>0, <2>1, <2>2
  <1>10. CASE DeleteAuthRequest(e)
    <2>1. ExchangesTyped'
      BY <1>10, ExchangeMove DEF DeleteAuthRequest, ExchangePCs, Resolved
    <2>2. exchange[e].req \in Requests
      BY <1>h, <1>10 DEF DeleteAuthRequest, Resolved, ExchangePCs
    <2>3. StorageTyped' /\ CallbacksTyped'
      BY <1>10, <2>2 DEF DeleteAuthRequest, TypeOK, StorageTyped, CallbacksTyped
    <2> QED BY <1>0, <2>1, <2>3
  <1> QED
    BY <1>1, <1>2, <1>3, <1>4, <1>5, <1>6, <1>7, <1>8, <1>9, <1>10 DEF ExchangeStep

(* An exchange begins well typed.                                            *)
LEMMA TypeBegin ==
  ASSUME TypeOK, NEW e \in Exchanges, NEW c \in ClientIDs, NEW k \in Codes,
         GetClientByClientID(e, c, k)
  PROVE  TypeOK'
  <1>1. ExchangesTyped'
    <2> DEFINE pc == CASE clients[c] = "absent" -> "failed"
                       [] clients[c] = "confidential" -> "secret"
                       [] OTHER -> "code"
               late == callback[k].req \in spent
               rec == [IdleExchange EXCEPT !.pc = pc, !.client = c, !.kind = clients[c],
                                           !.code = k, !.late = late, !.began = reloads]
    <2>1. pc \in {"failed", "secret", "code"} /\ late \in BOOLEAN /\ clients[c] \in Kinds
          /\ reloads \in Nat
      BY AuthCodeAssumption DEF TypeOK, Registries
    <2>2. exchange' = [exchange EXCEPT ![e] = rec]
      BY DEF GetClientByClientID
    <2> HIDE DEF pc, late
    <2>3. rec \in ExchangeType /\ rec.pc = pc /\ rec.code = k /\ rec.client = c
      BY <2>1, IdleType DEF ExchangeType, ExchangePCs, IdleExchange
    <2>4. rec.pc \notin Resolved
      BY <2>1, <2>3 DEF Resolved
    <2> HIDE DEF rec
    <2> QED BY <2>2, <2>3, <2>4, ExchangeUpdate
  <1>2. StorageTyped' /\ CallbacksTyped'
    BY DEF GetClientByClientID, TypeOK, storage, StorageTyped, CallbacksTyped
  <1> QED BY <1>1, <1>2 DEF TypeOK, StorageTyped, CallbacksTyped, ExchangesTyped

(* No handler, login or hot reload leaves the types.                          *)
LEMMA TypeNext == TypeOK /\ [Next]_vars => TypeOK'
  <1> SUFFICES ASSUME TypeOK, [Next]_vars PROVE TypeOK'
    OBVIOUS
  <1>1. CASE UNCHANGED vars
    BY <1>1 DEF vars, storage, TypeOK
  <1>2. CASE Next
    BY <1>2, TypeLogin, TypeCallback, TypeBegin, TypeExchange DEF Next
  <1> QED BY <1>1, <1>2

(* Every variable always holds a value of its type, and a handler holds what *)
(* it looked up: whatever the races, no torn subject is ever stored in a     *)
(* request or in a token.                                                    *)
THEOREM TypeCorrect == Spec => []TypeOK
  BY TypeInit, TypeNext, PTL DEF Spec

(* Hot reloads, /authorize, /login and the authorize callback.               *)
OtherStep ==
  \/ \E f \in Registries : Reload(f)
  \/ \E r \in Requests, c \in ClientIDs, challenge \in Presented, hint \in Hints :
       CreateAuthRequest(r, c, challenge, hint)
  \/ \E r \in Requests, s \in Subjects : BeginLogin(r, s)
  \/ \E r \in Requests : EndLogin(r)
  \/ \E k \in Codes, r \in Requests : CallbackLoad(k, r)
  \/ \E k \in Codes : CallbackStep(k)

(* They write no token, and of an exchange at most that a login disturbed it. *)
LEMMA OtherEffect ==
  ASSUME TypeOK, OtherStep
  PROVE  /\ UNCHANGED <<tokens, refreshers, spent>>
         /\ \A e \in Exchanges : exchange'[e] \in {exchange[e], Disturbed(exchange[e])}
  <1>1. CASE \E r \in Requests, s \in Subjects : BeginLogin(r, s)
    <2>1. PICK r \in Requests, s \in Subjects : BeginLogin(r, s)
      BY <1>1
    <2> QED BY <2>1 DEF BeginLogin, Disturbed, storage
  <1>2. CASE ~ \E r \in Requests, s \in Subjects : BeginLogin(r, s)
    <2>1. UNCHANGED <<tokens, refreshers, spent, exchange>>
      BY <1>2
      DEF OtherStep, Reload, CreateAuthRequest, EndLogin, CallbackLoad, CallbackStep,
          CallbackDone, CallbackClient, SaveAuthCode, storage
    <2> QED BY <2>1
  <1> QED BY <1>1, <1>2
-----------------------------------------------------------------------------
(* The strengthening that makes CodeAfterLogin, SubjectWasPicked and         *)
(* NoLateRedemption inductive.                                               *)

(* A finished login leaves a picked user; a deleted request never returns,   *)
(* because ids are fresh and a spent request was born.                       *)
RequestInv ==
  \A r \in Requests :
    /\ requests[r].done => requests[r].userID \in Chosen(r)
    /\ r \in authRequests => requests[r] # Unborn /\ r \notin spent
    /\ r \in spent => requests[r] # Unborn

(* A callback that saw Done during a login waits for that login at its next  *)
(* locked step. A code names the request of the callback that saved it.      *)
CallbackInv ==
  \A k \in Codes :
    /\ callback[k].pc = "client" =>
         requests[callback[k].req].done \/ lock.req = callback[k].req
    /\ callback[k].pc \in {"save", "redirected"} => requests[callback[k].req].done
    /\ codes[k] # NoRequest => codes[k] = callback[k].req /\ callback[k].pc = "redirected"

(* An exchange works on the request of its code. One that began after that   *)
(* request was spent never gets past loading it.                             *)
ExchangeInv ==
  \A e \in Exchanges :
    /\ exchange[e].pc # "idle" => callback[exchange[e].code].pc = "redirected"
    /\ exchange[e].pc \in Resolved => exchange[e].req = callback[exchange[e].code].req
    /\ exchange[e].late =>
         /\ exchange[e].pc \in {"secret", "code", "request", "failed"}
         /\ callback[exchange[e].code].req \in spent
         /\ ~Minted(e)
    /\ exchange[e].pc \in {"idle", "secret", "code"} =>
         ~Minted(e) /\ exchange[e].idSub = NoSubject
    /\ Minted(e) \/ exchange[e].idSub # NoSubject => exchange[e].req \in Requests

IInv == TypeOK /\ RequestInv /\ CallbackInv /\ ExchangeInv /\ SubjectWasPicked

(* A freshly started IdP, with no request, code or handler, satisfies IInv.   *)
LEMMA InvInit == Init => IInv
  <1> SUFFICES ASSUME Init PROVE IInv OBVIOUS
  <1>1. TypeOK BY TypeInit
  <1>2. RequestInv BY DEF Init, RequestInv, Unborn
  <1>3. CallbackInv BY DEF Init, CallbackInv
  <1>4. ExchangeInv /\ SubjectWasPicked
    BY DEF Init, ExchangeInv, SubjectWasPicked, IdleExchange, Resolved, Minted
  <1> QED BY <1>1, <1>2, <1>3, <1>4 DEF IInv

(* A completed login adds its subject to those chosen for its request, and   *)
(* touches no other request (CompleteAuthRequest).                           *)
LEMMA EndLoginPicks ==
  ASSUME TypeOK, NEW r \in Requests, EndLogin(r)
  PROVE  /\ lock.subject \in Subjects
         /\ Chosen(r)' = Chosen(r) \cup {lock.subject}
         /\ requests'[r].done
         /\ requests'[r].userID = lock.subject
         /\ \A q \in Requests \ {r} : requests'[q] = requests[q] /\ Chosen(q)' = Chosen(q)
  <1>1. Unlocked.req = NoRequest
    BY DEF Unlocked
  <1>2. lock # Unlocked
    BY <1>1, AuthCodeAssumption DEF EndLogin
  <1>3. lock.subject \in Subjects
    BY <1>2 DEF TypeOK
  <1>4. requests[r] \in RequestType /\ requests[r].picks \in Seq(Subjects)
    BY DEF TypeOK, RequestType
  <1> DEFINE rec == [requests[r] EXCEPT
                       !.userID = lock.subject,
                       !.authTime = Len(requests[r].picks) + 1,
                       !.done = TRUE,
                       !.picks = Append(requests[r].picks, lock.subject)]
  <1>5. requests' = [requests EXCEPT ![r] = rec]
    BY DEF EndLogin
  <1>6. /\ requests'[r] = rec
        /\ \A q \in Requests \ {r} : requests'[q] = requests[q]
    BY <1>5 DEF TypeOK
  <1>7. /\ rec.done /\ rec.userID = lock.subject
        /\ rec.picks = Append(requests[r].picks, lock.subject)
    BY <1>4 DEF RequestType
  <1> HIDE DEF rec
  <1>8. Chosen(r)' = Chosen(r) \cup {lock.subject}
    <2> DEFINE old == requests[r].picks
               new == Append(old, lock.subject)
    <2>1. /\ Len(old) \in Nat /\ Len(new) = Len(old) + 1
          /\ new[Len(old) + 1] = lock.subject
          /\ \A i \in 1..Len(old) : new[i] = old[i]
      BY <1>3, <1>4
    <2>2. requests'[r].picks = new
      BY <1>6, <1>7
    <2> HIDE DEF old, new
    <2>3. {new[i] : i \in 1..Len(new)} = {old[i] : i \in 1..Len(old)} \cup {lock.subject}
      <3>1. 1..Len(new) = 1..Len(old) \cup {Len(old) + 1}
        BY <2>1
      <3> QED BY <2>1, <3>1
    <2> QED BY <2>2, <2>3 DEF Chosen, old
  <1> QED BY <1>3, <1>6, <1>7, <1>8 DEF Chosen

(* CompleteAuthRequest only adds to what was picked and to what is Done, so a *)
(* code, token or handler that relied on an earlier login still may.          *)
LEMMA InvEndLogin ==
  ASSUME IInv, NEW r \in Requests, EndLogin(r)
  PROVE  RequestInv' /\ CallbackInv' /\ ExchangeInv' /\ SubjectWasPicked'
  <1> USE EndLoginPicks DEF IInv
  <1>0. UNCHANGED <<authRequests, codes, tokens, callback, exchange, spent>> /\ lock.req = r
    BY DEF EndLogin, storage
  <1>1. \A q \in Requests : /\ requests[q].done => requests'[q].done
                            /\ Chosen(q) \subseteq Chosen(q)'
                            /\ requests[q] # Unborn => requests'[q] # Unborn
    BY DEF Unborn
  <1>2. RequestInv'
    BY <1>0, <1>1 DEF RequestInv
  <1>3. CallbackInv'
    <2> SUFFICES ASSUME NEW k \in Codes
                 PROVE  /\ callback[k].pc \in {"client", "save", "redirected"} =>
                             requests'[callback[k].req].done
                        /\ codes[k] # NoRequest =>
                             codes[k] = callback[k].req /\ callback[k].pc = "redirected"
      BY <1>0 DEF CallbackInv
    <2> QED BY <1>0, <1>1 DEF CallbackInv, TypeOK
  <1>4. ExchangeInv'
    BY <1>0 DEF ExchangeInv, Minted
  <1>5. SubjectWasPicked'
    BY <1>0, <1>1 DEF SubjectWasPicked, ExchangeInv, Minted
  <1> QED BY <1>2, <1>3, <1>4, <1>5

(* A hot reload, /authorize (which takes a fresh id) and a login that has     *)
(* just taken the lock disturb none of the facts about codes and tokens.      *)
LEMMA InvLogin ==
  ASSUME IInv,
         \/ \E f \in Registries : Reload(f)
         \/ \E r \in Requests, c \in ClientIDs, challenge \in Presented, hint \in Hints :
              CreateAuthRequest(r, c, challenge, hint)
         \/ \E r \in Requests, s \in Subjects : BeginLogin(r, s)
  PROVE  RequestInv' /\ CallbackInv' /\ ExchangeInv' /\ SubjectWasPicked'
  <1> USE DEF IInv
  <1>1. ASSUME NEW f \in Registries, Reload(f)
        PROVE  RequestInv' /\ CallbackInv' /\ ExchangeInv' /\ SubjectWasPicked'
    BY <1>1 DEF Reload, storage, RequestInv, CallbackInv, ExchangeInv, SubjectWasPicked,
                Minted, Chosen
  <1>2. ASSUME NEW r \in Requests, NEW c \in ClientIDs, NEW challenge \in Presented,
               NEW hint \in Hints, CreateAuthRequest(r, c, challenge, hint)
        PROVE  RequestInv' /\ CallbackInv' /\ ExchangeInv' /\ SubjectWasPicked'
    <2> DEFINE new == NewRequest(c, challenge, hint)
    <2>1. new # Unborn /\ new.done = FALSE
      BY AuthCodeAssumption DEF NewRequest, Unborn
    <2>2. /\ requests'[r] = new /\ requests[r] = Unborn
          /\ \A q \in Requests \ {r} : requests'[q] = requests[q] /\ Chosen(q)' = Chosen(q)
          /\ Chosen(r) = {}
      BY <1>2 DEF CreateAuthRequest, TypeOK, Chosen, Unborn
    <2>3. /\ UNCHANGED <<codes, tokens, lock, callback, exchange, spent>>
          /\ authRequests' = authRequests \cup {r}
          /\ ~requests[r].done
      BY <1>2, <2>2 DEF CreateAuthRequest, Unborn
    <2> HIDE DEF new
    <2>4. RequestInv'
      BY <2>1, <2>2, <2>3 DEF RequestInv
    <2>5. CallbackInv'
      <3> SUFFICES ASSUME NEW k \in Codes
                   PROVE  /\ callback[k].pc = "client" =>
                               requests'[callback[k].req].done \/ lock.req = callback[k].req
                          /\ callback[k].pc \in {"save", "redirected"} =>
                               requests'[callback[k].req].done
                          /\ codes[k] # NoRequest =>
                               codes[k] = callback[k].req /\ callback[k].pc = "redirected"
        BY <2>3 DEF CallbackInv
      <3> QED BY <2>2, <2>3 DEF CallbackInv, TypeOK
    <2>6. ExchangeInv'
      BY <2>3 DEF ExchangeInv, Minted
    <2>7. SubjectWasPicked'
      BY <2>2, <2>3 DEF SubjectWasPicked, ExchangeInv, Minted
    <2> QED BY <2>4, <2>5, <2>6, <2>7
  <1>3. ASSUME NEW r \in Requests, NEW s \in Subjects, BeginLogin(r, s)
        PROVE  RequestInv' /\ CallbackInv' /\ ExchangeInv' /\ SubjectWasPicked'
    <2>1. /\ UNCHANGED <<authRequests, codes, tokens, requests, callback, spent>>
          /\ lock = Unlocked
      BY <1>3 DEF BeginLogin, storage, LockFree
    <2>2. \A e \in Exchanges :
            /\ exchange'[e].pc = exchange[e].pc
            /\ exchange'[e].code = exchange[e].code
            /\ exchange'[e].req = exchange[e].req
            /\ exchange'[e].late = exchange[e].late
            /\ exchange'[e].idSub = exchange[e].idSub
      <3>1. \A e \in Exchanges : exchange'[e] \in {exchange[e], Disturbed(exchange[e])}
        BY <1>3 DEF BeginLogin, Disturbed
      <3> QED BY <3>1, DisturbedType DEF TypeOK
    <2>3. \A q \in Requests : lock.req # q /\ Chosen(q)' = Chosen(q)
      BY <2>1, AuthCodeAssumption DEF Unlocked, Chosen
    <2>4. RequestInv'
      BY <2>1, <2>3 DEF RequestInv
    <2>5. CallbackInv'
      BY <2>1, <2>3 DEF CallbackInv, TypeOK
    <2>6. ExchangeInv'
      BY <2>1, <2>2 DEF ExchangeInv, Minted
    <2>7. SubjectWasPicked'
      BY <2>1, <2>2, <2>3 DEF SubjectWasPicked, ExchangeInv, Minted
    <2> QED BY <2>4, <2>5, <2>6, <2>7
  <1> QED BY <1>1, <1>2, <1>3

(* The authorize callback: Done may be seen early, without the lock, but      *)
(* SaveAuthCode runs under the lock, when the login it saw is complete.       *)
LEMMA InvCallback ==
  ASSUME IInv, NEW k \in Codes,
         (\E r \in Requests : CallbackLoad(k, r)) \/ CallbackStep(k)
  PROVE  RequestInv' /\ CallbackInv' /\ ExchangeInv' /\ SubjectWasPicked'
  <1> USE DEF IInv
  <1>1. /\ UNCHANGED <<requests, authRequests, tokens, lock, exchange, spent>>
        /\ callback[k].pc # "redirected"
        /\ \A i \in Codes \ {k} : callback'[i] = callback[i] /\ codes'[i] = codes[i]
    BY DEF CallbackLoad, CallbackStep, CallbackDone, CallbackClient, SaveAuthCode,
           StepCallback, storage, TypeOK
  <1>2. RequestInv' /\ SubjectWasPicked'
    BY <1>1 DEF RequestInv, SubjectWasPicked, Minted, Chosen
  <1>3. ExchangeInv'
    <2>1. \A e \in Exchanges : exchange[e].pc # "idle" =>
            callback'[exchange[e].code] = callback[exchange[e].code]
      BY <1>1 DEF ExchangeInv, TypeOK
    <2>2. \A e \in Exchanges :
            /\ exchange[e].pc \in Resolved => exchange[e].pc # "idle"
            /\ exchange[e].late => exchange[e].pc # "idle"
      BY DEF ExchangeInv, Resolved
    <2>3. UNCHANGED <<tokens, exchange, spent>> /\ \A e \in Exchanges : Minted(e)' = Minted(e)
      BY <1>1 DEF Minted
    <2> HIDE DEF IInv
    <2>4. ExchangeInv
      BY DEF IInv
    <2> QED BY <2>1, <2>2, <2>3, <2>4 DEF ExchangeInv
  <1>4. CallbackInv'
    <2> DEFINE Goal ==
          /\ callback'[k].pc = "client" =>
               requests[callback'[k].req].done \/ lock.req = callback'[k].req
          /\ callback'[k].pc \in {"save", "redirected"} => requests[callback'[k].req].done
          /\ codes'[k] # NoRequest =>
               codes'[k] = callback'[k].req /\ callback'[k].pc = "redirected"
    <2>1. SUFFICES Goal
      BY <1>1 DEF CallbackInv
    <2>2. codes[k] = NoRequest
      BY <1>1 DEF CallbackInv
    <2>3. ASSUME NEW r \in Requests, CallbackLoad(k, r) PROVE Goal
      BY <2>2, <2>3 DEF CallbackLoad, storage, TypeOK
    <2>4. CASE CallbackDone(k)
      <3>1. PICK done \in DoneSeen(callback[k].req) :
              StepCallback(k, IF done THEN "client" ELSE "failed")
        BY <2>4 DEF CallbackDone
      <3>2. callback[k].req \in Requests /\ requests[callback[k].req].done \in BOOLEAN
        BY <2>4 DEF CallbackDone, TypeOK, RequestType
      <3>3. /\ callback'[k].req = callback[k].req
            /\ callback'[k].pc = "failed"
                 \/ (callback'[k].pc = "client" /\ done)
        BY <3>1 DEF StepCallback, TypeOK, CallbackType
      <3>4. done => requests[callback[k].req].done \/ lock.req = callback[k].req
        BY <3>1 DEF DoneSeen
      <3> QED BY <2>2, <2>4, <3>3, <3>4 DEF CallbackDone, storage
    <2>5. CASE CallbackClient(k)
      <3>1. callback'[k].req = callback[k].req /\ callback'[k].pc \in {"failed", "save"}
        BY <2>5 DEF CallbackClient, StepCallback, TypeOK, CallbackType
      <3>2. callback[k].req \in Requests /\ lock.req = NoRequest
        BY <2>5 DEF CallbackClient, TypeOK, LockFree, Unlocked
      <3>3. requests[callback[k].req].done
        BY <2>5, <3>2, AuthCodeAssumption DEF CallbackClient, CallbackInv
      <3> QED BY <2>2, <2>5, <3>1, <3>3 DEF CallbackClient, storage
    <2>6. CASE SaveAuthCode(k)
      <3>1. callback'[k].req = callback[k].req /\ callback'[k].pc = "redirected"
        BY <2>6 DEF SaveAuthCode, StepCallback, TypeOK, CallbackType
      <3> QED BY <2>6, <3>1 DEF SaveAuthCode, CallbackInv, TypeOK
    <2> QED BY <2>3, <2>4, <2>5, <2>6 DEF CallbackStep
  <1> QED BY <1>2, <1>3, <1>4

(* An exchange that has only looked up its client (GetClientByClientID) has   *)
(* minted nothing; it is late exactly when its code's request is spent.       *)
LEMMA InvBegin ==
  ASSUME IInv, NEW e \in Exchanges, NEW c \in ClientIDs, NEW k \in Codes,
         GetClientByClientID(e, c, k)
  PROVE  RequestInv' /\ CallbackInv' /\ ExchangeInv' /\ SubjectWasPicked'
  <1> USE DEF IInv
  <1>1. /\ UNCHANGED <<requests, authRequests, codes, tokens, lock, callback, spent>>
        /\ \A f \in Exchanges \ {e} : exchange'[f] = exchange[f]
    BY DEF GetClientByClientID, storage, TypeOK
  <1>2. /\ exchange'[e].pc \in {"failed", "secret", "code"}
        /\ exchange'[e].code = k /\ callback[k].pc = "redirected"
        /\ exchange'[e].late = (callback[k].req \in spent)
        /\ exchange'[e].idSub = NoSubject
        /\ ~Minted(e)
    BY DEF GetClientByClientID, IdleExchange, TypeOK, ExchangeInv
  <1>3. RequestInv' /\ CallbackInv'
    BY <1>1 DEF RequestInv, CallbackInv, Chosen
  <1>4. ExchangeInv'
    <2>1. exchange'[e].pc \notin Resolved /\ ~Minted(e)'
      BY <1>1, <1>2 DEF Resolved, Minted
    <2>2. \A f \in Exchanges \ {e} : Minted(f)' = Minted(f)
      BY <1>1 DEF Minted
    <2> SUFFICES ASSUME NEW f \in Exchanges
                 PROVE  /\ exchange'[f].pc # "idle" => callback[exchange'[f].code].pc = "redirected"
                        /\ exchange'[f].pc \in Resolved =>
                             exchange'[f].req = callback[exchange'[f].code].req
                        /\ exchange'[f].late =>
                             /\ exchange'[f].pc \in {"secret", "code", "request", "failed"}
                             /\ callback[exchange'[f].code].req \in spent
                             /\ ~Minted(f)'
                        /\ exchange'[f].pc \in {"idle", "secret", "code"} =>
                             ~Minted(f)' /\ exchange'[f].idSub = NoSubject
                        /\ Minted(f)' \/ exchange'[f].idSub # NoSubject =>
                             exchange'[f].req \in Requests
      BY <1>1 DEF ExchangeInv
    <2>3. CASE f = e
      BY <1>2, <2>1, <2>3
    <2>4. CASE f # e
      BY <1>1, <2>2, <2>4 DEF ExchangeInv
    <2> QED BY <2>3, <2>4
  <1>5. SubjectWasPicked'
    BY <1>1, <1>2 DEF SubjectWasPicked, Minted, Chosen
  <1> QED BY <1>3, <1>4, <1>5

(* A step of an exchange leaves the other exchanges alone, and its own       *)
(* conjuncts of the invariant are all there is to show.                      *)
LEMMA ExchangeFrame ==
  ASSUME IInv, NEW e \in Exchanges,
         UNCHANGED <<requests, lock, callback>>, spent \subseteq spent',
         \A f \in Exchanges \ {e} : exchange'[f] = exchange[f] /\ tokens'[f] = tokens[f],
         exchange[e].pc # "idle",
         exchange'[e].pc # "idle",
         exchange'[e].pc \in {"secret", "code"} => ~Minted(e)' /\ exchange'[e].idSub = NoSubject,
         exchange'[e].code = exchange[e].code,
         exchange'[e].late = exchange[e].late,
         exchange'[e].pc \in Resolved => exchange'[e].req = callback[exchange'[e].code].req,
         Minted(e)' \/ exchange'[e].idSub # NoSubject => exchange'[e].req \in Requests,
         exchange'[e].late =>
           exchange'[e].pc \in {"secret", "code", "request", "failed"} /\ ~Minted(e)',
         Minted(e)' => tokens'[e].subject \in Chosen(exchange'[e].req),
         exchange'[e].idSub # NoSubject =>
           \/ exchange'[e].idSub \in Chosen(exchange'[e].req)
           \/ lock.req = exchange'[e].req /\ lock.subject = exchange'[e].idSub
  PROVE  ExchangeInv' /\ SubjectWasPicked'
  <1> USE DEF IInv
  <1>1. ExchangeInv'
    BY DEF ExchangeInv, Minted
  <1>2. SubjectWasPicked'
    <2> DEFINE Picked(f) ==
          /\ Minted(f) => tokens[f].subject \in Chosen(exchange[f].req)
          /\ exchange[f].idSub # NoSubject =>
               \/ exchange[f].idSub \in Chosen(exchange[f].req)
               \/ lock.req = exchange[f].req /\ lock.subject = exchange[f].idSub
    <2>1. Picked(e)'
      BY DEF Chosen
    <2>2. ASSUME NEW f \in Exchanges \ {e} PROVE Picked(f)'
      <3>1. Picked(f)
        BY DEF SubjectWasPicked
      <3>2. exchange'[f] = exchange[f] /\ tokens'[f] = tokens[f]
        BY <2>2
      <3>3. UNCHANGED <<requests, lock>>
        OBVIOUS
      <3> QED BY <3>1, <3>2, <3>3 DEF Minted, Chosen
    <2> QED BY <2>1, <2>2 DEF SubjectWasPicked
  <1> QED BY <1>1, <1>2

(* An exchange that holds its request holds one whose login is complete.     *)
LEMMA HeldRequest ==
  ASSUME IInv, NEW e \in Exchanges, exchange[e].pc \in Resolved
  PROVE  /\ exchange[e].req \in Requests
         /\ exchange[e].req = callback[exchange[e].code].req
         /\ requests[exchange[e].req].done
         /\ requests[exchange[e].req].userID \in Chosen(exchange[e].req)
  <1>1. exchange[e].pc # "idle"
    BY DEF Resolved
  <1>2. callback[exchange[e].code].pc = "redirected" /\ exchange[e].code \in Codes
    BY <1>1 DEF IInv, ExchangeInv, TypeOK
  <1>3. exchange[e].req \in Requests /\ exchange[e].req = callback[exchange[e].code].req
    BY DEF IInv, ExchangeInv, TypeOK
  <1>4. requests[exchange[e].req].done
    BY <1>2, <1>3 DEF IInv, CallbackInv
  <1>5. requests[exchange[e].req].userID \in Chosen(exchange[e].req)
    BY <1>3, <1>4 DEF IInv, RequestInv
  <1> QED BY <1>3, <1>4, <1>5

(* What an exchange's own step leaves alone (its code, whether it came late) *)
(* and where it may go.                                                      *)
OwnStep(e) ==
  /\ UNCHANGED <<requests, lock, callback>>
  /\ \A f \in Exchanges \ {e} : exchange'[f] = exchange[f] /\ tokens'[f] = tokens[f]
  /\ exchange[e].pc # "idle"
  /\ exchange'[e].pc \notin {"idle", "secret"}
  /\ exchange'[e].pc = "code" => exchange[e].pc = "secret"
  /\ exchange'[e].code = exchange[e].code
  /\ exchange'[e].late = exchange[e].late
  /\ exchange[e].pc # "code" => exchange'[e].req = exchange[e].req
  /\ exchange[e].pc # "userinfo" => exchange'[e].idSub = exchange[e].idSub
  /\ exchange[e].pc \notin {"mint", "mint both"} => tokens'[e] = tokens[e]

(* Every storage call of an exchange is an OwnStep: it writes that exchange's *)
(* token and progress, and never a request, the lock or another handler.      *)
LEMMA ExchangeEffect ==
  ASSUME TypeOK, NEW e \in Exchanges, ExchangeStep(e)
  PROVE  OwnStep(e)
  <1> USE DEF TypeOK, ExchangeType, StepExchange, storage, OwnStep
  <1>1. ASSUME NEW right \in BOOLEAN, AuthorizeClientIDSecret(e, right) PROVE OwnStep(e)
    BY <1>1 DEF AuthorizeClientIDSecret
  <1>2. ASSUME NEW right \in BOOLEAN, ValidateExchange(e, right) PROVE OwnStep(e)
    BY <1>2 DEF ValidateExchange
  <1>3. CASE AuthRequestByCode(e)
    BY <1>3 DEF AuthRequestByCode
  <1>4. CASE AuthRequestByID(e)
    BY <1>4 DEF AuthRequestByID
  <1>5. CASE CreateAccessToken(e)
    BY <1>5 DEF CreateAccessToken
  <1>6. CASE InfoFromRequest(e)
    <2>1. PICK t : exchange' = [exchange EXCEPT ![e].pc = "mint both", ![e].authTime = t]
      BY <1>6 DEF InfoFromRequest
    <2>2. UNCHANGED <<requests, tokens, lock, callback>> /\ exchange[e].pc = "info"
      BY <1>6 DEF InfoFromRequest
    <2>3. /\ \A f \in Exchanges \ {e} : exchange'[f] = exchange[f]
          /\ exchange'[e] = [exchange[e] EXCEPT !.pc = "mint both", !.authTime = t]
      BY <2>1
    <2>4. \A x \in ExchangeType :
             LET y == [x EXCEPT !.pc = "mint both", !.authTime = t]
             IN /\ y.pc = "mint both" /\ y.code = x.code /\ y.late = x.late
                /\ y.req = x.req /\ y.idSub = x.idSub
      OBVIOUS
    <2> QED BY <2>2, <2>3, <2>4
  <1>7. CASE CreateAccessAndRefreshTokens(e)
    <2>1. /\ StepExchange(e, "userinfo") /\ exchange[e].pc = "mint both"
          /\ UNCHANGED <<requests, lock, callback>>
          /\ \A f \in Exchanges \ {e} : tokens'[f] = tokens[f]
      BY <1>7 DEF CreateAccessAndRefreshTokens
    <2>2. /\ exchange'[e] = [exchange[e] EXCEPT !.pc = "userinfo"]
          /\ \A f \in Exchanges \ {e} : exchange'[f] = exchange[f]
      BY <2>1, MoveEffect
    <2>3. \A x \in ExchangeType :
             LET y == [x EXCEPT !.pc = "userinfo"]
             IN /\ y.pc = "userinfo" /\ y.code = x.code /\ y.late = x.late
                /\ y.req = x.req /\ y.idSub = x.idSub
      OBVIOUS
    <2> QED BY <2>1, <2>2, <2>3
  <1>8. CASE SetUserinfoFromRequest(e)
    BY <1>8 DEF SetUserinfoFromRequest
  <1>9. CASE AllClientIDs(e)
    BY <1>9 DEF AllClientIDs
  <1>10. CASE DeleteAuthRequest(e)
    BY <1>10 DEF DeleteAuthRequest
  <1> QED
    BY <1>1, <1>2, <1>3, <1>4, <1>5, <1>6, <1>7, <1>8, <1>9, <1>10 DEF ExchangeStep

(* The step that resolves the code: what AuthRequestByCode finds under a     *)
(* code is the request of the callback that saved it.                        *)
LEMMA InvResolve ==
  ASSUME IInv, NEW e \in Exchanges, AuthRequestByCode(e)
  PROVE  ExchangeInv' /\ SubjectWasPicked'
  <1>1. OwnStep(e)
    BY ExchangeEffect DEF IInv, ExchangeStep
  <1>2. exchange[e].code \in Codes /\ ~Minted(e) /\ exchange[e].idSub = NoSubject
    BY DEF IInv, TypeOK, ExchangeInv, AuthRequestByCode
  <1>3. /\ exchange'[e].pc \in {"request", "failed"}
        /\ exchange'[e].pc = "request" => exchange'[e].req = callback[exchange[e].code].req
    BY <1>2 DEF IInv, TypeOK, ExchangeType, CallbackInv, StepExchange, AuthRequestByCode
  <1>4. ~Minted(e)' /\ exchange'[e].idSub = NoSubject /\ spent' = spent
    BY <1>1, <1>2 DEF OwnStep, AuthRequestByCode, Minted
  <1> QED BY <1>1, <1>3, <1>4, ExchangeFrame DEF OwnStep, Resolved

(* The step that loads the request: one that was spent is not there.         *)
LEMMA InvLoad ==
  ASSUME IInv, NEW e \in Exchanges, AuthRequestByID(e)
  PROVE  ExchangeInv' /\ SubjectWasPicked'
  <1>1. OwnStep(e)
    BY ExchangeEffect DEF IInv, ExchangeStep
  <1>2. exchange[e].pc = "request" /\ exchange[e].pc \in Resolved
    BY DEF AuthRequestByID, Resolved, ExchangePCs
  <1>3. exchange[e].req \in Requests /\ exchange[e].req = callback[exchange[e].code].req
    BY <1>2, HeldRequest
  <1>4. /\ exchange'[e].pc \in {"validate", "failed"}
        /\ exchange'[e].pc = "validate" => exchange[e].req \in authRequests
    BY DEF IInv, TypeOK, ExchangeType, StepExchange, AuthRequestByID
  <1>5. exchange[e].late => exchange[e].req \notin authRequests /\ ~Minted(e)
    BY <1>3 DEF IInv, ExchangeInv, RequestInv
  <1>6. /\ exchange'[e].req = exchange[e].req /\ exchange'[e].idSub = exchange[e].idSub
        /\ Minted(e)' = Minted(e) /\ spent' = spent
        /\ tokens'[e] = tokens[e]
    BY <1>1, <1>2 DEF OwnStep, Minted, AuthRequestByID
  <1>7. /\ Minted(e) => tokens[e].subject \in Chosen(exchange[e].req)
        /\ exchange[e].idSub # NoSubject =>
             \/ exchange[e].idSub \in Chosen(exchange[e].req)
             \/ lock.req = exchange[e].req /\ lock.subject = exchange[e].idSub
    BY DEF IInv, SubjectWasPicked
  <1> QED
    BY <1>1, <1>3, <1>4, <1>5, <1>6, <1>7, ExchangeFrame DEF OwnStep

(* Every other step of an exchange that mints nothing and reads no subject.  *)
LEMMA InvQuiet ==
  ASSUME IInv, NEW e \in Exchanges,
         \/ \E right \in BOOLEAN : AuthorizeClientIDSecret(e, right)
         \/ \E right \in BOOLEAN : ValidateExchange(e, right)
         \/ InfoFromRequest(e) \/ AllClientIDs(e) \/ DeleteAuthRequest(e)
  PROVE  ExchangeInv' /\ SubjectWasPicked'
  <1>1. OwnStep(e)
    BY ExchangeEffect DEF IInv, ExchangeStep
  <1>2. /\ exchange[e].pc \in {"secret", "validate", "info", "apps", "delete"}
        /\ spent \subseteq spent'
    BY DEF AuthorizeClientIDSecret, ValidateExchange, InfoFromRequest, AllClientIDs,
           DeleteAuthRequest
  <1>3. /\ exchange'[e].req = exchange[e].req /\ exchange'[e].idSub = exchange[e].idSub
        /\ Minted(e)' = Minted(e)
    BY <1>1, <1>2 DEF OwnStep, Minted
  <1>4. CASE exchange[e].pc = "secret"
    <2>1. exchange'[e].pc \in {"code", "failed"}
      BY <1>4 DEF AuthorizeClientIDSecret, ValidateExchange, InfoFromRequest, AllClientIDs,
                  DeleteAuthRequest, IInv, TypeOK, ExchangeType, StepExchange
    <2>2. ~Minted(e) /\ exchange[e].idSub = NoSubject
      BY <1>4 DEF IInv, ExchangeInv
    <2> QED BY <1>1, <1>2, <1>3, <2>1, <2>2, ExchangeFrame DEF OwnStep, Resolved
  <1>5. CASE exchange[e].pc # "secret"
    <2>1. exchange[e].pc \in Resolved
      BY <1>2, <1>5 DEF Resolved, ExchangePCs
    <2>2. ~exchange[e].late
      BY <1>2, <1>5 DEF IInv, ExchangeInv
    <2>3. exchange[e].req \in Requests /\ exchange[e].req = callback[exchange[e].code].req
      BY <2>1, HeldRequest
    <2>4. /\ Minted(e) => tokens[e].subject \in Chosen(exchange[e].req)
          /\ exchange[e].idSub # NoSubject =>
               \/ exchange[e].idSub \in Chosen(exchange[e].req)
               \/ lock.req = exchange[e].req /\ lock.subject = exchange[e].idSub
      BY DEF IInv, SubjectWasPicked
    <2>5. tokens'[e] = tokens[e]
      BY <1>1, <1>2 DEF OwnStep
    <2>6. exchange'[e].pc \notin {"secret", "code"}
      BY <1>1, <1>5 DEF OwnStep
    <2> QED
      BY <1>1, <1>2, <1>3, <2>2, <2>3, <2>4, <2>5, <2>6, ExchangeFrame DEF OwnStep
  <1> QED BY <1>4, <1>5

(* Minting: the subject is read under the lock, from a request whose login   *)
(* is complete.                                                              *)
LEMMA InvMint ==
  ASSUME IInv, NEW e \in Exchanges,
         CreateAccessToken(e) \/ CreateAccessAndRefreshTokens(e)
  PROVE  ExchangeInv' /\ SubjectWasPicked'
  <1>1. OwnStep(e)
    BY ExchangeEffect DEF IInv, ExchangeStep
  <1>2. exchange[e].pc \in {"mint", "mint both"} /\ exchange[e].pc \in Resolved
    BY DEF CreateAccessToken, CreateAccessAndRefreshTokens, Resolved, ExchangePCs
  <1>3. /\ exchange[e].req \in Requests /\ exchange[e].req = callback[exchange[e].code].req
        /\ requests[exchange[e].req].userID \in Chosen(exchange[e].req)
    BY <1>2, HeldRequest
  <1>4. /\ tokens'[e].subject = requests[exchange[e].req].userID
        /\ exchange'[e].pc = "userinfo" /\ spent' = spent
    <2>1. /\ StepExchange(e, "userinfo") /\ spent' = spent
          /\ tokens' = [tokens EXCEPT ![e] = [client |-> requests[exchange[e].req].client,
                                              subject |-> requests[exchange[e].req].userID]]
      BY DEF CreateAccessToken, CreateAccessAndRefreshTokens
    <2>2. exchange'[e].pc = "userinfo"
      BY <2>1, MoveEffect DEF IInv
    <2>3. e \in DOMAIN tokens
      BY DEF IInv, TypeOK
    <2> QED BY <2>1, <2>2, <2>3
  <1>5. ~exchange[e].late
    BY <1>2 DEF IInv, ExchangeInv
  <1>6. exchange'[e].req = exchange[e].req /\ exchange'[e].idSub = exchange[e].idSub
    BY <1>1, <1>2 DEF OwnStep
  <1>7. exchange[e].idSub # NoSubject =>
          \/ exchange[e].idSub \in Chosen(exchange[e].req)
          \/ lock.req = exchange[e].req /\ lock.subject = exchange[e].idSub
    BY DEF IInv, SubjectWasPicked
  <1> QED
    BY <1>1, <1>3, <1>4, <1>5, <1>6, <1>7, ExchangeFrame DEF OwnStep

(* Reading the id_token's subject without the lock: what is read is the      *)
(* picked user, or the one a login in progress is writing.                   *)
LEMMA InvUserinfo ==
  ASSUME IInv, NEW e \in Exchanges, SetUserinfoFromRequest(e)
  PROVE  ExchangeInv' /\ SubjectWasPicked'
  <1>1. OwnStep(e)
    BY ExchangeEffect DEF IInv, ExchangeStep
  <1>2. exchange[e].pc = "userinfo" /\ exchange[e].pc \in Resolved
    BY DEF SetUserinfoFromRequest, Resolved, ExchangePCs
  <1>3. /\ exchange[e].req \in Requests /\ exchange[e].req = callback[exchange[e].code].req
        /\ requests[exchange[e].req].userID \in Chosen(exchange[e].req)
    BY <1>2, HeldRequest
  <1>4. /\ exchange'[e].req = exchange[e].req /\ Minted(e)' = Minted(e) /\ spent' = spent
        /\ tokens'[e] = tokens[e]
    BY <1>1, <1>2 DEF OwnStep, Minted, SetUserinfoFromRequest
  <1>5. PICK s \in SubjectSeen(exchange[e].req) :
          IF s \in Subjects
          THEN exchange' = [exchange EXCEPT ![e].pc = "apps", ![e].idSub = s]
          ELSE StepExchange(e, "failed")
    BY DEF SetUserinfoFromRequest
  <1>6. \/ exchange'[e].idSub = exchange[e].idSub
        \/ exchange'[e].idSub = s /\ s \in Subjects
    BY <1>5 DEF IInv, TypeOK, ExchangeType, StepExchange
  <1>7. exchange'[e].pc \in {"apps", "failed"}
    BY <1>5 DEF IInv, TypeOK, ExchangeType, StepExchange
  <1>8. s \in Subjects =>
          \/ s \in Chosen(exchange[e].req)
          \/ lock.req = exchange[e].req /\ lock.subject = s
    BY <1>3, <1>5, AuthCodeAssumption DEF SubjectSeen
  <1>9. ~exchange[e].late
    BY <1>2 DEF IInv, ExchangeInv
  <1>10. exchange'[e].idSub # NoSubject =>
           \/ exchange'[e].idSub \in Chosen(exchange[e].req)
           \/ lock.req = exchange[e].req /\ lock.subject = exchange'[e].idSub
    BY <1>6, <1>8 DEF IInv, SubjectWasPicked
  <1> QED
    BY <1>1, <1>3, <1>4, <1>7, <1>9, <1>10, ExchangeFrame DEF OwnStep, IInv, SubjectWasPicked

(* Every step of every handler, login and hot reload preserves IInv.          *)
LEMMA InvNext == IInv /\ [Next]_vars => IInv'
  <1> SUFFICES ASSUME IInv, [Next]_vars PROVE IInv'
    OBVIOUS
  <1>1. TypeOK'
    BY TypeNext DEF IInv
  <1>2. CASE UNCHANGED vars
    <2>1. RequestInv' /\ CallbackInv' /\ ExchangeInv' /\ SubjectWasPicked'
      BY <1>2 DEF vars, storage, IInv, RequestInv, CallbackInv, ExchangeInv, SubjectWasPicked,
                  Minted, Chosen
    <2> QED BY <1>1, <2>1 DEF IInv
  <1>3. ASSUME NEW e \in Exchanges, ExchangeStep(e) PROVE IInv'
    <2>1. ExchangeInv' /\ SubjectWasPicked'
      BY <1>3, InvResolve, InvLoad, InvQuiet, InvMint, InvUserinfo DEF ExchangeStep
    <2>2. OwnStep(e)
      BY <1>3, ExchangeEffect DEF IInv
    <2>3. CASE DeleteAuthRequest(e)
      <3>1. exchange[e].pc \in Resolved
        BY <2>3 DEF DeleteAuthRequest, Resolved, ExchangePCs
      <3>2. exchange[e].req \in Requests /\ requests[exchange[e].req].done
        BY <3>1, HeldRequest
      <3>3. requests[exchange[e].req] # Unborn
        BY <3>2 DEF Unborn
      <3>4. /\ authRequests' = authRequests \ {exchange[e].req}
            /\ spent' = spent \cup {exchange[e].req}
            /\ \A k \in Codes : codes'[k] \in {codes[k], NoRequest}
        BY <2>3 DEF DeleteAuthRequest
      <3>5. RequestInv'
        <4>1. requests' = requests
          BY <2>2 DEF OwnStep
        <4>2. \A r \in Requests : Chosen(r)' = Chosen(r)
          BY <4>1 DEF Chosen
        <4> QED BY <3>3, <3>4, <4>1, <4>2 DEF IInv, RequestInv
      <3>6. CallbackInv'
        BY <2>2, <3>4 DEF OwnStep, IInv, CallbackInv
      <3> QED BY <1>1, <2>1, <3>5, <3>6 DEF IInv
    <2>4. CASE ~DeleteAuthRequest(e)
      <3>1. UNCHANGED <<authRequests, codes, spent>>
        BY <1>3, <2>4
        DEF ExchangeStep, AuthorizeClientIDSecret, AuthRequestByCode, AuthRequestByID,
            ValidateExchange, CreateAccessToken, InfoFromRequest,
            CreateAccessAndRefreshTokens, SetUserinfoFromRequest, AllClientIDs, storage
      <3>2. UNCHANGED <<requests, lock, callback>>
        BY <2>2 DEF OwnStep
      <3>3. RequestInv'
        BY <3>1, <3>2 DEF IInv, RequestInv, Chosen
      <3>4. CallbackInv'
        BY <3>1, <3>2 DEF IInv, CallbackInv
      <3> QED BY <1>1, <2>1, <3>3, <3>4 DEF IInv
    <2> QED BY <2>3, <2>4
  <1>4. CASE Next
    <2>1. ASSUME \/ \E f \in Registries : Reload(f)
                 \/ \E r \in Requests, c \in ClientIDs, challenge \in Presented, hint \in Hints :
                      CreateAuthRequest(r, c, challenge, hint)
                 \/ \E r \in Requests, s \in Subjects : BeginLogin(r, s)
          PROVE  IInv'
      BY <1>1, <2>1, InvLogin DEF IInv
    <2>2. ASSUME NEW r \in Requests, EndLogin(r) PROVE IInv'
      BY <1>1, <2>2, InvEndLogin DEF IInv
    <2>3. ASSUME NEW k \in Codes, (\E r \in Requests : CallbackLoad(k, r)) \/ CallbackStep(k)
          PROVE  IInv'
      BY <1>1, <2>3, InvCallback DEF IInv
    <2>4. ASSUME NEW e \in Exchanges, NEW c \in ClientIDs, NEW k \in Codes,
                 GetClientByClientID(e, c, k)
          PROVE  IInv'
      BY <1>1, <2>4, InvBegin DEF IInv
    <2> QED BY <1>3, <1>4, <2>1, <2>2, <2>3, <2>4 DEF Next
  <1> QED BY <1>2, <1>4

(* IInv holds in every reachable state of the authorization-code grant: what  *)
(* a code, a held request and a minted token may rely on between two calls.   *)
THEOREM InductiveInvariant == Spec => []IInv
  BY InvInit, InvNext, PTL DEF Spec

(* A code is only ever kept for a request whose login is complete, although  *)
(* the callback reads Done without the lock.                                 *)
THEOREM CodesFollowLogins == Spec => []CodeAfterLogin
  <1>1. IInv => CodeAfterLogin
    <2> SUFFICES ASSUME IInv, NEW k \in Codes, codes[k] # NoRequest
                 PROVE  requests[codes[k]].done /\ requests[codes[k]].userID \in Chosen(codes[k])
      BY DEF CodeAfterLogin
    <2>1. codes[k] \in Requests /\ codes[k] = callback[k].req /\ callback[k].pc = "redirected"
      BY DEF IInv, TypeOK, CallbackInv
    <2>2. requests[codes[k]].done
      BY <2>1 DEF IInv, CallbackInv
    <2> QED BY <2>1, <2>2 DEF IInv, RequestInv
  <1> QED BY InductiveInvariant, <1>1, PTL

(* Every token and every id_token names an identity picked on the login page *)
(* of its own request, in every interleaving of logins and exchanges.        *)
THEOREM SubjectsArePicked == Spec => []SubjectWasPicked
  <1>1. IInv => SubjectWasPicked
    BY DEF IInv
  <1> QED BY InductiveInvariant, <1>1, PTL

(* No exchange that began after its request was redeemed ever mints a token. *)
THEOREM NothingLateIsMinted == Spec => []NoLateRedemption
  <1>1. IInv => NoLateRedemption
    BY DEF IInv, ExchangeInv, NoLateRedemption
  <1> QED BY InductiveInvariant, <1>1, PTL

CodeLost(k) ==
  codes[k] # NoRequest /\ codes'[k] # codes[k] =>
    /\ codes'[k] = NoRequest
    /\ codes[k] \notin authRequests'
    /\ \E e \in Exchanges : exchange[e].req = codes[k] /\ exchange'[e].pc = "answered"

(* SaveAuthCode writes under a code nobody holds yet, so the only step that  *)
(* takes a code away is the DeleteAuthRequest that ends an exchange.         *)
LEMMA LostByDelete ==
  ASSUME IInv, Next, NEW k \in Codes
  PROVE  CodeLost(k)
  <1>1. CASE \E e \in Exchanges : DeleteAuthRequest(e)
    <2>1. PICK e \in Exchanges : DeleteAuthRequest(e)
      BY <1>1
    <2>2. /\ codes'[k] = IF codes[k] = exchange[e].req THEN NoRequest ELSE codes[k]
          /\ authRequests' = authRequests \ {exchange[e].req}
      BY <2>1 DEF DeleteAuthRequest
    <2>3. exchange'[e].pc = "answered"
      BY <2>1 DEF DeleteAuthRequest, StepExchange, IInv, TypeOK, ExchangeType
    <2> QED BY <2>2, <2>3 DEF CodeLost
  <1>2. CASE \E q \in Codes : SaveAuthCode(q)
    <2>1. PICK q \in Codes : SaveAuthCode(q)
      BY <1>2
    <2>2. callback[q].pc = "save" /\ codes' = [codes EXCEPT ![q] = callback[q].req]
      BY <2>1 DEF SaveAuthCode
    <2>3. codes[k] # NoRequest => k # q
      BY <2>2 DEF IInv, CallbackInv
    <2>4. codes \in [Codes -> Requests \cup {NoRequest}]
      BY DEF IInv, TypeOK
    <2> QED BY <2>2, <2>3, <2>4 DEF CodeLost
  <1>3. CASE /\ \A e \in Exchanges : ~DeleteAuthRequest(e)
             /\ \A q \in Codes : ~SaveAuthCode(q)
    <2>1. UNCHANGED codes
      BY <1>3
      DEF Next, Reload, CreateAuthRequest, BeginLogin, EndLogin, CallbackLoad, CallbackStep,
          CallbackDone, CallbackClient, GetClientByClientID, ExchangeStep,
          AuthorizeClientIDSecret, AuthRequestByCode, AuthRequestByID, ValidateExchange,
          CreateAccessToken, InfoFromRequest, CreateAccessAndRefreshTokens,
          SetUserinfoFromRequest, AllClientIDs, storage
    <2> QED BY <2>1 DEF CodeLost
  <1> QED BY <1>1, <1>2, <1>3

(* A code stops working only because an exchange of its own request was      *)
(* answered: a refused exchange, another login or a hot reload leaves it.    *)
THEOREM CodesAreLostByAnswers == Spec => CodeLostOnlyByAnswer
  <1>1. IInv /\ [Next]_vars =>
          [\A k \in Codes : codes[k] # NoRequest /\ codes'[k] # codes[k] =>
             /\ codes'[k] = NoRequest
             /\ codes[k] \notin authRequests'
             /\ \E e \in Exchanges :
                  exchange[e].req = codes[k] /\ exchange'[e].pc = "answered"]_vars
    BY LostByDelete DEF CodeLost
  <1> QED BY InductiveInvariant, <1>1, PTL DEF Spec, CodeLostOnlyByAnswer
=============================================================================
