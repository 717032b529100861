-------------------------- MODULE AuthCodeRefinement --------------------------
(* The authorization-code grant implements Authorization: every step of its  *)
(* handlers is a step of the abstract grant or leaves the abstract state as  *)
(* it was, for every set of requests, codes, exchanges and identities.       *)
EXTENDS AuthCodeProofs

(* The abstract state at one request and at one exchange.                    *)
Picked(r) == Chosen(r) \cup (IF lock.req = r THEN {lock.subject} ELSE {})
Holds(e) ==
  IF exchange[e].pc = "idle" THEN NoRequest ELSE callback[exchange[e].code].req
Names(e) == {tokens[e].subject, exchange[e].idSub} \ {NoSubject}

(* The steps before an exchange has minted its token.                        *)
Unminted == {"idle", "secret", "code", "request", "validate", "info", "mint", "mint both"}

(* A token is minted once and an id_token's subject read once: the abstract  *)
(* handler adds to the names it has handed out and never takes one back.     *)
FreshInv ==
  \A e \in Exchanges :
    /\ exchange[e].pc \in Unminted => tokens[e] = NoToken
    /\ exchange[e].pc \in Unminted \cup {"userinfo"} => exchange[e].idSub = NoSubject
-----------------------------------------------------------------------------
(* Which step follows which: an exchange never goes back to one before its   *)
(* token, and only minting leads to the read of the id_token's subject.      *)
LEMMA StepOrder ==
  ASSUME TypeOK, NEW e \in Exchanges, ExchangeStep(e)
  PROVE  /\ exchange'[e].pc \in Unminted => exchange[e].pc \in Unminted \ {"mint", "mint both"}
         /\ exchange'[e].pc = "userinfo" => exchange[e].pc \in {"mint", "mint both"}
  <1> USE DEF Unminted
  <1>x. exchange[e] \in ExchangeType /\ e \in DOMAIN exchange
    BY DEF TypeOK
  <1>1. CASE \E right \in BOOLEAN : AuthorizeClientIDSecret(e, right)
    BY <1>1, <1>x DEF AuthorizeClientIDSecret, StepExchange, ExchangeType
  <1>2. CASE AuthRequestByCode(e)
    BY <1>2, <1>x DEF AuthRequestByCode, StepExchange, ExchangeType
  <1>3. CASE AuthRequestByID(e)
    BY <1>3, <1>x DEF AuthRequestByID, StepExchange, ExchangeType
  <1>4. CASE \E right \in BOOLEAN : ValidateExchange(e, right)
    BY <1>4, <1>x DEF ValidateExchange, StepExchange, ExchangeType
  <1>5. CASE CreateAccessToken(e)
    BY <1>5, <1>x DEF CreateAccessToken, StepExchange, ExchangeType
  <1>6. CASE InfoFromRequest(e)
    BY <1>6, <1>x DEF InfoFromRequest, ExchangeType
  <1>7. CASE CreateAccessAndRefreshTokens(e)
    <2>1. StepExchange(e, "userinfo") /\ exchange[e].pc = "mint both"
      BY <1>7 DEF CreateAccessAndRefreshTokens
    <2>2. exchange'[e].pc = "userinfo"
      BY <2>1, MoveEffect
    <2> QED BY <2>1, <2>2
  <1>8. CASE SetUserinfoFromRequest(e)
    <2>1. PICK s : IF s \in Subjects
                   THEN exchange' = [exchange EXCEPT ![e].pc = "apps", ![e].idSub = s]
                   ELSE StepExchange(e, "failed")
      BY <1>8 DEF SetUserinfoFromRequest
    <2>2. exchange'[e].pc \in {"apps", "failed"}
      BY <2>1, <1>x DEF StepExchange, ExchangeType
    <2> QED BY <2>2
  <1>9. CASE AllClientIDs(e)
    BY <1>9, <1>x DEF AllClientIDs, ExchangeType
  <1>10. CASE DeleteAuthRequest(e)
    BY <1>10, <1>x DEF DeleteAuthRequest, StepExchange, ExchangeType
  <1> QED
    BY <1>1, <1>2, <1>3, <1>4, <1>5, <1>6, <1>7, <1>8, <1>9, <1>10 DEF ExchangeStep

(* The abstract variables, and the abstract steps in terms of them.          *)
PickedFn == [r \in Requests |-> Picked(r)]
HoldsFn == [e \in Exchanges |-> Holds(e)]
LateFn == [e \in Exchanges |-> exchange[e].late]
NamesFn == [e \in Exchanges |-> Names(e)]

(* Initial states and stutters, in these terms.                              *)
LEMMA AbstractState ==
  /\ Promise!Init <=> /\ PickedFn = [r \in Requests |-> {}]
                      /\ spent = {}
                      /\ HoldsFn = [e \in Exchanges |-> NoRequest]
                      /\ LateFn = [e \in Exchanges |-> FALSE]
                      /\ NamesFn = [e \in Exchanges |-> {}]
  /\ UNCHANGED Promise!vars <=> UNCHANGED <<PickedFn, spent, HoldsFn, LateFn, NamesFn>>
  BY DEF Promise!Init, Promise!vars, PickedFn, HoldsFn, LateFn, NamesFn, Picked, Holds, Names

(* A request is answered for (DeleteAuthRequest).                            *)
LEMMA AbstractClose ==
  ASSUME NEW r \in Requests,
         spent' = spent \cup {r},
         UNCHANGED <<PickedFn, HoldsFn, LateFn, NamesFn>>
  PROVE  Promise!Next
  <1>1. Promise!Close(r)
    BY Zenon
    DEF Promise!Close, PickedFn, HoldsFn, LateFn, NamesFn, Picked, Holds, Names
  <1> QED BY <1>1 DEF Promise!Next

(* Somebody is picked (CompleteAuthRequest takes the lock).                  *)
LEMMA AbstractPick ==
  ASSUME NEW r \in Requests, NEW s \in Subjects,
         PickedFn' = [PickedFn EXCEPT ![r] = @ \cup {s}],
         UNCHANGED <<spent, HoldsFn, LateFn, NamesFn>>
  PROVE  Promise!Next
  <1>1. Promise!Pick(r, s)
    BY Zenon
    DEF Promise!Pick, PickedFn, HoldsFn, LateFn, NamesFn, Picked, Holds, Names
  <1> QED BY <1>1 DEF Promise!Next

(* An exchange begins with a code, and so a request.                         *)
LEMMA AbstractBegin ==
  ASSUME NEW e \in Exchanges, NEW r \in Requests,
         HoldsFn[e] = NoRequest,
         HoldsFn' = [HoldsFn EXCEPT ![e] = r],
         LateFn' = [LateFn EXCEPT ![e] = r \in spent],
         UNCHANGED <<PickedFn, spent, NamesFn>>
  PROVE  Promise!Next
  <1>1. Promise!Begin(e, r)
    BY Zenon
    DEF Promise!Begin, PickedFn, HoldsFn, LateFn, NamesFn, Picked, Holds, Names
  <1> QED BY <1>1 DEF Promise!Next

(* An exchange names a subject in a token.                                   *)
LEMMA AbstractName ==
  ASSUME NEW e \in Exchanges, NEW s \in Subjects,
         HoldsFn[e] # NoRequest, ~LateFn[e], s \in PickedFn[HoldsFn[e]],
         NamesFn' = [NamesFn EXCEPT ![e] = @ \cup {s}],
         UNCHANGED <<PickedFn, spent, HoldsFn, LateFn>>
  PROVE  Promise!Next
  <1>1. Promise!Name(e, s)
    BY Zenon
    DEF Promise!Name, PickedFn, HoldsFn, LateFn, NamesFn, Picked, Holds, Names
  <1> QED BY <1>1 DEF Promise!Next
-----------------------------------------------------------------------------
(* What a step that is no exchange's leaves of every exchange.               *)
Kept(e) ==
  /\ exchange'[e].pc = exchange[e].pc /\ exchange'[e].code = exchange[e].code
  /\ exchange'[e].late = exchange[e].late /\ exchange'[e].idSub = exchange[e].idSub

(* No step but its own mints an exchange's token, moves it on or reads for it. *)
LEMMA OtherFrame ==
  ASSUME TypeOK, OtherStep
  PROVE  UNCHANGED <<tokens, spent>> /\ \A e \in Exchanges : Kept(e)
  BY OtherEffect, DisturbedType DEF TypeOK, Kept

(* An exchange that begins holds no token, and touches no other exchange.    *)
LEMMA BeginFrame ==
  ASSUME TypeOK, NEW e \in Exchanges, NEW c \in ClientIDs, NEW k \in Codes,
         GetClientByClientID(e, c, k)
  PROVE  /\ exchange[e].pc = "idle" /\ callback[k].pc = "redirected"
         /\ exchange'[e].pc \in {"failed", "secret", "code"}
         /\ exchange'[e].code = k /\ exchange'[e].idSub = NoSubject
         /\ exchange'[e].late = (callback[k].req \in spent)
         /\ \A f \in Exchanges \ {e} : exchange'[f] = exchange[f]
         /\ UNCHANGED <<requests, tokens, lock, callback, spent>>
  BY DEF GetClientByClientID, IdleExchange, TypeOK, storage

(* No step but its own mints an exchange's token or reads its subject.       *)
LEMMA FreshNext == IInv /\ FreshInv /\ [Next]_vars => FreshInv'
  <1> SUFFICES ASSUME IInv, FreshInv, [Next]_vars PROVE FreshInv'
    OBVIOUS
  <1>t. TypeOK
    BY DEF IInv
  <1>1. CASE UNCHANGED vars
    BY <1>1 DEF vars, storage, FreshInv
  <1>2. CASE OtherStep
    BY <1>2, <1>t, OtherFrame DEF FreshInv, Kept
  <1>3. ASSUME NEW e \in Exchanges, NEW c \in ClientIDs, NEW k \in Codes,
               GetClientByClientID(e, c, k)
        PROVE  FreshInv'
    <2>1. tokens[e] = NoToken
      BY <1>3, <1>t, BeginFrame DEF FreshInv, Unminted
    <2> QED BY <1>3, <1>t, <2>1, BeginFrame DEF FreshInv
  <1>4. ASSUME NEW e \in Exchanges, ExchangeStep(e) PROVE FreshInv'
    <2>1. OwnStep(e)
      BY <1>4, <1>t, ExchangeEffect
    <2>2. /\ exchange'[e].pc \in Unminted => exchange[e].pc \in Unminted \ {"mint", "mint both"}
          /\ exchange'[e].pc = "userinfo" => exchange[e].pc \in {"mint", "mint both"}
      BY <1>4, <1>t, StepOrder
    <2>3. exchange'[e].pc \in Unminted => tokens'[e] = NoToken /\ exchange'[e].idSub = NoSubject
      BY <2>1, <2>2 DEF OwnStep, FreshInv, Unminted
    <2>4. exchange'[e].pc = "userinfo" => exchange'[e].idSub = NoSubject
      BY <2>1, <2>2 DEF OwnStep, FreshInv, Unminted
    <2>5. \A f \in Exchanges \ {e} : exchange'[f] = exchange[f] /\ tokens'[f] = tokens[f]
      BY <2>1 DEF OwnStep
    <2> QED BY <2>3, <2>4, <2>5 DEF FreshInv
  <1> QED BY <1>1, <1>2, <1>3, <1>4 DEF Next, OtherStep

(* Nothing is minted when the OP starts.                                     *)
LEMMA FreshInit == Init => FreshInv
  BY DEF Init, FreshInv, IdleExchange
-----------------------------------------------------------------------------
(* Steps of the registry, of logins and of callbacks, seen from above: the    *)
(* request an exchange redeems is that of a callback that is over.           *)
LEMMA OtherHolds ==
  ASSUME IInv, OtherStep
  PROVE  UNCHANGED <<spent, HoldsFn, LateFn, NamesFn>>
  <1>t. TypeOK
    BY DEF IInv
  <1>1. \A k \in Codes : callback[k].pc = "redirected" => callback'[k] = callback[k]
    BY <1>t
    DEF OtherStep, Reload, CreateAuthRequest, BeginLogin, EndLogin, CallbackLoad, CallbackStep,
        CallbackDone, CallbackClient, SaveAuthCode, StepCallback, TypeOK
  <1>2. UNCHANGED <<tokens, spent>> /\ \A e \in Exchanges : Kept(e)
    BY <1>t, OtherFrame
  <1>3. \A e \in Exchanges : exchange[e].pc # "idle" =>
          exchange[e].code \in Codes /\ callback[exchange[e].code].pc = "redirected"
    BY DEF IInv, TypeOK, ExchangeInv
  <1>4. \A e \in Exchanges : Holds(e)' = Holds(e)
    BY <1>1, <1>2, <1>3 DEF Holds, Kept
  <1>5. \A e \in Exchanges : Names(e)' = Names(e) /\ exchange'[e].late = exchange[e].late
    BY <1>2 DEF Names, Kept
  <1> QED BY <1>2, <1>4, <1>5 DEF HoldsFn, LateFn, NamesFn

(* A login picks when it takes the lock; nothing else changes who was picked. *)
LEMMA LoginSteps ==
  ASSUME IInv, OtherStep
  PROVE  \/ UNCHANGED PickedFn
         \/ \E r \in Requests, s \in Subjects : PickedFn' = [PickedFn EXCEPT ![r] = @ \cup {s}]
  <1>t. TypeOK
    BY DEF IInv
  <1>u. Unlocked.req \notin Requests
    BY AuthCodeAssumption DEF Unlocked
  <1>1. ASSUME NEW r \in Requests, NEW s \in Subjects, BeginLogin(r, s)
        PROVE  PickedFn' = [PickedFn EXCEPT ![r] = @ \cup {s}]
    <2>1. /\ lock = Unlocked /\ lock' = [req |-> r, subject |-> s] /\ requests' = requests
      BY <1>1 DEF BeginLogin, LockFree
    <2>2. Picked(r)' = Picked(r) \cup {s}
      BY <1>u, <2>1 DEF Picked, Chosen
    <2>3. \A q \in Requests \ {r} : Picked(q)' = Picked(q)
      BY <1>u, <2>1 DEF Picked, Chosen
    <2> QED BY <2>2, <2>3 DEF PickedFn
  <1>2. ASSUME NEW r \in Requests, EndLogin(r) PROVE UNCHANGED PickedFn
    <2>1. /\ lock.req = r /\ lock' = Unlocked
          /\ Chosen(r)' = Chosen(r) \cup {lock.subject}
          /\ \A q \in Requests \ {r} : Chosen(q)' = Chosen(q)
      BY <1>2, <1>t, EndLoginPicks DEF EndLogin
    <2>2. \A q \in Requests : Picked(q)' = Picked(q)
      BY <1>u, <2>1 DEF Picked
    <2> QED BY <2>2 DEF PickedFn
  <1>3. ASSUME NEW r \in Requests, NEW c \in ClientIDs, NEW challenge \in Presented,
               NEW hint \in Hints, CreateAuthRequest(r, c, challenge, hint)
        PROVE  UNCHANGED PickedFn
    <2>1. /\ requests[r].picks = <<>> /\ requests'[r].picks = <<>> /\ lock' = lock
          /\ \A q \in Requests \ {r} : requests'[q] = requests[q]
      BY <1>3, <1>t DEF CreateAuthRequest, NewRequest, Unborn, TypeOK
    <2>2. \A q \in Requests : Picked(q)' = Picked(q)
      BY <2>1 DEF Picked, Chosen
    <2> QED BY <2>2 DEF PickedFn
  <1>4. ASSUME UNCHANGED <<requests, lock>> PROVE UNCHANGED PickedFn
    BY <1>4 DEF PickedFn, Picked, Chosen
  <1>5. ASSUME \/ \E f \in Registries : Reload(f)
               \/ \E k \in Codes, r \in Requests : CallbackLoad(k, r)
               \/ \E k \in Codes : CallbackStep(k)
        PROVE  UNCHANGED <<requests, lock>>
    BY <1>5
    DEF Reload, CallbackLoad, CallbackStep, CallbackDone, CallbackClient, SaveAuthCode
  <1> QED BY <1>1, <1>2, <1>3, <1>4, <1>5 DEF OtherStep

(* An exchange that begins.                                                  *)
LEMMA BeginRefines ==
  ASSUME IInv, FreshInv, NEW e \in Exchanges, NEW c \in ClientIDs, NEW k \in Codes,
         GetClientByClientID(e, c, k)
  PROVE  Promise!Next
  <1>t. TypeOK
    BY DEF IInv
  <1> DEFINE r == callback[k].req
  <1>1. /\ exchange[e].pc = "idle" /\ callback[k].pc = "redirected"
        /\ exchange'[e].pc # "idle"
        /\ exchange'[e].code = k /\ exchange'[e].idSub = NoSubject
        /\ exchange'[e].late = (r \in spent)
        /\ \A f \in Exchanges \ {e} : exchange'[f] = exchange[f]
        /\ UNCHANGED <<requests, tokens, lock, callback, spent>>
    BY <1>t, BeginFrame
  <1>2. r \in Requests
    BY <1>1, <1>t DEF TypeOK
  <1>3. /\ Holds(e) = NoRequest /\ Holds(e)' = r
        /\ \A f \in Exchanges \ {e} : Holds(f)' = Holds(f)
    BY <1>1 DEF Holds
  <1>4. exchange[e].idSub = NoSubject
    BY <1>1 DEF FreshInv, Unminted
  <1>5. \A f \in Exchanges : Names(f)' = Names(f)
    BY <1>1, <1>4 DEF Names
  <1>6. HoldsFn[e] = NoRequest /\ HoldsFn' = [HoldsFn EXCEPT ![e] = r]
    BY <1>3 DEF HoldsFn
  <1>7. LateFn' = [LateFn EXCEPT ![e] = r \in spent]
    BY <1>1 DEF LateFn
  <1>8. UNCHANGED <<PickedFn, spent, NamesFn>>
    BY <1>1, <1>5 DEF PickedFn, Picked, Chosen, NamesFn
  <1> HIDE DEF r
  <1> QED BY <1>2, <1>6, <1>7, <1>8, AbstractBegin

(* A step of an exchange changes, of the abstract state, the names it has     *)
(* handed out and the closed flows.                                          *)
LEMMA OwnHolds ==
  ASSUME TypeOK, NEW e \in Exchanges, OwnStep(e)
  PROVE  /\ UNCHANGED <<PickedFn, HoldsFn, LateFn>>
         /\ \A f \in Exchanges \ {e} : Names(f)' = Names(f)
  <1>1. UNCHANGED <<requests, lock, callback>>
    BY DEF OwnStep
  <1>2. UNCHANGED PickedFn
    BY <1>1 DEF PickedFn, Picked, Chosen
  <1>3. \A f \in Exchanges \ {e} :
          exchange'[f] = exchange[f] /\ tokens'[f] = tokens[f] /\ Names(f)' = Names(f)
    BY DEF OwnStep, Names
  <1>4. /\ exchange[e].pc # "idle" /\ exchange'[e].pc # "idle"
        /\ exchange'[e].code = exchange[e].code /\ exchange'[e].late = exchange[e].late
    BY DEF OwnStep
  <1>5. \A f \in Exchanges : Holds(f)' = Holds(f) /\ exchange'[f].late = exchange[f].late
    BY <1>1, <1>3, <1>4 DEF Holds
  <1> QED BY <1>2, <1>3, <1>5 DEF HoldsFn, LateFn

(* An exchange that names a subject names a picked one, for a request that   *)
(* was open when the exchange began.                                         *)
LEMMA NamesPicked ==
  ASSUME IInv, NEW e \in Exchanges, OwnStep(e), exchange[e].pc \in Resolved,
         exchange[e].pc # "request", UNCHANGED spent,
         NEW s \in Subjects, s \in Picked(exchange[e].req), Names(e)' = Names(e) \cup {s}
  PROVE  Promise!Next
  <1>1. /\ UNCHANGED <<PickedFn, HoldsFn, LateFn>>
        /\ \A f \in Exchanges \ {e} : Names(f)' = Names(f)
    BY OwnHolds DEF IInv
  <1>2. NamesFn' = [NamesFn EXCEPT ![e] = @ \cup {s}]
    BY <1>1 DEF NamesFn
  <1>3. exchange[e].req \in Requests /\ Holds(e) = exchange[e].req
    BY HeldRequest DEF Holds, Resolved
  <1>4. ~exchange[e].late
    BY DEF IInv, ExchangeInv, Resolved
  <1>5. HoldsFn[e] # NoRequest /\ ~LateFn[e] /\ s \in PickedFn[HoldsFn[e]]
    BY <1>3, <1>4, AuthCodeAssumption DEF HoldsFn, LateFn, PickedFn
  <1> QED BY <1>1, <1>2, <1>5, AbstractName

(* CreateAccessToken and its twin name the subject of the access token.      *)
LEMMA MintRefines ==
  ASSUME IInv, FreshInv, NEW e \in Exchanges,
         CreateAccessToken(e) \/ CreateAccessAndRefreshTokens(e)
  PROVE  Promise!Next
  <1>t. TypeOK
    BY DEF IInv
  <1>1. OwnStep(e)
    BY <1>t, ExchangeEffect DEF ExchangeStep
  <1>2. /\ exchange[e].pc \in {"mint", "mint both"}
        /\ exchange[e].pc \in Resolved /\ exchange[e].pc # "request"
        /\ exchange[e].pc \in Unminted
    BY DEF CreateAccessToken, CreateAccessAndRefreshTokens, Resolved, ExchangePCs, Unminted
  <1> DEFINE r == exchange[e].req
             s == requests[r].userID
  <1>3. r \in Requests /\ s \in Chosen(r)
    BY <1>2, HeldRequest
  <1>4. s \in Subjects
    BY <1>3, <1>t DEF TypeOK, RequestType, Chosen
  <1>5. /\ tokens' = [tokens EXCEPT ![e] = [client |-> requests[r].client, subject |-> s]]
        /\ UNCHANGED spent
    BY DEF CreateAccessToken, CreateAccessAndRefreshTokens
  <1>6. tokens'[e].subject = s
    BY <1>5, <1>t DEF TypeOK
  <1>7. exchange'[e].idSub = NoSubject /\ exchange[e].idSub = NoSubject /\ tokens[e] = NoToken
    BY <1>1, <1>2 DEF OwnStep, FreshInv
  <1> HIDE DEF s
  <1>8. Names(e)' = Names(e) \cup {s}
    BY <1>4, <1>6, <1>7, AuthCodeAssumption DEF Names, NoToken
  <1> QED BY <1>1, <1>2, <1>3, <1>4, <1>5, <1>8, NamesPicked DEF Picked

(* SetUserinfoFromRequest names the subject of the id_token, or nobody.      *)
LEMMA UserinfoRefines ==
  ASSUME IInv, FreshInv, NEW e \in Exchanges, SetUserinfoFromRequest(e)
  PROVE  Promise!Next \/ UNCHANGED Promise!vars
  <1>t. TypeOK
    BY DEF IInv
  <1>1. OwnStep(e)
    BY <1>t, ExchangeEffect DEF ExchangeStep
  <1>2. /\ exchange[e].pc = "userinfo" /\ UNCHANGED <<tokens, spent>>
        /\ exchange[e].pc \in Resolved /\ exchange[e].pc # "request"
    BY DEF SetUserinfoFromRequest, Resolved, ExchangePCs, storage
  <1> DEFINE r == exchange[e].req
  <1>3. r \in Requests /\ requests[r].userID \in Chosen(r)
    BY <1>2, HeldRequest
  <1>4. PICK s \in SubjectSeen(r) :
          IF s \in Subjects
          THEN exchange' = [exchange EXCEPT ![e].pc = "apps", ![e].idSub = s]
          ELSE StepExchange(e, "failed")
    BY DEF SetUserinfoFromRequest
  <1>5. exchange[e] \in ExchangeType /\ e \in DOMAIN exchange
    BY <1>t DEF TypeOK
  <1>6. CASE s \in Subjects
    <2>1. exchange'[e].idSub = s
      BY <1>4, <1>5, <1>6 DEF ExchangeType
    <2>2. exchange[e].idSub = NoSubject
      BY <1>2 DEF FreshInv
    <2>3. Names(e)' = Names(e) \cup {s}
      BY <1>2, <1>6, <2>1, <2>2, AuthCodeAssumption DEF Names
    <2>4. s \in Picked(r)
      BY <1>3, <1>6, AuthCodeAssumption DEF SubjectSeen, Picked
    <2> QED BY <1>1, <1>2, <1>6, <2>3, <2>4, NamesPicked
  <1>7. CASE s \notin Subjects
    <2>1. exchange'[e].idSub = exchange[e].idSub
      BY <1>4, <1>5, <1>7 DEF StepExchange, ExchangeType
    <2>2. Names(e)' = Names(e)
      BY <1>2, <2>1 DEF Names
    <2>3. UNCHANGED NamesFn
      BY <1>1, <1>t, <2>2, OwnHolds DEF NamesFn
    <2> QED BY <1>1, <1>2, <1>t, <2>3, OwnHolds, AbstractState
  <1> QED BY <1>6, <1>7

(* Every other step of an exchange: only the last one, which deletes the     *)
(* request, is seen from above.                                              *)
LEMMA QuietRefines ==
  ASSUME IInv, NEW e \in Exchanges, ExchangeStep(e),
         ~CreateAccessToken(e), ~CreateAccessAndRefreshTokens(e), ~SetUserinfoFromRequest(e)
  PROVE  Promise!Next \/ UNCHANGED Promise!vars
  <1>t. TypeOK
    BY DEF IInv
  <1>1. OwnStep(e)
    BY <1>t, ExchangeEffect
  <1>2. exchange[e].pc \notin {"mint", "mint both", "userinfo"}
    BY DEF ExchangeStep, AuthorizeClientIDSecret, AuthRequestByCode, AuthRequestByID,
           ValidateExchange, InfoFromRequest, AllClientIDs, DeleteAuthRequest
  <1>3. Names(e)' = Names(e)
    BY <1>1, <1>2 DEF OwnStep, Names
  <1>4. UNCHANGED <<PickedFn, HoldsFn, LateFn, NamesFn>>
    BY <1>1, <1>3, <1>t, OwnHolds DEF NamesFn
  <1>5. CASE DeleteAuthRequest(e)
    <2>1. spent' = spent \cup {exchange[e].req}
      BY <1>5 DEF DeleteAuthRequest
    <2>2. exchange[e].pc \in Resolved
      BY <1>5 DEF DeleteAuthRequest, Resolved, ExchangePCs
    <2>3. exchange[e].req \in Requests
      BY <2>2, HeldRequest
    <2> QED BY <1>4, <2>1, <2>3, AbstractClose
  <1>6. CASE ~DeleteAuthRequest(e)
    <2>1. UNCHANGED spent
      BY <1>6
      DEF ExchangeStep, AuthorizeClientIDSecret, AuthRequestByCode, AuthRequestByID,
          ValidateExchange, InfoFromRequest, AllClientIDs
    <2> QED BY <1>4, <2>1, AbstractState
  <1> QED BY <1>5, <1>6
-----------------------------------------------------------------------------
(* The code grant starts as the abstract grant does.                         *)
LEMMA RefinesInit == Init => Promise!Init
  <1> SUFFICES ASSUME Init PROVE Promise!Init
    OBVIOUS
  <1>1. Unlocked.req = NoRequest
    BY DEF Unlocked
  <1>2. \A r \in Requests : Picked(r) = {}
    BY <1>1, AuthCodeAssumption DEF Init, Picked, Chosen, Unborn
  <1>3. \A e \in Exchanges :
          Holds(e) = NoRequest /\ exchange[e].late = FALSE /\ Names(e) = {}
    BY DEF Init, Holds, Names, IdleExchange, NoToken
  <1>4. spent = {}
    BY DEF Init
  <1> QED BY <1>2, <1>3, <1>4, AbstractState DEF PickedFn, HoldsFn, LateFn, NamesFn

(* Every step of the code grant is a step of the abstract grant or none.     *)
LEMMA RefinesNext == IInv /\ FreshInv /\ [Next]_vars => [Promise!Next]_(Promise!vars)
  <1> SUFFICES ASSUME IInv, FreshInv, [Next]_vars
               PROVE  Promise!Next \/ UNCHANGED Promise!vars
    OBVIOUS
  <1>1. CASE UNCHANGED vars
    <2>1. UNCHANGED <<PickedFn, spent, HoldsFn, LateFn, NamesFn>>
      BY <1>1
      DEF vars, storage, PickedFn, HoldsFn, LateFn, NamesFn, Picked, Chosen, Holds, Names
    <2> QED BY <2>1, AbstractState
  <1>2. CASE OtherStep
    BY <1>2, OtherHolds, LoginSteps, AbstractState, AbstractPick
  <1>3. ASSUME NEW e \in Exchanges, NEW c \in ClientIDs, NEW k \in Codes,
               GetClientByClientID(e, c, k)
        PROVE  Promise!Next
    BY <1>3, BeginRefines
  <1>4. ASSUME NEW e \in Exchanges, ExchangeStep(e)
        PROVE  Promise!Next \/ UNCHANGED Promise!vars
    BY <1>4, MintRefines, UserinfoRefines, QuietRefines
  <1> QED BY <1>1, <1>2, <1>3, <1>4 DEF Next, OtherStep

(* The code grant implements Authorization: however logins, callbacks and    *)
(* exchanges interleave, an exchange names only whom somebody picked on the  *)
(* login page of the request its code came from, and nobody once that        *)
(* request was redeemed (CompleteAuthRequest, CreateAccessToken,             *)
(* SetUserinfoFromRequest, DeleteAuthRequest).                               *)
THEOREM CodeGrantImplements == Spec => ImplementsAuthorization
  <1>1. Spec => []FreshInv
    BY FreshInit, FreshNext, InductiveInvariant, PTL DEF Spec
  <1> QED
    BY <1>1, InductiveInvariant, RefinesInit, RefinesNext, PTL
    DEF Spec, ImplementsAuthorization, Promise!Spec
===============================================================================
