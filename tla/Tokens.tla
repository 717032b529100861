------------------------------- MODULE Tokens -------------------------------
(* The life of what the token endpoint hands out: access tokens, refresh     *)
(* tokens and their rotation, revocation, end_session, and the clock.        *)
(*                                                                           *)
(* A refreshToken object is created with a grant and then mutated in place   *)
(* by each rotation, while any handler that looked it up keeps the pointer.  *)
(* The objects are named by grants; Storage.refreshers maps the current      *)
(* refresh token id to the object. One call mints one access token id and    *)
(* one refresh token id, both fresh, and both are numbered by the call.      *)
(*                                                                           *)
(* Every storage method is one critical section of Storage.lock, hence one   *)
(* action. SetCurrentScopes writes the object's scopes without the lock: it  *)
(* is an action that starts and an action that ends.                         *)
EXTENDS Naturals, Registry

CONSTANTS Grants,           \* completed authorizations that asked for a refresh token
          Subjects,
          DeviceGrants,     \* those among Grants made by the device flow
          Refreshes,        \* refresh_token requests at the token endpoint
          Revocations,      \* requests at the revocation endpoint
          Scopes,           \* what a grant's scopes are drawn from
          Garbage,          \* what lies past the end of an array of scopes
          NoGrant, NoClient, NoSubject,
          MaxMints,         \* calls that mint, a bound on token ids
          MaxTime,          \* the clock's last tick
          AccessLifetime,   \* 15 minutes, in ticks
          RefreshLifetime   \* 24 hours, in ticks

ASSUME TokensAssumption ==
  /\ DeviceGrants \subseteq Grants
  /\ Garbage \notin Scopes
  /\ NoGrant \notin Grants
  /\ NoClient \notin ClientIDs
  /\ NoSubject \notin Subjects
  /\ {MaxMints, MaxTime, AccessLifetime, RefreshLifetime} \subseteq Nat
  /\ AccessLifetime <= RefreshLifetime

VARIABLES now,
          mints,         \* mints so far; the ids 1..mints have been handed out
          tokens,        \* Storage.tokens
          refreshers,    \* Storage.refreshers, refresh token id -> object
          grant,         \* the refreshToken objects
          refresh,       \* the handlers of refresh_token requests
          revocation     \* the handlers of revocation requests

vars == <<now, mints, tokens, refreshers, grant, refresh, revocation>>

Ids == 1..MaxMints
ReadScopes == SUBSET (Scopes \cup {Garbage})

(* A token's grant and delivered are history: which object it was minted     *)
(* for, and whether the call that minted it returned it.                     *)
NoToken == [client |-> NoClient, subject |-> NoSubject, audience |-> {}, refreshID |-> 0,
            expiration |-> 0, scopes |-> {}, grant |-> NoGrant, delivered |-> FALSE]

(* issuedTo, granted and accessRevoked are history: the client that obtained *)
(* the grant, its scopes, and whether its access token was revoked alone.    *)
Unborn == [id |-> 0, accessTokenID |-> 0, expiration |-> 0, scopes |-> {},
           userID |-> NoSubject, applicationID |-> NoClient, audience |-> {},
           issuedTo |-> NoClient, granted |-> {}, accessRevoked |-> FALSE]

IdleRefresh == [pc |-> "idle", grant |-> NoGrant, current |-> 0, client |-> NoClient,
                ask |-> {}, raced |-> FALSE]

IdleRevocation == [pc |-> "idle", kind |-> "access", id |-> 0, client |-> NoClient]

Init ==
  /\ now = 0
  /\ mints = 0
  /\ tokens = [n \in Ids |-> NoToken]
  /\ refreshers = [n \in Ids |-> NoGrant]
  /\ grant = [g \in Grants |-> Unborn]
  /\ refresh = [h \in Refreshes |-> IdleRefresh]
  /\ revocation = [v \in Revocations |-> IdleRevocation]

Exists(n) == tokens[n] # NoToken
Live(g) == \E n \in Ids : refreshers[n] = g
Born(g) == grant[g] # Unborn
-----------------------------------------------------------------------------
Tick ==
  /\ now < MaxTime
  /\ now' = now + 1
  /\ UNCHANGED <<mints, tokens, refreshers, grant, refresh, revocation>>

(* Mutants: the access token names the refresh token that is being replaced; *)
(* it has the audience of nobody.                                            *)
AccessToken_oldRefreshID(g, scopes, delivered) ==
  [client |-> grant[g].applicationID, subject |-> grant[g].userID,
   audience |-> grant[g].audience, refreshID |-> grant[g].id, expiration |-> now + AccessLifetime,
   scopes |-> scopes, grant |-> g, delivered |-> delivered]

AccessToken_noAudience(g, scopes, delivered) ==
  [client |-> grant[g].applicationID, subject |-> grant[g].userID,
   audience |-> {}, refreshID |-> mints + 1, expiration |-> now + AccessLifetime,
   scopes |-> scopes, grant |-> g, delivered |-> delivered]

(* Storage.accessToken, always inside a caller's critical section. A         *)
(* rotation hands it the client, user, audience and scopes of the object.    *)
AccessToken(g, scopes, delivered) ==
  [client |-> grant[g].applicationID, subject |-> grant[g].userID,
   audience |-> grant[g].audience, refreshID |-> mints + 1, expiration |-> now + AccessLifetime,
   scopes |-> scopes, grant |-> g, delivered |-> delivered]

(* infoFromRequest knows the client of an authRequest and of a refresh token *)
(* request, and of nothing else: a device authorization has none.            *)
ClientOf(g, c) == IF g \in DeviceGrants THEN NoClient ELSE c

(* CreateAccessAndRefreshTokens with no current refresh token. The audience  *)
(* is the client that asked, of a device authorization too.                  *)
CreateTokens(g, c, s, scopes) ==
  LET n == mints + 1
  IN /\ ~Born(g)
     /\ mints < MaxMints
     /\ mints' = n
     /\ grant' = [grant EXCEPT ![g] =
          [id |-> n, accessTokenID |-> n, expiration |-> now + RefreshLifetime,
           scopes |-> scopes, userID |-> s, applicationID |-> ClientOf(g, c),
           audience |-> {c}, issuedTo |-> c, granted |-> scopes, accessRevoked |-> FALSE]]
     /\ tokens' = [tokens EXCEPT ![n] =
          [client |-> ClientOf(g, c), subject |-> s, audience |-> {c}, refreshID |-> n,
           expiration |-> now + AccessLifetime, scopes |-> scopes, grant |-> g,
           delivered |-> TRUE]]
     /\ refreshers' = [refreshers EXCEPT ![n] = g]
     /\ UNCHANGED <<now, refresh, revocation>>
-----------------------------------------------------------------------------
(* A refresh_token request.                                                  *)

(* A handler that has given up; what it did to the scopes is remembered.     *)
Refused(h) == [IdleRefresh EXCEPT !.pc = "failed", !.raced = refresh[h].raced]

(* The object is handed out as it is, expired or not.                        *)
TokenRequestByRefreshToken(h, n, c, ask) ==
  /\ refresh[h].pc = "idle"
  /\ n <= mints
  /\ refresh' = [refresh EXCEPT ![h] =
       IF refreshers[n] = NoGrant
       THEN Refused(h)
       ELSE [IdleRefresh EXCEPT !.pc = "validate", !.grant = refreshers[n],
                                !.current = n, !.client = c, !.ask = ask]]
  /\ UNCHANGED <<now, mints, tokens, refreshers, grant, revocation>>

Writers(g) == {h \in Refreshes : refresh[h].pc = "writing" /\ refresh[h].grant = g}

(* A slice header is three words. A read during a write, and what two writes *)
(* at once leave behind, is the pointer of one and the length of another: a  *)
(* part of a list, or a list and what lies past its end. Whoever compares    *)
(* the latter may find any scope in it.                                      *)
TornFrom(lists) == UNION {(SUBSET list) \cup {list \cup {Garbage}} : list \in lists}

Readings(scopes) ==
  IF Garbage \in scopes THEN {scopes \cup found : found \in SUBSET Scopes} ELSE {scopes}

(* Mutant: the scopes are those a client may ever ask for, not the grant's.  *)
ScopesSeen_all(g) == {Scopes}

(* What GetScopes returns to a reader that does not hold the lock.           *)
ScopesSeen(g) ==
  LET asked == {refresh[h].ask : h \in Writers(g)}
  IN {grant[g].scopes} \cup
       (IF asked = {} THEN {} ELSE asked \cup TornFrom(asked \cup {grant[g].scopes}))

(* Mutant: the list that is there must be within the one asked for.          *)
Accepts_swapped(h, scopes) ==
  /\ grant[refresh[h].grant].applicationID = refresh[h].client
  /\ refresh[h].ask # {} => scopes \subseteq refresh[h].ask

(* The OP compares the client, and the scopes asked for, if any, with those  *)
(* of the object.                                                            *)
Accepts(h, scopes) ==
  /\ grant[refresh[h].grant].applicationID = refresh[h].client
  /\ refresh[h].ask \subseteq scopes

(* A narrower list is then written to the object. Two requests that do so at *)
(* once race.                                                                *)
ValidateRefresh(h) ==
  LET g == refresh[h].grant
  IN /\ refresh[h].pc = "validate"
     /\ \E scopes \in UNION {Readings(seen) : seen \in ScopesSeen(g)} :
          IF ~Accepts(h, scopes)
          THEN refresh' = [refresh EXCEPT ![h] = Refused(h)]
          ELSE IF refresh[h].ask = {}
          THEN refresh' = [refresh EXCEPT ![h].pc = "rotate"]
          ELSE refresh' = [i \in Refreshes |->
                 IF i = h
                 THEN [refresh[h] EXCEPT !.pc = "writing", !.raced = Writers(g) # {}]
                 ELSE IF i \in Writers(g) THEN [refresh[i] EXCEPT !.raced = TRUE]
                 ELSE refresh[i]]
     /\ UNCHANGED <<now, mints, tokens, refreshers, grant, revocation>>

(* What the write leaves behind.                                             *)
ScopesWritten(h) ==
  LET g == refresh[h].grant
      ask == refresh[h].ask
  IN {ask} \cup
       (IF refresh[h].raced
        THEN TornFrom({ask, grant[g].scopes} \cup {refresh[i].ask : i \in Writers(g)})
        ELSE {})

SetCurrentScopes(h) ==
  /\ refresh[h].pc = "writing"
  /\ \E scopes \in ScopesWritten(h) :
       grant' = [grant EXCEPT ![refresh[h].grant].scopes = scopes]
  /\ refresh' = [refresh EXCEPT ![h].pc = "rotate"]
  /\ UNCHANGED <<now, mints, tokens, refreshers, revocation>>

(* Whether the refresh token a request presented is still in the map.        *)
Found(h) == refreshers[refresh[h].current] # NoGrant

(* Mutants: the map is not consulted again after TokenRequestByRefreshToken; *)
(* nobody looks at the clock; a token is late at its last instant.           *)
MayRotate_unchecked(h) == grant[refresh[h].grant].expiration >= now
MayRotate_noExpiry(h) == Found(h)
MayRotate_strict(h) == Found(h) /\ grant[refresh[h].grant].expiration > now
MayRotate(h) == Found(h) /\ grant[refresh[h].grant].expiration >= now

(* The object is re-keyed and renewed in place. Mutant: its lifetime is      *)
(* added to what was left of it.                                             *)
Renewed_extends(g) ==
  [grant[g] EXCEPT !.id = mints + 1, !.accessTokenID = mints + 1, !.accessRevoked = FALSE,
                   !.expiration = @ + RefreshLifetime]
Renewed(g) ==
  [grant[g] EXCEPT !.id = mints + 1, !.accessTokenID = mints + 1, !.accessRevoked = FALSE,
                   !.expiration = now + RefreshLifetime]

(* The maps after a call. The presented refresh token goes even if it has    *)
(* expired, and so does the access token it came with. Mutants: the old key  *)
(* stays; the old access token stays.                                        *)
RefreshersAfter_keepsOldKey(h) ==
  IF MayRotate(h) THEN [refreshers EXCEPT ![mints + 1] = refresh[h].grant] ELSE refreshers
RefreshersAfter(h) ==
  [refreshers EXCEPT ![refresh[h].current] = NoGrant,
                     ![mints + 1] = IF MayRotate(h) THEN refresh[h].grant ELSE NoGrant]

TokensAfter_keepsOldToken(h, scopes) ==
  [tokens EXCEPT ![mints + 1] = AccessToken(refresh[h].grant, scopes, MayRotate(h))]
TokensAfter(h, scopes) ==
  [tokens EXCEPT
     ![grant[refresh[h].grant].accessTokenID] = IF Found(h) THEN NoToken ELSE @,
     ![mints + 1] = AccessToken(refresh[h].grant, scopes, MayRotate(h))]

(* CreateAccessAndRefreshTokens with a current refresh token. The access     *)
(* token is stored first, whatever becomes of the rotation: where the        *)
(* current token is gone or expired it stays behind, returned to nobody. Its *)
(* scopes are read under the lock, which SetCurrentScopes does not take.     *)
Rotate(h) ==
  LET g == refresh[h].grant
  IN /\ refresh[h].pc = "rotate"
     /\ mints < MaxMints
     /\ mints' = mints + 1
     /\ \E scopes \in ScopesSeen(g) : tokens' = TokensAfter(h, scopes)
     /\ refreshers' = RefreshersAfter(h)
     /\ grant' = IF MayRotate(h) THEN [grant EXCEPT ![g] = Renewed(g)] ELSE grant
     /\ refresh' = [refresh EXCEPT
          ![h] = IF MayRotate(h) THEN [@ EXCEPT !.pc = "answered"] ELSE Refused(h)]
     /\ UNCHANGED <<now, revocation>>
-----------------------------------------------------------------------------
(* A revocation request: the OP resolves the token, then revokes it. A       *)
(* refresh token is resolved by GetRefreshTokenInfo, anything else is taken  *)
(* for the access token it decrypts to.                                      *)
GetRefreshTokenInfo(v, kind, n, c) ==
  /\ revocation[v].pc = "idle"
  /\ n <= mints
  /\ kind = "refresh" => refreshers[n] # NoGrant
  /\ revocation' = [revocation EXCEPT ![v] =
       [pc |-> "revoke", kind |-> kind, client |-> c,
        id |-> IF kind = "refresh" THEN grant[refreshers[n]].id ELSE n]]
  /\ UNCHANGED <<now, mints, tokens, refreshers, grant, refresh>>

(* An access token goes alone, a refresh token with its access token. What   *)
(* is no longer there is a success.                                          *)
RevokeToken(v) ==
  LET n == revocation[v].id
      g == refreshers[n]
      mine(c) == c = revocation[v].client
      Ended(pc) == [IdleRevocation EXCEPT !.pc = pc]
  IN /\ revocation[v].pc = "revoke"
     /\ \/ /\ revocation[v].kind = "access"
           /\ Exists(n) /\ mine(tokens[n].client)
           /\ tokens' = [tokens EXCEPT ![n] = NoToken]
           /\ grant' = [i \in Grants |->
                IF Born(i) /\ grant[i].accessTokenID = n
                THEN [grant[i] EXCEPT !.accessRevoked = TRUE] ELSE grant[i]]
           /\ revocation' = [revocation EXCEPT ![v] = Ended("revoked")]
           /\ UNCHANGED refreshers
        \/ /\ revocation[v].kind = "refresh"
           /\ g # NoGrant /\ mine(grant[g].applicationID)
           /\ refreshers' = [refreshers EXCEPT ![grant[g].id] = NoGrant]
           /\ tokens' = [tokens EXCEPT ![grant[g].accessTokenID] = NoToken]
           /\ revocation' = [revocation EXCEPT ![v] = Ended("revoked")]
           /\ UNCHANGED grant
        \/ /\ IF revocation[v].kind = "access"
              THEN Exists(n) => ~mine(tokens[n].client)
              ELSE g # NoGrant => ~mine(grant[g].applicationID)
           /\ revocation' = [revocation EXCEPT ![v] = Ended("unchanged")]
           /\ UNCHANGED <<tokens, refreshers, grant>>
     /\ UNCHANGED <<now, mints, refresh>>

(* end_session: one pass over the access tokens.                             *)
TerminateSession(s, c) ==
  LET ended == {n \in Ids : Exists(n) /\ tokens[n].client = c /\ tokens[n].subject = s}
      refreshIDs == {tokens[n].refreshID : n \in ended}
  IN /\ ended # {}
     /\ tokens' = [n \in Ids |-> IF n \in ended THEN NoToken ELSE tokens[n]]
     /\ refreshers' = [n \in Ids |-> IF n \in refreshIDs THEN NoGrant ELSE refreshers[n]]
     /\ UNCHANGED <<now, mints, grant, refresh, revocation>>
-----------------------------------------------------------------------------
Next ==
  \/ Tick
  \/ \E g \in Grants, c \in ClientIDs, s \in Subjects, scopes \in SUBSET Scopes :
       CreateTokens(g, c, s, scopes)
  \/ \E h \in Refreshes, n \in Ids, c \in ClientIDs, ask \in SUBSET Scopes :
       TokenRequestByRefreshToken(h, n, c, ask)
  \/ \E h \in Refreshes : ValidateRefresh(h) \/ SetCurrentScopes(h) \/ Rotate(h)
  \/ \E v \in Revocations, kind \in {"access", "refresh"}, n \in Ids, c \in ClientIDs :
       GetRefreshTokenInfo(v, kind, n, c)
  \/ \E v \in Revocations : RevokeToken(v)
  \/ \E s \in Subjects, c \in ClientIDs : TerminateSession(s, c)

Spec == Init /\ [][Next]_vars
-----------------------------------------------------------------------------
(* Types.                                                                    *)
Times == 0..(MaxTime + RefreshLifetime)

TokenType == [client : ClientIDs \cup {NoClient}, subject : Subjects \cup {NoSubject},
              audience : SUBSET ClientIDs, refreshID : 0..MaxMints, expiration : Times, scopes : ReadScopes,
              grant : Grants \cup {NoGrant}, delivered : BOOLEAN]

GrantType == [id : 0..MaxMints, accessTokenID : 0..MaxMints, expiration : Times,
              scopes : ReadScopes, userID : Subjects \cup {NoSubject},
              applicationID : ClientIDs \cup {NoClient}, audience : SUBSET ClientIDs,
              issuedTo : ClientIDs \cup {NoClient}, granted : SUBSET Scopes,
              accessRevoked : BOOLEAN]

(* Every variable holds a value of its type, and ids beyond the last minted  *)
(* one name nothing yet.                                                     *)
TypeOK ==
  /\ now \in 0..MaxTime
  /\ mints \in 0..MaxMints
  /\ tokens \in [Ids -> TokenType]
  /\ refreshers \in [Ids -> Grants \cup {NoGrant}]
  /\ grant \in [Grants -> GrantType]
  /\ refresh \in [Refreshes ->
       [pc : {"idle", "validate", "writing", "rotate", "answered", "failed"},
        grant : Grants \cup {NoGrant}, current : 0..MaxMints,
        client : ClientIDs \cup {NoClient}, ask : SUBSET Scopes,
        raced : BOOLEAN]]
  /\ revocation \in [Revocations ->
       [pc : {"idle", "revoke", "revoked", "unchanged"}, kind : {"access", "refresh"},
        id : 0..MaxMints, client : ClientIDs \cup {NoClient}]]
  /\ \A n \in Ids : n > mints => tokens[n] = NoToken /\ refreshers[n] = NoGrant
-----------------------------------------------------------------------------
(* Safety.                                                                   *)

(* A refresh token id names an object that bears that very id, so a grant    *)
(* has at most one live refresh token however its rotations interleave (the  *)
(* object is re-keyed in place by CreateAccessAndRefreshTokens).             *)
KeyedByID == \A n \in Ids : refreshers[n] # NoGrant => grant[refreshers[n]].id = n

(* One refresh token is exchanged for at most one pair of tokens: of two     *)
(* requests that looked it up together, the second finds it gone.            *)
RefreshUsedOnce ==
  \A h, i \in Refreshes :
    refresh[h].pc = "answered" /\ refresh[i].pc = "answered" /\ h # i =>
      refresh[h].current # refresh[i].current

(* An access token that was delivered is in Storage.tokens only while its    *)
(* grant lives and only until the next rotation: whatever takes the refresh  *)
(* token away (rotation, revocation, end_session, a rotation after expiry)   *)
(* takes the access token with it.                                           *)
OnlyCurrentTokenLives ==
  \A n \in Ids : Exists(n) /\ tokens[n].delivered =>
    Live(tokens[n].grant) /\ n = grant[tokens[n].grant].accessTokenID

(* TerminateSession finds a refresh token only through an access token that  *)
(* carries its id. For the user and the client a grant was issued to it      *)
(* finds the live one, of an expired access token too, except where the      *)
(* access token alone was revoked. A device grant bears no client, and no    *)
(* end_session finds it (GrantBearsItsClient).                               *)
TerminateReaches ==
  \A g \in Grants \ DeviceGrants : Live(g) /\ ~grant[g].accessRevoked =>
    \E n \in Ids : /\ Exists(n)
                   /\ refreshers[tokens[n].refreshID] = g
                   /\ tokens[n].subject = grant[g].userID
                   /\ tokens[n].client = grant[g].issuedTo

(* A refresh token that was revoked, ended or replaced without success, or   *)
(* whose last instant is past, is spent for good: no request brings its      *)
(* grant back, not even one that looked it up before and rotates after, and  *)
(* the new lifetime is no way round the old one (the check of expiration     *)
(* comes before the renewal in CreateAccessAndRefreshTokens).                *)
Spent(g) == ~Live(g) \/ now > grant[g].expiration
DeadStaysDead ==
  [][\A g \in Grants : Born(g) /\ Spent(g) => Spent(g)']_vars

(* No refresh_token request takes a grant away that could still be used,     *)
(* neither its own at the last instant of the refresh token nor, when it     *)
(* comes too late, the one that another request has just renewed.            *)
RefreshKeepsGrant ==
  [][refresh' # refresh => \A g \in Grants : ~Spent(g) => ~Spent(g)']_vars

(* Unless two requests have narrowed scopes at once, what a grant lists, and *)
(* the list each of its access tokens has, stay within what was granted,     *)
(* though SetCurrentScopes writes without the lock while other requests      *)
(* compare with the list and rotations copy it. A copy taken during the      *)
(* write may be a list with something past its end, which is not counted; a  *)
(* narrower request may be accepted for what lies there, but only where it   *)
(* is the second to write, and from then on nothing is promised.             *)
NoRace == \A h \in Refreshes : ~refresh[h].raced
ScopesWithinGrant ==
  NoRace =>
    /\ \A g \in Grants : grant[g].scopes \subseteq grant[g].granted
    /\ \A n \in Ids : Exists(n) =>
         tokens[n].scopes \ {Garbage} \subseteq grant[tokens[n].grant].granted
-----------------------------------------------------------------------------
(* What the repository says and the code does not do.                        *)

(* "infoFromRequest pulls the client id ... out of a token request"          *)
(* (storage.go:674): what is minted for a grant bears the client it was      *)
(* issued to. A device authorization's client is not pulled out.             *)
GrantBearsItsClient ==
  \A g \in Grants : Live(g) => grant[g].applicationID = grant[g].issuedTo
=============================================================================
