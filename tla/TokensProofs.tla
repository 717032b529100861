----------------------------- MODULE TokensProofs -----------------------------
(* Theorems about Tokens, for every set of grants, clients, identities,      *)
(* scopes, refresh and revocation requests, and for every bound.             *)
EXTENDS Tokens, TLAPS

(* Bounds and lifetimes are numbers, and no clock value outgrows Times.      *)
LEMMA Bounds ==
  /\ MaxMints \in Nat /\ MaxTime \in Nat
  /\ \A t \in 0..MaxTime : t + AccessLifetime \in Times /\ t + RefreshLifetime \in Times
  <1>1. /\ MaxMints \in Nat /\ MaxTime \in Nat /\ AccessLifetime \in Nat
        /\ RefreshLifetime \in Nat /\ AccessLifetime <= RefreshLifetime
    BY TokensAssumption
  <1> QED BY <1>1 DEF Times

(* The type invariant is about the storage and about the handlers.           *)
StorageTyped ==
  /\ now \in 0..MaxTime
  /\ mints \in 0..MaxMints
  /\ tokens \in [Ids -> TokenType]
  /\ refreshers \in [Ids -> Grants \cup {NoGrant}]
  /\ grant \in [Grants -> GrantType]
  /\ \A n \in Ids : n > mints => tokens[n] = NoToken /\ refreshers[n] = NoGrant

RefreshType ==
  [pc : {"idle", "validate", "writing", "rotate", "answered", "failed"},
   grant : Grants \cup {NoGrant}, current : 0..MaxMints,
   client : ClientIDs \cup {NoClient}, ask : SUBSET Scopes, raced : BOOLEAN]

RevocationType ==
  [pc : {"idle", "revoke", "revoked", "unchanged"}, kind : {"access", "refresh"},
   id : 0..MaxMints, client : ClientIDs \cup {NoClient}]

HandlersTyped ==
  /\ refresh \in [Refreshes -> RefreshType]
  /\ revocation \in [Revocations -> RevocationType]

(* The type invariant is these two.                                          *)
LEMMA TypeParts == TypeOK <=> StorageTyped /\ HandlersTyped
  BY DEF TypeOK, StorageTyped, HandlersTyped, RefreshType, RevocationType

(* What stands for "nothing yet" is of the types.                            *)
LEMMA NothingType ==
  /\ NoToken \in TokenType
  /\ Unborn \in GrantType /\ Unborn.id = 0 /\ Unborn.accessTokenID = 0
  /\ IdleRefresh \in RefreshType
  /\ IdleRevocation \in RevocationType
  <1>1. 0 \in 0..MaxMints /\ 0 \in Times
    BY TokensAssumption DEF Times
  <1> QED BY <1>1
    DEF NoToken, TokenType, Unborn, GrantType, IdleRefresh, RefreshType, IdleRevocation,
        RevocationType, ReadScopes
-----------------------------------------------------------------------------
(* The strengthening. Access and refresh token of one call carry one id, so  *)
(* a grant bears the id of both; a token knows the object it was minted for; *)
(* the access token of a live grant is there unless it was revoked alone.    *)
(* The audience of a grant is its client, of a device grant too; where       *)
(* infoFromRequest knows the client, the object bears it.                    *)
Owned(g) ==
  /\ grant[g].audience = {grant[g].issuedTo}
  /\ g \notin DeviceGrants => grant[g].applicationID = grant[g].issuedTo

GrantInv ==
  \A g \in Grants :
    /\ grant[g].id = grant[g].accessTokenID
    /\ Born(g) => grant[g].id \in 1..mints /\ Owned(g)

TokenInv ==
  \A n \in Ids : Exists(n) =>
    /\ tokens[n].refreshID = n
    /\ tokens[n].grant \in Grants /\ Born(tokens[n].grant)
    /\ tokens[n].client = grant[tokens[n].grant].applicationID
    /\ tokens[n].subject = grant[tokens[n].grant].userID
    /\ tokens[n].audience = grant[tokens[n].grant].audience

ReachInv ==
  \A g \in Grants : Live(g) /\ ~grant[g].accessRevoked =>
    Exists(grant[g].id) /\ tokens[grant[g].id].grant = g

StorageInv == KeyedByID /\ GrantInv /\ TokenInv /\ ReachInv /\ OnlyCurrentTokenLives

(* A handler that looked a refresh token up holds the object it named then,  *)
(* and the token names it still or nothing; one that was answered used it up. *)
Active == {"validate", "writing", "rotate", "answered"}

Handler(x) ==
  /\ x.pc \in {"idle", "validate"} => ~x.raced
  /\ x.pc \in Active =>
       /\ x.grant \in Grants /\ Born(x.grant)
       /\ x.current \in 1..mints
       /\ refreshers[x.current] \in {NoGrant, x.grant}
  /\ x.pc = "answered" => refreshers[x.current] = NoGrant

HandlerInv ==
  /\ \A h \in Refreshes : Handler(refresh[h])
  /\ \A v \in Revocations : revocation[v].pc = "revoke" => revocation[v].id \in 1..mints

(* What a request writes to the scopes it was allowed to ask for.            *)
WritersEntitled ==
  NoRace => \A h \in Refreshes : refresh[h].pc = "writing" =>
    refresh[h].ask \subseteq grant[refresh[h].grant].granted

ScopeInv == ScopesWithinGrant /\ WritersEntitled

IInv == TypeOK /\ StorageInv /\ HandlerInv /\ RefreshUsedOnce /\ ScopeInv

(* A freshly started IdP has handed out nothing.                             *)
LEMMA InvInit == Init => IInv
  <1> SUFFICES ASSUME Init PROVE IInv
    OBVIOUS
  <1>1. /\ \A n \in Ids : tokens[n] = NoToken /\ refreshers[n] = NoGrant
        /\ \A g \in Grants : grant[g] = Unborn
        /\ \A h \in Refreshes : refresh[h] = IdleRefresh
        /\ \A v \in Revocations : revocation[v] = IdleRevocation
        /\ now = 0 /\ mints = 0
    BY DEF Init
  <1>2. TypeOK
    <2>1. 0 \in 0..MaxTime /\ 0 \in 0..MaxMints
      BY Bounds
    <2> QED BY <1>1, <2>1, NothingType, TypeParts DEF Init, StorageTyped, HandlersTyped
  <1>3. StorageInv
    <2>1. \A n \in Ids : ~Exists(n)
      BY <1>1 DEF Exists
    <2>2. \A g \in Grants : ~Live(g) /\ ~Born(g)
      BY <1>1, TokensAssumption DEF Live, Born
    <2> QED BY <1>1, <2>1, <2>2, NothingType
      DEF StorageInv, KeyedByID, GrantInv, TokenInv, ReachInv, OnlyCurrentTokenLives
  <1>4. HandlerInv /\ RefreshUsedOnce
    BY <1>1 DEF HandlerInv, Handler, RefreshUsedOnce, IdleRefresh, IdleRevocation, Active
  <1>5. ScopeInv
    BY <1>1 DEF ScopeInv, ScopesWithinGrant, WritersEntitled, IdleRefresh, Exists, Unborn
  <1> QED BY <1>2, <1>3, <1>4, <1>5 DEF IInv
-----------------------------------------------------------------------------
(* Two kinds of step. One takes tokens away, access and refresh token of an  *)
(* id together unless the access token is marked as revoked alone; it may    *)
(* change a grant's scopes, and never who a grant is for or its lifetime.    *)
SameOwner(g) ==
  /\ grant'[g].userID = grant[g].userID
  /\ grant'[g].applicationID = grant[g].applicationID
  /\ grant'[g].audience = grant[g].audience
  /\ grant'[g].issuedTo = grant[g].issuedTo
  /\ grant'[g].granted = grant[g].granted

SameGrant(g) ==
  /\ Born(g)' = Born(g)
  /\ SameOwner(g)
  /\ grant'[g].id = grant[g].id /\ grant'[g].accessTokenID = grant[g].accessTokenID
  /\ grant'[g].expiration = grant[g].expiration
  /\ grant[g].accessRevoked => grant'[g].accessRevoked

Shrink ==
  /\ mints' = mints
  /\ \A g \in Grants : SameGrant(g)
  /\ \A n \in Ids :
       /\ tokens'[n] \in {tokens[n], NoToken} /\ refreshers'[n] \in {refreshers[n], NoGrant}
       /\ refreshers'[n] # refreshers[n] => tokens'[n] = NoToken
       /\ tokens'[n] # tokens[n] =>
            \/ refreshers'[n] = NoGrant
            \/ \A g \in Grants : Born(g) /\ grant[g].id = n => grant'[g].accessRevoked

(* The other mints one id for grant g, takes g's old tokens (gone) away and  *)
(* makes the new ones g's if it delivers them, which it does in time only.   *)
Grow(g, delivers, gone) ==
  LET n == mints + 1 IN
  /\ n \in Ids /\ mints' = n
  /\ gone \in SUBSET (1..mints)
  /\ \A m \in gone : refreshers[m] = g
  /\ \A m \in Ids \ {n} :
       /\ refreshers'[m] = IF m \in gone THEN NoGrant ELSE refreshers[m]
       /\ tokens'[m] = IF m \in gone THEN NoToken ELSE tokens[m]
  /\ refreshers'[n] = IF delivers THEN g ELSE NoGrant
  /\ tokens'[n] # NoToken /\ tokens'[n].grant = g /\ tokens'[n].refreshID = n
  /\ tokens'[n].delivered = delivers
  /\ tokens'[n].client = grant'[g].applicationID /\ tokens'[n].subject = grant'[g].userID
  /\ tokens'[n].audience = grant'[g].audience
  /\ \A f \in Grants \ {g} : grant'[f] = grant[f]
  /\ Born(g)' /\ Owned(g)'
  /\ Born(g) => SameOwner(g)
  /\ IF delivers
     THEN /\ grant'[g].id = n /\ grant'[g].accessTokenID = n
          /\ \A m \in Ids : refreshers[m] = g => m \in gone
          /\ Born(g) => ~Spent(g)
          /\ now <= grant'[g].expiration
     ELSE grant'[g] = grant[g]

(* What is taken away is taken away whole.                                   *)
LEMMA ShrinkStorage ==
  ASSUME StorageTyped, StorageInv, Shrink
  PROVE  StorageInv'
  <1>1. KeyedByID'
    BY DEF Shrink, SameGrant, StorageInv, KeyedByID, StorageTyped
  <1>2. GrantInv'
    BY DEF Shrink, SameGrant, SameOwner, StorageInv, GrantInv, Owned
  <1>3. TokenInv'
    BY DEF Shrink, SameGrant, SameOwner, StorageInv, TokenInv, Exists
  <1>4. \A g \in Grants : Live(g)' => Live(g)
    BY TokensAssumption DEF Shrink, Live
  <1>5. ReachInv'
    <2> SUFFICES ASSUME NEW g \in Grants, Live(g)', ~grant'[g].accessRevoked
                 PROVE  Exists(grant[g].id)' /\ tokens'[grant[g].id].grant = g
      BY DEF ReachInv, Shrink, SameGrant
    <2>1. PICK n \in Ids : refreshers'[n] = g
      BY DEF Live
    <2>2. refreshers[n] = g /\ refreshers'[n] # NoGrant
      BY <2>1, TokensAssumption DEF Shrink
    <2>3. n = grant[g].id /\ n # 0
      <3>1. refreshers[n] # NoGrant /\ n # 0
        BY <2>2, Bounds, TokensAssumption DEF Ids
      <3> QED BY <2>2, <3>1 DEF StorageInv, KeyedByID
    <2>4. Born(g)
      BY <2>3, NothingType DEF Born
    <2>5. Exists(n) /\ tokens[n].grant = g
      BY <1>4, <2>3 DEF StorageInv, ReachInv, Shrink, SameGrant
    <2>6. tokens'[n] = tokens[n]
      BY <2>2, <2>3, <2>4 DEF Shrink
    <2> QED BY <2>3, <2>5, <2>6 DEF Exists, Shrink, SameGrant
  <1>6. OnlyCurrentTokenLives'
    <2> SUFFICES ASSUME NEW n \in Ids, Exists(n)', tokens'[n].delivered
                 PROVE  Live(tokens[n].grant)' /\ n = grant'[tokens'[n].grant].accessTokenID
      BY DEF OnlyCurrentTokenLives
    <2> DEFINE g == tokens[n].grant
    <2>1. tokens'[n] = tokens[n] /\ Exists(n)
      BY DEF Shrink, Exists
    <2>2. g \in Grants /\ Live(g) /\ n = grant[g].accessTokenID /\ n = grant[g].id
      BY <2>1 DEF StorageInv, TokenInv, GrantInv, OnlyCurrentTokenLives
    <2>3. PICK m \in Ids : refreshers[m] = g
      BY <2>2 DEF Live
    <2>4. m = n
      BY <2>2, <2>3, TokensAssumption DEF StorageInv, KeyedByID
    <2>5. refreshers'[n] = g
      BY <2>1, <2>3, <2>4 DEF Shrink, Exists
    <2> QED BY <2>1, <2>2, <2>5 DEF Live, Shrink, SameGrant
  <1> QED BY <1>1, <1>2, <1>3, <1>5, <1>6 DEF StorageInv

(* What is minted is keyed by its own id, and the grant's old id is gone.    *)
LEMMA GrowStorage ==
  ASSUME StorageTyped, StorageInv, NEW g \in Grants, NEW delivers \in BOOLEAN, NEW gone,
         Grow(g, delivers, gone)
  PROVE  StorageInv'
  <1> DEFINE n == mints + 1
  <1>n. /\ n \in Ids /\ n \in Nat /\ mints \in Nat /\ mints' = n
        /\ \A m \in 1..mints : m \in Ids /\ m # n /\ m \in 1..n
    BY Bounds DEF Grow, StorageTyped, Ids
  <1>o. \A m \in Ids \ {n} :
          /\ refreshers'[m] = IF m \in gone THEN NoGrant ELSE refreshers[m]
          /\ tokens'[m] = IF m \in gone THEN NoToken ELSE tokens[m]
    BY DEF Grow
  <1>b. \A f \in Grants : Born(f) => Born(f)' /\ SameOwner(f)
    BY DEF Grow, Born, SameOwner
  <1>1. KeyedByID'
    BY <1>n, <1>o, TokensAssumption DEF Grow, StorageInv, KeyedByID, StorageTyped
  <1>2. GrantInv'
    <2>1. ASSUME NEW f \in Grants \ {g}
          PROVE  /\ grant'[f].id = grant'[f].accessTokenID
                 /\ Born(f)' => grant'[f].id \in 1..n /\ Owned(f)'
      BY <1>n, <2>1 DEF Grow, StorageInv, GrantInv, Born, Owned
    <2>2. CASE delivers
      BY <1>n, <2>1, <2>2 DEF Grow, GrantInv
    <2>3. CASE ~delivers
      BY <1>n, <2>1, <2>3 DEF Grow, GrantInv, StorageInv, Born
    <2> QED BY <2>2, <2>3
  <1>3. TokenInv'
    <2> SUFFICES ASSUME NEW m \in Ids, Exists(m)'
                 PROVE  /\ tokens'[m].refreshID = m
                        /\ tokens'[m].grant \in Grants /\ Born(tokens[m].grant)'
                        /\ tokens'[m].client = grant'[tokens'[m].grant].applicationID
                        /\ tokens'[m].subject = grant'[tokens'[m].grant].userID
                        /\ tokens'[m].audience = grant'[tokens'[m].grant].audience
      BY DEF TokenInv
    <2>1. CASE m = n
      BY <2>1 DEF Grow
    <2>2. CASE m # n
      <3>1. tokens'[m] = tokens[m] /\ Exists(m)
        BY <1>o, <2>2 DEF Exists
      <3> QED BY <1>b, <3>1 DEF StorageInv, TokenInv, SameOwner
    <2> QED BY <2>1, <2>2
  <1>5. ReachInv'
    <2> SUFFICES ASSUME NEW f \in Grants, Live(f)', ~grant'[f].accessRevoked
                 PROVE  Exists(grant[f].id)' /\ tokens'[grant'[f].id].grant = f
      BY DEF ReachInv
    <2>1. CASE f = g /\ delivers
      BY <2>1 DEF Grow, Exists
    <2>2. CASE ~(f = g /\ delivers)
      <3>1. grant'[f] = grant[f]
        BY <2>2 DEF Grow
      <3>2. PICK m \in Ids : refreshers'[m] = f
        BY DEF Live
      <3>3. m # n
        BY <2>2, <3>2, TokensAssumption DEF Grow
      <3>4. m \notin gone /\ refreshers[m] = f /\ tokens'[m] = tokens[m]
        BY <1>o, <3>2, <3>3, TokensAssumption
      <3>5. m = grant[f].id
        BY <3>4, TokensAssumption DEF StorageInv, KeyedByID
      <3>6. Exists(m) /\ tokens[m].grant = f
        BY <3>1, <3>4, <3>5 DEF StorageInv, ReachInv, Live
      <3> QED BY <3>1, <3>4, <3>5, <3>6 DEF Exists
    <2> QED BY <2>1, <2>2
  <1>6. OnlyCurrentTokenLives'
    <2> SUFFICES ASSUME NEW m \in Ids, Exists(m)', tokens'[m].delivered
                 PROVE  Live(tokens[m].grant)' /\ m = grant'[tokens'[m].grant].accessTokenID
      BY DEF OnlyCurrentTokenLives
    <2>1. CASE m = n
      BY <1>n, <2>1 DEF Grow, Live
    <2>2. CASE m # n
      <3> DEFINE f == tokens[m].grant
      <3>1. m \notin gone /\ tokens'[m] = tokens[m] /\ Exists(m)
        BY <1>o, <2>2 DEF Exists
      <3>2. f \in Grants /\ Live(f) /\ m = grant[f].accessTokenID /\ m = grant[f].id
        BY <3>1 DEF StorageInv, TokenInv, GrantInv, OnlyCurrentTokenLives
      <3>3. PICK k \in Ids : refreshers[k] = f
        BY <3>2 DEF Live
      <3>4. k = m
        BY <3>2, <3>3, TokensAssumption DEF StorageInv, KeyedByID
      <3>5. refreshers'[m] = f
        BY <1>o, <2>2, <3>1, <3>3, <3>4
      <3>6. ~(f = g /\ delivers)
        BY <3>1, <3>3, <3>4 DEF Grow
      <3>7. grant'[f] = grant[f]
        BY <3>2, <3>6 DEF Grow
      <3> QED BY <3>1, <3>2, <3>5, <3>7 DEF Live
    <2> QED BY <2>1, <2>2
  <1> QED BY <1>1, <1>2, <1>3, <1>5, <1>6 DEF StorageInv

(* Every operation is one of the two kinds of step.                          *)
StorageStep ==
  \/ Shrink
  \/ \E g \in Grants, delivers \in BOOLEAN, gone \in SUBSET Ids : Grow(g, delivers, gone)

(* A storage in order is left in order by every operation.                   *)
LEMMA StorageStays ==
  ASSUME StorageTyped, StorageInv, StorageStep
  PROVE  StorageInv'
  <1>1. CASE Shrink
    BY <1>1, ShrinkStorage
  <1>2. ASSUME NEW g \in Grants, NEW delivers \in BOOLEAN, NEW gone \in SUBSET Ids,
               Grow(g, delivers, gone)
        PROVE  StorageInv'
    BY <1>2, GrowStorage
  <1> QED BY <1>1, <1>2 DEF StorageStep

(* Only the clock's tick changes the time.                                   *)
LEMMA TimeGoesOn ==
  ASSUME [Next]_vars
  PROVE  now' \in {now, now + 1}
  BY Zenon DEF Next, vars, Tick, CreateTokens, TokenRequestByRefreshToken, ValidateRefresh,
     SetCurrentScopes, Rotate, GetRefreshTokenInfo, RevokeToken, TerminateSession

(* Nothing that is spent comes back by either kind of step.                  *)
LEMMA DeadStays ==
  ASSUME StorageTyped, NEW f \in Grants, Born(f), Spent(f), StorageStep, now' \in {now, now + 1}
  PROVE  Spent(f)'
  <1>t. now \in Nat /\ grant[f].expiration \in Nat
    BY Bounds, TokensAssumption DEF StorageTyped, GrantType, Times
  <1>1. CASE Shrink
    <2>1. CASE ~Live(f)
      BY <1>1, <2>1, TokensAssumption DEF Shrink, Live, Spent
    <2>2. CASE now > grant[f].expiration
      BY <1>1, <1>t, <2>2 DEF Shrink, SameGrant, Spent
    <2> QED BY <2>1, <2>2 DEF Spent
  <1>2. ASSUME NEW g \in Grants, NEW delivers \in BOOLEAN, NEW gone \in SUBSET Ids,
               Grow(g, delivers, gone)
        PROVE  Spent(f)'
    <2>0. ~(f = g /\ delivers)
      BY <1>2 DEF Grow
    <2>1. grant'[f] = grant[f]
      BY <1>2, <2>0 DEF Grow
    <2>2. CASE ~Live(f)
      <3>1. \A m \in Ids \ {mints + 1} :
              refreshers'[m] = IF m \in gone THEN NoGrant ELSE refreshers[m]
        BY <1>2 DEF Grow
      <3>2. \A m \in Ids \ {mints + 1} : refreshers'[m] # f
        BY <2>2, <3>1, TokensAssumption DEF Live
      <3>3. refreshers'[mints + 1] # f
        BY <1>2, <2>0, TokensAssumption DEF Grow
      <3> QED BY <3>2, <3>3 DEF Live, Spent
    <2>3. CASE now > grant[f].expiration
      BY <1>t, <2>1, <2>3 DEF Spent
    <2> QED BY <2>2, <2>3 DEF Spent
  <1> QED BY <1>1, <1>2 DEF StorageStep
-----------------------------------------------------------------------------
(* Which operation is which kind of step.                                    *)

(* An operation that touches no token and no grant takes nothing away.       *)
LEMMA QuietKind ==
  ASSUME UNCHANGED <<mints, tokens, refreshers, grant>>
  PROVE  Shrink
  BY DEF Shrink, SameGrant, SameOwner, Born

(* A completed authorization mints a pair for a grant that had none.         *)
LEMMA CreateKind ==
  ASSUME IInv, NEW g \in Grants, NEW c \in ClientIDs, NEW s \in Subjects,
         NEW scopes \in SUBSET Scopes, CreateTokens(g, c, s, scopes)
  PROVE  /\ Grow(g, TRUE, {}) /\ StorageTyped'
         /\ tokens'[mints + 1].scopes = scopes
         /\ grant'[g].scopes = scopes /\ grant'[g].granted = scopes
         /\ UNCHANGED <<refresh, revocation>>
  <1> DEFINE n == mints + 1
             made == [id |-> n, accessTokenID |-> n, expiration |-> now + RefreshLifetime,
                      scopes |-> scopes, userID |-> s, applicationID |-> ClientOf(g, c),
                      audience |-> {c}, issuedTo |-> c, granted |-> scopes, accessRevoked |-> FALSE]
             token == [client |-> ClientOf(g, c), subject |-> s, audience |-> {c}, refreshID |-> n,
                       expiration |-> now + AccessLifetime, scopes |-> scopes, grant |-> g,
                       delivered |-> TRUE]
  <1>t. StorageTyped
    BY TypeParts DEF IInv
  <1>n. /\ n \in Ids /\ n \in 0..MaxMints /\ n # 0 /\ ~Born(g)
        /\ mints \in Nat /\ \A m \in Ids : m > n => m > mints
    BY <1>t, Bounds DEF CreateTokens, StorageTyped, Ids
  <1>1. /\ mints' = n /\ now' = now
        /\ grant' = [grant EXCEPT ![g] = made]
        /\ tokens' = [tokens EXCEPT ![n] = token]
        /\ refreshers' = [refreshers EXCEPT ![n] = g]
        /\ UNCHANGED <<refresh, revocation>>
    BY DEF CreateTokens
  <1>c. ClientOf(g, c) \in ClientIDs \cup {NoClient}
    BY DEF ClientOf
  <1>2. made \in GrantType
    BY <1>t, <1>n, <1>c, Bounds DEF GrantType, StorageTyped, ReadScopes
  <1>3. token \in TokenType
    BY <1>t, <1>n, <1>c, Bounds DEF TokenType, StorageTyped, ReadScopes
  <1>4. /\ made.id = n /\ made.accessTokenID = n /\ made.scopes = scopes /\ made.granted = scopes
        /\ made # Unborn
        /\ token.grant = g /\ token.refreshID = n /\ token.delivered = TRUE
        /\ token.client = made.applicationID /\ token.subject = made.userID
        /\ token.audience = made.audience
        /\ token.scopes = scopes /\ token # NoToken
        /\ made.audience = {made.issuedTo} /\ now <= made.expiration
        /\ g \notin DeviceGrants => made.applicationID = made.issuedTo
    <2>0. /\ now <= now + RefreshLifetime
          /\ g \notin DeviceGrants => ClientOf(g, c) = c
      BY <1>t, TokensAssumption, Bounds DEF StorageTyped, ClientOf
    <2>1. made.id = n /\ token.refreshID = n /\ Unborn.id = 0 /\ NoToken.refreshID = 0
      BY DEF Unborn, NoToken
    <2>2. made # Unborn /\ token # NoToken
      <3> HIDE DEF made, token
      <3> QED BY <1>n, <2>1
    <2> QED BY <2>0, <2>1, <2>2
  <1> HIDE DEF made, token
  <1>5. /\ grant'[g] = made /\ \A f \in Grants \ {g} : grant'[f] = grant[f]
        /\ tokens'[n] = token /\ refreshers'[n] = g
        /\ \A m \in Ids \ {n} : tokens'[m] = tokens[m] /\ refreshers'[m] = refreshers[m]
    BY <1>t, <1>n, <1>1 DEF StorageTyped
  <1>6. StorageTyped'
    BY <1>t, <1>n, <1>1, <1>2, <1>3 DEF StorageTyped
  <1>7. \A m \in Ids : refreshers[m] # g
    BY <1>n, NothingType, TokensAssumption, Bounds DEF IInv, StorageInv, KeyedByID, Born, Ids
  <1>8. Grow(g, TRUE, {})
    <2>1. Born(g)' /\ Owned(g)'
      BY <1>4, <1>5 DEF Born, Owned
    <2>2. /\ tokens'[n] # NoToken /\ tokens'[n].grant = g /\ tokens'[n].refreshID = n
          /\ tokens'[n].delivered = TRUE
          /\ tokens'[n].client = grant'[g].applicationID
          /\ tokens'[n].subject = grant'[g].userID
          /\ tokens'[n].audience = grant'[g].audience
          /\ grant'[g].id = n /\ grant'[g].accessTokenID = n /\ now <= grant'[g].expiration
      BY <1>4, <1>5
    <2> QED BY <1>n, <1>1, <1>5, <1>7, <2>1, <2>2 DEF Grow
  <1> QED BY <1>1, <1>4, <1>5, <1>6, <1>8

(* A torn read yields no scope that was in none of the lists it is torn from *)
(* (two writes of the header at once, SetCurrentScopes).                     *)
LEMMA TornWithin ==
  ASSUME NEW lists, NEW S, \A list \in lists : list \ {Garbage} \subseteq S
  PROVE  \A t \in TornFrom(lists) : t \ {Garbage} \subseteq S
  <1> SUFFICES ASSUME NEW t \in TornFrom(lists)
               PROVE  t \ {Garbage} \subseteq S
    OBVIOUS
  <1>1. PICK list \in lists : t \in SUBSET list \/ t = list \cup {Garbage}
    BY DEF TornFrom
  <1>2. list \ {Garbage} \subseteq S
    OBVIOUS
  <1> QED BY <1>1, <1>2

(* GetScopes returns what the grant has and what is being written to it.     *)
LEMMA SeenWithin ==
  ASSUME NEW g, NEW S, grant[g].scopes \ {Garbage} \subseteq S,
         \A h \in Writers(g) : refresh[h].ask \ {Garbage} \subseteq S
  PROVE  \A t \in ScopesSeen(g) : t \ {Garbage} \subseteq S
  <1> DEFINE asked == {refresh[h].ask : h \in Writers(g)}
             lists == asked \cup {grant[g].scopes}
  <1>1. \A list \in lists : list \ {Garbage} \subseteq S
    OBVIOUS
  <1>2. ScopesSeen(g) \subseteq lists \cup TornFrom(lists)
    BY DEF ScopesSeen
  <1> HIDE DEF lists
  <1>3. \A t \in TornFrom(lists) : t \ {Garbage} \subseteq S
    BY <1>1, TornWithin
  <1> QED BY <1>1, <1>2, <1>3

(* What a read yields is a set of scopes, and garbage at most.               *)
LEMMA SeenType ==
  ASSUME TypeOK, NEW g \in Grants
  PROVE  ScopesSeen(g) \subseteq ReadScopes
  <1>1. grant[g].scopes \in ReadScopes
    BY TypeParts DEF StorageTyped, GrantType
  <1>2. \A h \in Writers(g) : refresh[h].ask \subseteq Scopes
    BY TypeParts DEF HandlersTyped, RefreshType, Writers
  <1>3. grant[g].scopes \ {Garbage} \subseteq Scopes
    BY <1>1 DEF ReadScopes
  <1>4. \A h \in Writers(g) : refresh[h].ask \ {Garbage} \subseteq Scopes
    BY <1>2
  <1>5. \A t \in ScopesSeen(g) : t \ {Garbage} \subseteq Scopes
    BY <1>3, <1>4, SeenWithin
  <1>6. \A t \in ScopesSeen(g) : t \in SUBSET (Scopes \cup {Garbage})
    BY <1>5
  <1> QED BY <1>6 DEF ReadScopes

(* Renewing an object re-keys it and leaves alone who it is for.             *)
LEMMA RenewedRecord ==
  ASSUME NEW g \in Grants, grant[g] \in GrantType, mints + 1 \in 0..MaxMints,
         now + RefreshLifetime \in Times
  PROVE  /\ Renewed(g) \in GrantType
         /\ Renewed(g).id = mints + 1 /\ Renewed(g).accessTokenID = mints + 1
         /\ Renewed(g).applicationID = grant[g].applicationID
         /\ Renewed(g).userID = grant[g].userID
         /\ Renewed(g).audience = grant[g].audience /\ Renewed(g).issuedTo = grant[g].issuedTo
         /\ Renewed(g).granted = grant[g].granted /\ Renewed(g).scopes = grant[g].scopes
         /\ Renewed(g).expiration = now + RefreshLifetime
  BY DEF Renewed, GrantType

(* A refresh mints an access token whatever becomes of the rotation, and the *)
(* refresh token presented goes if it was still there.                       *)
LEMMA RotateKind ==
  ASSUME IInv, NEW h \in Refreshes, Rotate(h), NEW g, g = refresh[h].grant
  PROVE  LET gone == IF Found(h) THEN {refresh[h].current} ELSE {}
         IN /\ g \in Grants /\ Born(g)
            /\ Grow(g, MayRotate(h), gone)
            /\ StorageTyped'
            /\ tokens'[mints + 1].scopes \in ScopesSeen(g)
            /\ grant'[g].scopes = grant[g].scopes
            /\ refreshers'[refresh[h].current] = NoGrant
  <1> DEFINE c == refresh[h].current
             n == mints + 1
             gone == IF Found(h) THEN {c} ELSE {}
  <1>t. StorageTyped
    BY TypeParts DEF IInv
  <1>h. /\ g \in Grants /\ Born(g) /\ c \in 1..mints
        /\ refreshers[c] \in {NoGrant, g}
        /\ refresh[h].pc = "rotate" /\ mints < MaxMints /\ mints' = n
        /\ now' = now
    BY DEF IInv, HandlerInv, Handler, Active, Rotate
  <1>n. /\ n \in Ids /\ n \in 0..MaxMints /\ n # 0 /\ c \in Ids /\ c # n
        /\ mints \in Nat /\ \A m \in Ids : m > n => m > mints
    BY <1>t, <1>h, Bounds DEF StorageTyped, Ids
  <1>1. PICK scopes \in ScopesSeen(g) : tokens' = TokensAfter(h, scopes)
    BY DEF Rotate
  <1> DEFINE token == AccessToken(g, scopes, MayRotate(h))
             a == grant[g].accessTokenID
  <1>a. a = grant[g].id /\ a \in 1..mints /\ a # n /\ a \in Ids
    BY <1>t, <1>h, <1>n, Bounds DEF IInv, StorageInv, GrantInv, StorageTyped, Ids
  <1>c. Found(h) => refreshers[c] = g /\ c = a
    BY <1>h, <1>n, <1>a, TokensAssumption DEF Found, IInv, StorageInv, KeyedByID
  <1>2. tokens' = [tokens EXCEPT ![a] = IF Found(h) THEN NoToken ELSE @, ![n] = token]
    BY <1>1 DEF TokensAfter
  <1>3. refreshers' = [refreshers EXCEPT ![c] = NoGrant,
                                         ![n] = IF MayRotate(h) THEN g ELSE NoGrant]
    BY DEF Rotate, RefreshersAfter
  <1>4. grant' = IF MayRotate(h) THEN [grant EXCEPT ![g] = Renewed(g)] ELSE grant
    BY DEF Rotate
  <1>s. scopes \in ReadScopes
    BY <1>h, SeenType DEF IInv
  <1>b. MayRotate(h) \in BOOLEAN
    BY DEF MayRotate
  <1>g. /\ grant[g] \in GrantType
        /\ grant[g].applicationID \in ClientIDs \cup {NoClient}
        /\ grant[g].userID \in Subjects \cup {NoSubject}
        /\ grant[g].audience \in SUBSET ClientIDs
    BY <1>t, <1>h DEF StorageTyped, GrantType
  <1>5. token \in TokenType
    BY <1>t, <1>n, <1>s, <1>b, <1>g, <1>h, Bounds DEF AccessToken, TokenType, StorageTyped
  <1>6. /\ token.grant = g /\ token.refreshID = n /\ token.delivered = MayRotate(h)
        /\ token.client = grant[g].applicationID /\ token.subject = grant[g].userID
        /\ token.audience = grant[g].audience /\ token.scopes = scopes
    BY DEF AccessToken
  <1>7. token # NoToken
    BY <1>6, <1>h, TokensAssumption DEF NoToken
  <1> DEFINE renewed == Renewed(g)
  <1>8. /\ renewed \in GrantType /\ renewed # Unborn
        /\ renewed.id = n /\ renewed.accessTokenID = n
        /\ renewed.applicationID = grant[g].applicationID /\ renewed.userID = grant[g].userID
        /\ renewed.audience = grant[g].audience /\ renewed.issuedTo = grant[g].issuedTo
        /\ renewed.granted = grant[g].granted /\ renewed.scopes = grant[g].scopes
        /\ now <= renewed.expiration
    <2>1. now + RefreshLifetime \in Times /\ now <= now + RefreshLifetime
      BY <1>t, Bounds, TokensAssumption DEF StorageTyped
    <2>3. /\ renewed \in GrantType /\ renewed.id = n /\ renewed.accessTokenID = n
          /\ renewed.applicationID = grant[g].applicationID /\ renewed.userID = grant[g].userID
          /\ renewed.audience = grant[g].audience /\ renewed.issuedTo = grant[g].issuedTo
          /\ renewed.granted = grant[g].granted /\ renewed.scopes = grant[g].scopes
          /\ renewed.expiration = now + RefreshLifetime
      BY <1>h, <1>g, <1>n, <2>1, RenewedRecord
    <2> QED BY <1>n, <2>1, <2>3, NothingType
  <1> HIDE DEF token, renewed
  <1>9. /\ tokens'[n] = token
        /\ \A m \in Ids \ {n} : tokens'[m] = IF m \in gone THEN NoToken ELSE tokens[m]
    BY <1>t, <1>n, <1>2, <1>a, <1>c DEF StorageTyped
  <1>10. /\ refreshers'[n] = IF MayRotate(h) THEN g ELSE NoGrant
         /\ \A m \in Ids \ {n} : refreshers'[m] = IF m \in gone THEN NoGrant ELSE refreshers[m]
         /\ refreshers'[c] = NoGrant
    BY <1>t, <1>n, <1>3 DEF StorageTyped, Found
  <1>11. /\ \A f \in Grants \ {g} : grant'[f] = grant[f]
         /\ grant'[g] = IF MayRotate(h) THEN renewed ELSE grant[g]
    BY <1>t, <1>h, <1>4 DEF StorageTyped, renewed
  <1>12. StorageTyped'
    <2>1. tokens' \in [Ids -> TokenType]
      BY <1>t, <1>2, <1>5, NothingType DEF StorageTyped
    <2>2. refreshers' \in [Ids -> Grants \cup {NoGrant}]
      BY <1>t, <1>3, <1>h DEF StorageTyped
    <2>3. grant' \in [Grants -> GrantType]
      BY <1>t, <1>4, <1>8 DEF StorageTyped, renewed
    <2>4. \A m \in Ids : m > n => tokens'[m] = NoToken /\ refreshers'[m] = NoGrant
      BY <1>t, <1>n, <1>9, <1>10 DEF StorageTyped
    <2> QED BY <1>t, <1>h, <1>n, <2>1, <2>2, <2>3, <2>4 DEF StorageTyped
  <1>13. Grow(g, MayRotate(h), gone)
    <2>1. gone \in SUBSET (1..mints) /\ \A m \in gone : refreshers[m] = g
      BY <1>h, <1>c
    <2>2. grant'[g] # Unborn
      BY <1>h, <1>8, <1>11 DEF Born
    <2>b. Born(g)'
      BY <2>2 DEF Born
    <2>3. SameOwner(g)
      BY <1>8, <1>11 DEF SameOwner
    <2>o. Owned(g)'
      BY <1>h, <2>3 DEF IInv, StorageInv, GrantInv, Owned, SameOwner
    <2>c. /\ tokens'[n].client = grant'[g].applicationID /\ tokens'[n].subject = grant'[g].userID
          /\ tokens'[n].audience = grant'[g].audience
      BY <1>6, <1>9, <2>3 DEF SameOwner
    <2>4. CASE MayRotate(h)
      <3>1. grant'[g].id = n /\ grant'[g].accessTokenID = n
        BY <1>8, <1>11, <2>4
      <3>2. Found(h) /\ refreshers[c] = g /\ c = a /\ gone = {c}
        BY <1>c, <2>4 DEF MayRotate
      <3>3. Live(g) /\ \A m \in Ids : refreshers[m] = g => m = c
        BY <1>n, <1>h, <1>a, <3>2, TokensAssumption DEF Live, IInv, StorageInv, KeyedByID
      <3>4. ~Spent(g) /\ now <= grant'[g].expiration
        <4>1. now \in Nat /\ grant[g].expiration \in Nat
          BY <1>t, <1>g, Bounds, TokensAssumption DEF StorageTyped, GrantType, Times
        <4> QED BY <1>h, <1>8, <1>11, <2>4, <3>3, <4>1 DEF MayRotate, Spent
      <3> QED BY <1>h, <1>n, <1>6, <1>7, <1>9, <1>10, <1>11, <2>1, <2>b, <2>3, <2>o, <2>c, <2>4,
                 <3>1, <3>2, <3>3, <3>4 DEF Grow
    <2>5. CASE ~MayRotate(h)
      BY <1>h, <1>n, <1>6, <1>7, <1>9, <1>10, <1>11, <2>1, <2>b, <2>3, <2>o, <2>c, <2>5 DEF Grow
    <2> QED BY <2>4, <2>5
  <1>14. grant'[g].scopes = grant[g].scopes /\ tokens'[n].scopes \in ScopesSeen(g)
    BY <1>1, <1>6, <1>8, <1>9, <1>11
  <1> QED BY <1>h, <1>10, <1>12, <1>13, <1>14

(* A grant that exists bears an id, whatever else of it is changed.          *)
LEMMA StaysBorn ==
  ASSUME GrantInv, StorageTyped, NEW g \in Grants,
         grant'[g].id = grant[g].id, ~Born(g) => grant'[g] = grant[g]
  PROVE  Born(g)' = Born(g)
  <1>1. CASE Born(g)
    <2>1. grant[g].id # 0
      BY <1>1, Bounds DEF GrantInv, StorageTyped
    <2>2. grant'[g] # Unborn
      BY <2>1, NothingType
    <2> QED BY <1>1, <2>2 DEF Born
  <1>2. CASE ~Born(g)
    <2>1. grant'[g] = Unborn
      BY <1>2 DEF Born
    <2> QED BY <1>2, <2>1 DEF Born
  <1> QED BY <1>1, <1>2

(* Revoking an access token leaves the grant's refresh token, and marks it;  *)
(* revoking a refresh token takes both.                                      *)
LEMMA RevokeKind ==
  ASSUME IInv, NEW v \in Revocations, RevokeToken(v)
  PROVE  /\ Shrink /\ StorageTyped'
         /\ \A g \in Grants : grant'[g].scopes = grant[g].scopes
         /\ UNCHANGED refresh
  <1> DEFINE n == revocation[v].id
  <1>t. StorageTyped
    BY TypeParts DEF IInv
  <1>n. /\ n \in 1..mints /\ n \in Ids /\ mints' = mints /\ now' = now /\ refresh' = refresh
        /\ revocation[v].pc = "revoke"
    BY <1>t, Bounds DEF IInv, HandlerInv, RevokeToken, StorageTyped, Ids
  <1>q. ASSUME UNCHANGED <<tokens, refreshers, grant>>
        PROVE  /\ Shrink /\ StorageTyped'
               /\ \A g \in Grants : grant'[g].scopes = grant[g].scopes
    BY <1>t, <1>n, <1>q, QuietKind DEF StorageTyped
  <1>1. CASE /\ tokens' = [tokens EXCEPT ![n] = NoToken]
             /\ grant' = [i \in Grants |-> IF Born(i) /\ grant[i].accessTokenID = n
                                           THEN [grant[i] EXCEPT !.accessRevoked = TRUE]
                                           ELSE grant[i]]
             /\ UNCHANGED refreshers
    <2>1. ASSUME NEW g \in Grants
          PROVE  /\ SameGrant(g) /\ grant'[g] \in GrantType
                 /\ grant'[g].scopes = grant[g].scopes
                 /\ Born(g) /\ grant[g].id = n => grant'[g].accessRevoked
      <3>1. grant'[g] = IF Born(g) /\ grant[g].accessTokenID = n
                        THEN [grant[g] EXCEPT !.accessRevoked = TRUE] ELSE grant[g]
        BY <1>1
      <3>2. grant[g] \in GrantType
        BY <1>t DEF StorageTyped
      <3>3. /\ grant'[g] \in GrantType
            /\ grant'[g].id = grant[g].id /\ grant'[g].accessTokenID = grant[g].accessTokenID
            /\ SameOwner(g) /\ grant'[g].expiration = grant[g].expiration
            /\ grant'[g].scopes = grant[g].scopes
            /\ grant[g].accessRevoked => grant'[g].accessRevoked
            /\ Born(g) /\ grant[g].accessTokenID = n => grant'[g].accessRevoked
            /\ ~Born(g) => grant'[g] = grant[g]
        BY <3>1, <3>2 DEF GrantType, SameOwner
      <3>4. Born(g)' = Born(g)
        BY <1>t, <3>3, StaysBorn DEF IInv, StorageInv
      <3>5. grant[g].id = grant[g].accessTokenID
        BY DEF IInv, StorageInv, GrantInv
      <3> QED BY <3>3, <3>4, <3>5 DEF SameGrant
    <2>2. \A m \in Ids : /\ tokens'[m] = IF m = n THEN NoToken ELSE tokens[m]
                         /\ refreshers'[m] = refreshers[m]
      BY <1>t, <1>1, <1>n DEF StorageTyped
    <2>3. Shrink
      BY <1>n, <2>1, <2>2 DEF Shrink
    <2>4. StorageTyped'
      <3>1. tokens' \in [Ids -> TokenType]
        BY <1>t, <1>1, NothingType DEF StorageTyped
      <3>2. grant' \in [Grants -> GrantType]
        BY <1>1, <2>1
      <3> QED BY <1>t, <1>1, <1>n, <2>2, <3>1, <3>2 DEF StorageTyped
    <2> QED BY <1>n, <2>1, <2>3, <2>4
  <1>2. ASSUME NEW g \in Grants, refreshers[n] = g,
               refreshers' = [refreshers EXCEPT ![grant[g].id] = NoGrant],
               tokens' = [tokens EXCEPT ![grant[g].accessTokenID] = NoToken],
               UNCHANGED grant
        PROVE  Shrink /\ StorageTyped'
    <2>1. grant[g].id = n /\ grant[g].accessTokenID = n
      BY <1>n, <1>2, TokensAssumption DEF IInv, StorageInv, KeyedByID, GrantInv
    <2>2. \A m \in Ids : /\ tokens'[m] = IF m = n THEN NoToken ELSE tokens[m]
                         /\ refreshers'[m] = IF m = n THEN NoGrant ELSE refreshers[m]
      BY <1>t, <1>2, <1>n, <2>1 DEF StorageTyped
    <2>3. \A f \in Grants : SameGrant(f)
      BY <1>2 DEF SameGrant, SameOwner, Born
    <2>4. Shrink
      BY <1>n, <2>2, <2>3 DEF Shrink
    <2>5. StorageTyped'
      BY <1>t, <1>2, <1>n, <2>1, <2>2, NothingType DEF StorageTyped
    <2> QED BY <2>4, <2>5
  <1>3. refreshers[n] # NoGrant => refreshers[n] \in Grants
    BY <1>t, <1>n DEF StorageTyped
  <1>4. \/ UNCHANGED <<tokens, refreshers, grant>>
        \/ /\ tokens' = [tokens EXCEPT ![n] = NoToken]
           /\ grant' = [i \in Grants |-> IF Born(i) /\ grant[i].accessTokenID = n
                                         THEN [grant[i] EXCEPT !.accessRevoked = TRUE]
                                         ELSE grant[i]]
           /\ UNCHANGED refreshers
        \/ /\ refreshers[n] # NoGrant
           /\ refreshers' = [refreshers EXCEPT ![grant[refreshers[n]].id] = NoGrant]
           /\ tokens' = [tokens EXCEPT ![grant[refreshers[n]].accessTokenID] = NoToken]
           /\ UNCHANGED grant
    BY Zenon DEF RevokeToken
  <1>5. CASE /\ refreshers[n] # NoGrant
             /\ refreshers' = [refreshers EXCEPT ![grant[refreshers[n]].id] = NoGrant]
             /\ tokens' = [tokens EXCEPT ![grant[refreshers[n]].accessTokenID] = NoToken]
             /\ UNCHANGED grant
    <2> DEFINE g == refreshers[n]
    <2>1. g \in Grants /\ Shrink /\ StorageTyped'
      BY <1>2, <1>3, <1>5
    <2> QED BY <1>5, <1>n, <2>1
  <1> QED BY <1>q, <1>1, <1>4, <1>5, <1>n

(* end_session takes a refresh token with the access token that names it.    *)
LEMMA TerminateKind ==
  ASSUME IInv, NEW s \in Subjects, NEW c \in ClientIDs, TerminateSession(s, c)
  PROVE  Shrink /\ StorageTyped' /\ UNCHANGED <<grant, refresh, revocation>>
  <1> DEFINE ended == {n \in Ids : Exists(n) /\ tokens[n].client = c /\ tokens[n].subject = s}
             refreshIDs == {tokens[n].refreshID : n \in ended}
  <1>t. StorageTyped
    BY TypeParts DEF IInv
  <1>1. /\ tokens' = [n \in Ids |-> IF n \in ended THEN NoToken ELSE tokens[n]]
        /\ refreshers' = [n \in Ids |-> IF n \in refreshIDs THEN NoGrant ELSE refreshers[n]]
        /\ UNCHANGED <<now, mints, grant, refresh, revocation>>
    BY DEF TerminateSession
  <1>2. refreshIDs = ended
    BY DEF IInv, StorageInv, TokenInv
  <1> HIDE DEF ended, refreshIDs
  <1>3. \A n \in Ids : /\ tokens'[n] = IF n \in ended THEN NoToken ELSE tokens[n]
                       /\ refreshers'[n] = IF n \in ended THEN NoGrant ELSE refreshers[n]
    BY <1>1, <1>2
  <1>4. \A g \in Grants : SameGrant(g)
    BY <1>1 DEF SameGrant, SameOwner, Born
  <1>5. Shrink
    BY <1>1, <1>3, <1>4 DEF Shrink
  <1>6. StorageTyped'
    BY <1>t, <1>1, <1>3, NothingType DEF StorageTyped
  <1> QED BY <1>1, <1>5, <1>6

(* A write leaves what is asked for, or a part of what the writers ask for   *)
(* and the grant has.                                                        *)
LEMMA WrittenWithin ==
  ASSUME NEW h \in Refreshes, NEW S, refresh[h].pc = "writing",
         grant[refresh[h].grant].scopes \ {Garbage} \subseteq S,
         \A i \in Writers(refresh[h].grant) : refresh[i].ask \ {Garbage} \subseteq S
  PROVE  \A t \in ScopesWritten(h) : t \ {Garbage} \subseteq S
  <1> DEFINE g == refresh[h].grant
             lists == {refresh[h].ask, grant[g].scopes} \cup {refresh[i].ask : i \in Writers(g)}
  <1>1. h \in Writers(g)
    BY DEF Writers
  <1>2. \A list \in lists : list \ {Garbage} \subseteq S
    BY <1>1
  <1>3. ScopesWritten(h) \subseteq {refresh[h].ask} \cup TornFrom(lists)
    BY DEF ScopesWritten
  <1>4. refresh[h].ask \in lists
    OBVIOUS
  <1> HIDE DEF lists
  <1>5. \A t \in TornFrom(lists) : t \ {Garbage} \subseteq S
    BY <1>2, TornWithin
  <1> QED BY <1>2, <1>3, <1>4, <1>5

(* Writing an object's scopes changes nothing else of it, and garbage is     *)
(* left only where writes overlapped.                                        *)
LEMMA SetScopesKind ==
  ASSUME IInv, NEW h \in Refreshes, SetCurrentScopes(h), NEW g, g = refresh[h].grant
  PROVE  /\ g \in Grants /\ Shrink /\ StorageTyped'
         /\ \A f \in Grants \ {g} : grant'[f] = grant[f]
         /\ grant'[g].scopes \in ScopesWritten(h)
         /\ ~refresh[h].raced => grant'[g].scopes = refresh[h].ask
         /\ UNCHANGED tokens
  <1>t. StorageTyped /\ GrantInv
    BY TypeParts DEF IInv, StorageInv
  <1>h. /\ g \in Grants /\ Born(g) /\ refresh[h].pc = "writing"
        /\ UNCHANGED <<now, mints, tokens, refreshers>>
    BY DEF IInv, HandlerInv, Handler, Active, SetCurrentScopes
  <1>1. PICK scopes \in ScopesWritten(h) : grant' = [grant EXCEPT ![g].scopes = scopes]
    BY DEF SetCurrentScopes
  <1>2. scopes \in ReadScopes
    <2>1. grant[g].scopes \ {Garbage} \subseteq Scopes
      BY <1>t, <1>h DEF StorageTyped, GrantType, ReadScopes
    <2>2. \A i \in Writers(g) : refresh[i].ask \ {Garbage} \subseteq Scopes
      BY TypeParts DEF IInv, HandlersTyped, RefreshType, Writers
    <2>3. scopes \ {Garbage} \subseteq Scopes
      BY <1>h, <2>1, <2>2, WrittenWithin
    <2> QED BY <2>3 DEF ReadScopes
  <1>3. grant[g] \in GrantType
    BY <1>t, <1>h DEF StorageTyped
  <1>4. grant'[g] = [grant[g] EXCEPT !.scopes = scopes]
    BY <1>t, <1>h, <1>1 DEF StorageTyped
  <1>5. /\ grant'[g] \in GrantType /\ grant'[g].scopes = scopes
        /\ grant'[g].id = grant[g].id /\ grant'[g].accessTokenID = grant[g].accessTokenID
        /\ SameOwner(g) /\ grant'[g].expiration = grant[g].expiration
        /\ grant'[g].accessRevoked = grant[g].accessRevoked
    BY <1>2, <1>3, <1>4 DEF GrantType, SameOwner
  <1>6. \A f \in Grants \ {g} : grant'[f] = grant[f]
    BY <1>t, <1>1 DEF StorageTyped
  <1>7. \A f \in Grants : SameGrant(f)
    <2>1. Born(g)' = Born(g)
      BY <1>t, <1>h, <1>5, StaysBorn
    <2>2. ASSUME NEW f \in Grants \ {g}
          PROVE  SameGrant(f)
      BY <1>6 DEF SameGrant, SameOwner, Born
    <2>3. SameGrant(g)
      BY <1>5, <2>1 DEF SameGrant
    <2> QED BY <2>2, <2>3
  <1>8. Shrink
    BY <1>h, <1>7 DEF Shrink
  <1>9. StorageTyped'
    <2>1. grant' \in [Grants -> GrantType]
      BY <1>t, <1>1, <1>5, <1>6 DEF StorageTyped
    <2> QED BY <1>t, <1>h, <2>1 DEF StorageTyped
  <1>10. ~refresh[h].raced => scopes = refresh[h].ask
    BY <1>1 DEF ScopesWritten
  <1> QED BY <1>h, <1>1, <1>5, <1>6, <1>8, <1>9, <1>10
-----------------------------------------------------------------------------
(* What either kind of step leaves to the handlers: ids grow, a token names  *)
(* its grant or nothing, and a grant keeps its owner and what was granted.   *)
Forward ==
  /\ \A m \in 1..mints : m \in 1..mints'
  /\ \A m \in 1..mints : refreshers'[m] \in {refreshers[m], NoGrant}
  /\ \A f \in Grants : Born(f) => Born(f)' /\ SameOwner(f)

(* No operation renames what a handler may still hold.                       *)
LEMMA StepForward ==
  ASSUME StorageTyped, StorageStep
  PROVE  Forward
  <1>t. mints \in Nat /\ \A m \in 1..mints : m \in Ids /\ m # mints + 1
    BY Bounds DEF StorageTyped, Ids
  <1>1. CASE Shrink
    BY <1>1, <1>t DEF Shrink, Forward, SameGrant
  <1>2. ASSUME NEW g \in Grants, NEW delivers \in BOOLEAN, NEW gone \in SUBSET Ids,
               Grow(g, delivers, gone)
        PROVE  Forward
    <2>1. \A m \in 1..mints : m \in 1..mints' /\ refreshers'[m] \in {refreshers[m], NoGrant}
      BY <1>2, <1>t DEF Grow
    <2>2. \A f \in Grants : Born(f) => Born(f)' /\ SameOwner(f)
      BY <1>2 DEF Grow, Born, SameOwner
    <2> QED BY <2>1, <2>2 DEF Forward
  <1> QED BY <1>1, <1>2 DEF StorageStep

(* What a step may do to a refresh_token request: leave it alone, refuse it, *)
(* hand it an object, or take it a stage further with the same object; it is *)
(* answered only by taking a token that was still there.                     *)
Opened(h) ==
  /\ refresh[h].pc = "idle" /\ refresh'[h].pc = "validate" /\ ~refresh'[h].raced
  /\ refresh'[h].current \in 1..mints
  /\ refresh'[h].grant \in Grants /\ Born(refresh'[h].grant)
  /\ refreshers[refresh'[h].current] = refresh'[h].grant

Advanced(h) ==
  /\ refresh[h].pc \in Active /\ refresh'[h].pc \in Active \ {"validate"}
  /\ refresh'[h].grant = refresh[h].grant /\ refresh'[h].current = refresh[h].current
  /\ refresh'[h].pc = "answered" => Found(h) /\ refreshers'[refresh[h].current] = NoGrant
  /\ refresh'[h].pc = "writing" /\ NoRace' =>
       refresh'[h].ask \subseteq grant[refresh[h].grant].granted

HandlerStep(h) ==
  /\ refresh'[h] \in RefreshType
  /\ refresh'[h] = refresh[h] \/ refresh'[h].pc = "failed" \/ Opened(h) \/ Advanced(h)
  /\ refresh[h].raced => refresh'[h].raced

(* Requests that raced did so for good.                                      *)
LEMMA RacesAreRemembered ==
  ASSUME \A h \in Refreshes : HandlerStep(h), NoRace'
  PROVE  NoRace
  BY DEF HandlerStep, NoRace

(* Requests that move so, one at most to its answer, keep hold of what they  *)
(* looked up, and share no refresh token.                                    *)
LEMMA HandlersStay ==
  ASSUME IInv, Forward, NEW a,
         \A h \in Refreshes : HandlerStep(h),
         \A h \in Refreshes \ {a} : refresh'[h].pc = "answered" => refresh'[h] = refresh[h]
  PROVE  /\ \A h \in Refreshes : Handler(refresh[h])'
         /\ RefreshUsedOnce' /\ WritersEntitled'
  <1>h. \A h \in Refreshes : Handler(refresh[h])
    BY DEF IInv, HandlerInv
  <1>1. ASSUME NEW h \in Refreshes
        PROVE  Handler(refresh[h])'
    <2>1. CASE refresh'[h] = refresh[h]
      BY <1>h, <2>1 DEF Handler, Active, Forward, Born
    <2>2. CASE refresh'[h].pc = "failed"
      BY <2>2 DEF Handler, Active
    <2>3. CASE Opened(h)
      BY <2>3 DEF Handler, Active, Opened, Forward, Born
    <2>4. CASE Advanced(h)
      BY <1>h, <2>4 DEF Handler, Active, Advanced, Forward, Born
    <2> QED BY <2>1, <2>2, <2>3, <2>4 DEF HandlerStep
  <1>2. ASSUME NEW h \in Refreshes, refresh'[h].pc = "answered"
        PROVE  \/ refresh'[h] = refresh[h] /\ refreshers[refresh'[h].current] = NoGrant
               \/ h = a /\ refreshers[refresh'[h].current] # NoGrant
    <2>1. CASE refresh'[h] = refresh[h]
      BY <1>h, <1>2, <2>1 DEF Handler
    <2>2. CASE refresh'[h] # refresh[h]
      BY <1>2, <2>2 DEF HandlerStep, Opened, Advanced, Found
    <2> QED BY <2>1, <2>2
  <1>3. RefreshUsedOnce'
    BY <1>2 DEF IInv, RefreshUsedOnce
  <1>4. ASSUME NoRace', NEW h \in Refreshes, refresh'[h].pc = "writing"
        PROVE  refresh'[h].ask \subseteq grant'[refresh'[h].grant].granted
    <2>1. /\ refresh[h].pc \in Active /\ refresh'[h].grant = refresh[h].grant
          /\ refresh'[h].ask \subseteq grant[refresh[h].grant].granted
      BY <1>4, RacesAreRemembered
      DEF HandlerStep, Opened, Advanced, IInv, ScopeInv, WritersEntitled, Active
    <2>2. refresh[h].grant \in Grants /\ Born(refresh[h].grant)
      BY <1>h, <2>1 DEF Handler
    <2> QED BY <2>1, <2>2 DEF Forward, SameOwner
  <1> QED BY <1>1, <1>3, <1>4 DEF WritersEntitled

(* Where requests did not race, a new list of scopes is within what its      *)
(* grant was granted.                                                        *)
GrantScopesStep ==
  NoRace' => \A g \in Grants :
    \/ grant'[g].scopes = grant[g].scopes /\ grant'[g].granted = grant[g].granted
    \/ grant'[g].scopes \subseteq grant'[g].granted

TokenScopesStep ==
  NoRace' => \A n \in Ids :
    \/ tokens'[n] = tokens[n] \/ tokens'[n] = NoToken
    \/ tokens'[n].scopes \ {Garbage} \subseteq grant'[tokens'[n].grant].granted

(* Scopes of grants and tokens stay within what was granted if new ones are. *)
LEMMA ScopesStay ==
  ASSUME IInv, Forward, WritersEntitled', GrantScopesStep, TokenScopesStep,
         \A h \in Refreshes : HandlerStep(h)
  PROVE  ScopeInv'
  <1> SUFFICES ASSUME NoRace' PROVE ScopesWithinGrant'
    BY DEF ScopeInv, ScopesWithinGrant
  <1>r. NoRace
    BY RacesAreRemembered
  <1>1. \A g \in Grants : grant'[g].scopes \subseteq grant'[g].granted
    BY <1>r DEF IInv, ScopeInv, ScopesWithinGrant, GrantScopesStep
  <1>2. ASSUME NEW n \in Ids, Exists(n)'
        PROVE  tokens'[n].scopes \ {Garbage} \subseteq grant'[tokens'[n].grant].granted
    <2>1. CASE tokens'[n] = tokens[n]
      <3>1. Exists(n) /\ tokens[n].grant \in Grants /\ Born(tokens[n].grant)
        BY <1>2, <2>1 DEF Exists, IInv, StorageInv, TokenInv
      <3>2. tokens[n].scopes \ {Garbage} \subseteq grant[tokens[n].grant].granted
        BY <1>r, <3>1 DEF IInv, ScopeInv, ScopesWithinGrant
      <3> QED BY <2>1, <3>1, <3>2 DEF Forward, SameOwner
    <2>2. tokens'[n] # NoToken
      BY <1>2 DEF Exists
    <2> QED BY <2>1, <2>2 DEF TokenScopesStep
  <1> QED BY <1>1, <1>2 DEF ScopesWithinGrant

RevocationStep ==
  /\ revocation' \in [Revocations -> RevocationType]
  /\ \A v \in Revocations : revocation'[v].pc = "revoke" =>
       \/ revocation'[v] = revocation[v]
       \/ revocation'[v].id \in 1..mints

(* What each operation is shown to do, and that it is enough.                *)
StepOf(a) ==
  /\ StorageStep /\ StorageTyped'
  /\ refresh' \in [Refreshes -> RefreshType]
  /\ \A h \in Refreshes : HandlerStep(h)
  /\ \A h \in Refreshes \ {a} : refresh'[h].pc = "answered" => refresh'[h] = refresh[h]
  /\ RevocationStep /\ GrantScopesStep /\ TokenScopesStep

(* An operation that does so keeps the invariant.                            *)
LEMMA StepInv ==
  ASSUME IInv, NEW a, StepOf(a)
  PROVE  IInv'
  <1>1. StorageTyped /\ StorageInv
    BY TypeParts DEF IInv
  <1>2. Forward /\ StorageInv'
    BY <1>1, StepForward, StorageStays DEF StepOf
  <1>3. TypeOK'
    BY TypeParts DEF StepOf, RevocationStep, StorageTyped, HandlersTyped, TypeOK,
       RefreshType, RevocationType
  <1>4. (\A h \in Refreshes : Handler(refresh[h])') /\ RefreshUsedOnce' /\ WritersEntitled'
    BY <1>2, HandlersStay DEF StepOf
  <1>5. HandlerInv'
    <2>1. \A v \in Revocations : revocation'[v].pc = "revoke" => revocation'[v].id \in 1..mints'
      BY <1>2 DEF StepOf, RevocationStep, Forward, IInv, HandlerInv
    <2> QED BY <1>4, <2>1 DEF HandlerInv
  <1>6. ScopeInv'
    BY <1>2, <1>4, ScopesStay DEF StepOf
  <1> QED BY <1>2, <1>3, <1>4, <1>5, <1>6 DEF IInv
-----------------------------------------------------------------------------
(* The operations, one by one.                                               *)

(* Where the token storage rests, so does all that is said of it.            *)
LEMMA RestingStorage ==
  ASSUME IInv, UNCHANGED <<mints, tokens, refreshers, grant>>, now' \in 0..MaxTime
  PROVE  StorageStep /\ StorageTyped' /\ GrantScopesStep /\ TokenScopesStep
  <1>1. Shrink
    BY QuietKind
  <1> QED BY <1>1, TypeParts
    DEF IInv, StorageStep, StorageTyped, GrantScopesStep, TokenScopesStep

(* Where the refresh_token requests rest, so does all that is said of them.  *)
LEMMA RestingHandlers ==
  ASSUME IInv, UNCHANGED refresh
  PROVE  /\ refresh' \in [Refreshes -> RefreshType]
         /\ \A h \in Refreshes : HandlerStep(h) /\ refresh'[h] = refresh[h]
  BY TypeParts DEF HandlerStep, HandlersTyped, IInv

(* And the revocation requests.                                              *)
LEMMA RestingRevocations ==
  ASSUME IInv, UNCHANGED revocation
  PROVE  RevocationStep
  BY TypeParts DEF RevocationStep, HandlersTyped, IInv

(* The clock's tick, and a step in which the IdP does nothing.               *)
LEMMA TickStep ==
  ASSUME IInv, Tick \/ UNCHANGED vars
  PROVE  StepOf(0)
  <1>1. /\ UNCHANGED <<mints, tokens, refreshers, grant, refresh, revocation>>
        /\ now' \in 0..MaxTime
    BY Bounds, TypeParts DEF IInv, StorageTyped, Tick, vars
  <1> QED BY <1>1, RestingStorage, RestingHandlers, RestingRevocations DEF StepOf

(* A completed authorization: the scopes granted are those minted with.      *)
LEMMA CreateStep ==
  ASSUME IInv, NEW g \in Grants, NEW c \in ClientIDs, NEW s \in Subjects,
         NEW scopes \in SUBSET Scopes, CreateTokens(g, c, s, scopes)
  PROVE  StepOf(0)
  <1>1. /\ Grow(g, TRUE, {}) /\ StorageTyped'
        /\ tokens'[mints + 1].scopes = scopes
        /\ grant'[g].scopes = scopes /\ grant'[g].granted = scopes
        /\ UNCHANGED <<refresh, revocation>>
    BY CreateKind
  <1>2. StorageStep
    BY <1>1 DEF StorageStep
  <1>3. GrantScopesStep
    BY <1>1, TokensAssumption DEF Grow, GrantScopesStep
  <1>4. TokenScopesStep
    BY <1>1 DEF Grow, TokenScopesStep
  <1> QED BY <1>1, <1>2, <1>3, <1>4, RestingHandlers, RestingRevocations DEF StepOf

(* A revocation, of an access or of a refresh token.                         *)
LEMMA RevokeStep ==
  ASSUME IInv, NEW v \in Revocations, RevokeToken(v)
  PROVE  StepOf(0)
  <1>1. /\ Shrink /\ StorageTyped'
        /\ \A g \in Grants : grant'[g].scopes = grant[g].scopes
        /\ UNCHANGED refresh
    BY RevokeKind
  <1>2. StorageStep /\ GrantScopesStep /\ TokenScopesStep
    BY <1>1 DEF StorageStep, Shrink, SameGrant, SameOwner, GrantScopesStep, TokenScopesStep
  <1>3. RevocationStep
    <2>1. PICK p \in {"revoked", "unchanged"} :
            revocation' = [revocation EXCEPT ![v] = [IdleRevocation EXCEPT !.pc = p]]
      BY Zenon DEF RevokeToken
    <2> DEFINE y == [IdleRevocation EXCEPT !.pc = p]
    <2>2. y \in RevocationType /\ y.pc = p
      BY NothingType DEF RevocationType, IdleRevocation
    <2> HIDE DEF y
    <2> QED BY <2>1, <2>2, TypeParts DEF RevocationStep, IInv, HandlersTyped, y
  <1> QED BY <1>1, <1>2, <1>3, RestingHandlers DEF StepOf

(* end_session.                                                              *)
LEMMA TerminateStep ==
  ASSUME IInv, NEW s \in Subjects, NEW c \in ClientIDs, TerminateSession(s, c)
  PROVE  StepOf(0)
  <1>1. Shrink /\ StorageTyped' /\ UNCHANGED <<grant, refresh, revocation>>
    BY TerminateKind
  <1>2. StorageStep /\ GrantScopesStep /\ TokenScopesStep
    BY <1>1 DEF StorageStep, Shrink, GrantScopesStep, TokenScopesStep
  <1> QED BY <1>1, <1>2, RestingHandlers, RestingRevocations DEF StepOf

(* A revocation request is resolved to an id that was minted.                *)
LEMMA InfoStep ==
  ASSUME IInv, NEW v \in Revocations, NEW kind \in {"access", "refresh"}, NEW n \in Ids,
         NEW c \in ClientIDs, GetRefreshTokenInfo(v, kind, n, c)
  PROVE  StepOf(0)
  <1>t. StorageTyped /\ KeyedByID
    BY TypeParts DEF IInv, StorageInv
  <1>1. /\ UNCHANGED <<now, mints, tokens, refreshers, grant, refresh>>
        /\ now' \in 0..MaxTime /\ n \in 1..mints /\ mints \in 0..MaxMints
    BY <1>t, Bounds DEF GetRefreshTokenInfo, StorageTyped, Ids
  <1> DEFINE y == [pc |-> "revoke", kind |-> kind, client |-> c,
                   id |-> IF kind = "refresh" THEN grant[refreshers[n]].id ELSE n]
  <1>2. revocation' = [revocation EXCEPT ![v] = y]
    BY DEF GetRefreshTokenInfo
  <1>3. kind = "refresh" => grant[refreshers[n]].id = n
    BY <1>t DEF GetRefreshTokenInfo, KeyedByID
  <1>4. y \in RevocationType /\ y.id = n
    BY <1>1, <1>3, Bounds DEF RevocationType
  <1> HIDE DEF y
  <1>5. RevocationStep
    BY <1>1, <1>2, <1>4, TypeParts DEF RevocationStep, IInv, HandlersTyped
  <1> QED BY <1>1, <1>5, RestingStorage, RestingHandlers DEF StepOf

(* A refused request forgets what it held, and not that it raced.            *)
LEMMA RefusedRecord ==
  ASSUME NEW h \in Refreshes, refresh[h] \in RefreshType
  PROVE  Refused(h) \in RefreshType /\ Refused(h).pc = "failed"
         /\ Refused(h).raced = refresh[h].raced
  BY NothingType DEF Refused, RefreshType, IdleRefresh

(* A request that goes a stage further changes nothing else.                 *)
LEMMA StageRecord ==
  ASSUME NEW x \in RefreshType, NEW p \in {"writing", "rotate", "answered"}, NEW y,
         y = [x EXCEPT !.pc = p]
  PROVE  /\ y \in RefreshType /\ y.pc = p /\ y.raced = x.raced
         /\ y.grant = x.grant /\ y.current = x.current /\ y.ask = x.ask
  BY DEF RefreshType

(* A request is handed the object the refresh token names, or is refused.    *)
LEMMA OpenStep ==
  ASSUME IInv, NEW h \in Refreshes, NEW n \in Ids, NEW c \in ClientIDs,
         NEW ask \in SUBSET Scopes, TokenRequestByRefreshToken(h, n, c, ask)
  PROVE  StepOf(h)
  <1>t. StorageTyped /\ HandlersTyped /\ KeyedByID
    BY TypeParts DEF IInv, StorageInv
  <1>1. /\ UNCHANGED <<now, mints, tokens, refreshers, grant, revocation>>
        /\ now' \in 0..MaxTime /\ n \in 1..mints /\ n \in 0..MaxMints /\ n # 0
        /\ refresh[h].pc = "idle" /\ refresh[h] \in RefreshType
    BY <1>t, Bounds DEF TokenRequestByRefreshToken, StorageTyped, HandlersTyped, Ids
  <1> DEFINE y == [IdleRefresh EXCEPT !.pc = "validate", !.grant = refreshers[n],
                                      !.current = n, !.client = c, !.ask = ask]
             z == IF refreshers[n] = NoGrant THEN Refused(h) ELSE y
  <1>2. refresh' = [refresh EXCEPT ![h] = z]
    BY DEF TokenRequestByRefreshToken
  <1>r. refreshers[n] \in Grants \cup {NoGrant}
    BY <1>t DEF StorageTyped
  <1>3. /\ y \in RefreshType /\ y.pc = "validate" /\ y.grant = refreshers[n]
        /\ y.current = n /\ ~y.raced
    BY <1>1, <1>r DEF IdleRefresh, RefreshType
  <1> HIDE DEF y
  <1>4. Refused(h) \in RefreshType /\ Refused(h).pc = "failed"
    BY <1>1, RefusedRecord
  <1>5. z \in RefreshType
    BY <1>3, <1>4
  <1>6. refresh'[h] = z /\ \A i \in Refreshes \ {h} : refresh'[i] = refresh[i]
    BY <1>t, <1>2 DEF HandlersTyped
  <1>7. HandlerStep(h)
    <2>1. ~refresh[h].raced
      BY <1>1 DEF IInv, HandlerInv, Handler
    <2>2. CASE refreshers[n] = NoGrant
      BY <1>4, <1>6, <2>1, <2>2 DEF HandlerStep
    <2>3. CASE refreshers[n] # NoGrant
      <3>1. refreshers[n] \in Grants /\ grant[refreshers[n]].id = n
        BY <1>t, <1>r, <2>3 DEF KeyedByID
      <3>2. Born(refreshers[n])
        BY <1>1, <3>1, NothingType DEF Born
      <3>3. refresh'[h] = y
        BY <1>6, <2>3
      <3>4. Opened(h)
        BY <1>1, <1>3, <3>1, <3>2, <3>3 DEF Opened
      <3> QED BY <1>3, <2>1, <3>3, <3>4 DEF HandlerStep
    <2> QED BY <2>2, <2>3
  <1>8. \A i \in Refreshes \ {h} : HandlerStep(i)
    BY <1>t, <1>6 DEF HandlerStep, HandlersTyped
  <1>9. refresh' \in [Refreshes -> RefreshType]
    BY <1>t, <1>2, <1>5 DEF HandlersTyped
  <1> QED BY <1>1, <1>6, <1>7, <1>8, <1>9, RestingStorage, RestingRevocations DEF StepOf

(* A request compares its client and scopes with the object's, and starts to *)
(* write its narrower list where another may be writing.                     *)
LEMMA ValidateStep ==
  ASSUME IInv, NEW h \in Refreshes, ValidateRefresh(h)
  PROVE  StepOf(h)
  <1> DEFINE g == refresh[h].grant
             ask == refresh[h].ask
  <1>t. StorageTyped /\ HandlersTyped
    BY TypeParts DEF IInv
  <1>1. /\ UNCHANGED <<now, mints, tokens, refreshers, grant, revocation>>
        /\ now' \in 0..MaxTime
        /\ refresh[h].pc = "validate" /\ refresh[h] \in RefreshType
        /\ g \in Grants /\ ~refresh[h].raced
    BY <1>t DEF ValidateRefresh, StorageTyped, HandlersTyped, IInv, HandlerInv, Handler, Active
  <1>2. PICK scopes \in UNION {Readings(list) : list \in ScopesSeen(g)} :
          IF ~Accepts(h, scopes)
          THEN refresh' = [refresh EXCEPT ![h] = Refused(h)]
          ELSE IF ask = {}
          THEN refresh' = [refresh EXCEPT ![h].pc = "rotate"]
          ELSE refresh' = [i \in Refreshes |->
                 IF i = h
                 THEN [refresh[h] EXCEPT !.pc = "writing", !.raced = Writers(g) # {}]
                 ELSE IF i \in Writers(g) THEN [refresh[i] EXCEPT !.raced = TRUE]
                 ELSE refresh[i]]
    BY Zenon DEF ValidateRefresh
  <1>s. PICK seen \in ScopesSeen(g) : scopes \in Readings(seen)
    BY <1>2
  <1> SUFFICES /\ refresh' \in [Refreshes -> RefreshType]
               /\ \A i \in Refreshes : HandlerStep(i)
               /\ \A i \in Refreshes \ {h} : refresh'[i].pc = "answered" => refresh'[i] = refresh[i]
    BY <1>1, RestingStorage, RestingRevocations DEF StepOf
  <1>3. CASE refresh' = [refresh EXCEPT ![h] = Refused(h)]
    <2>1. Refused(h) \in RefreshType /\ Refused(h).pc = "failed"
      BY <1>1, RefusedRecord
    <2>2. refresh'[h] = Refused(h) /\ \A i \in Refreshes \ {h} : refresh'[i] = refresh[i]
      BY <1>t, <1>3 DEF HandlersTyped
    <2>3. refresh' \in [Refreshes -> RefreshType]
      BY <1>t, <1>3, <2>1 DEF HandlersTyped
    <2> QED BY <1>1, <1>t, <2>1, <2>2, <2>3 DEF HandlerStep, HandlersTyped
  <1>4. CASE refresh' = [refresh EXCEPT ![h].pc = "rotate"]
    <2> DEFINE y == [refresh[h] EXCEPT !.pc = "rotate"]
    <2>1. refresh' = [refresh EXCEPT ![h] = y]
      BY <1>4
    <2>2. /\ y \in RefreshType /\ y.pc = "rotate" /\ y.raced = refresh[h].raced
          /\ y.grant = refresh[h].grant /\ y.current = refresh[h].current
      BY <1>1, StageRecord
    <2> HIDE DEF y
    <2>3. refresh'[h] = y /\ \A i \in Refreshes \ {h} : refresh'[i] = refresh[i]
      BY <1>t, <2>1 DEF HandlersTyped
    <2>4. refresh' \in [Refreshes -> RefreshType]
      BY <1>t, <2>1, <2>2 DEF HandlersTyped
    <2>5. Advanced(h)
      BY <1>1, <2>2, <2>3 DEF Advanced, Active
    <2> QED BY <1>t, <2>2, <2>3, <2>4, <2>5 DEF HandlerStep, HandlersTyped
  <1>5. CASE /\ Accepts(h, scopes)
             /\ refresh' = [i \in Refreshes |->
                  IF i = h
                  THEN [refresh[h] EXCEPT !.pc = "writing", !.raced = Writers(g) # {}]
                  ELSE IF i \in Writers(g) THEN [refresh[i] EXCEPT !.raced = TRUE]
                  ELSE refresh[i]]
    <2>1. NoRace /\ Writers(g) = {} => ask \subseteq grant[g].granted
      <3> SUFFICES ASSUME NoRace, Writers(g) = {} PROVE ask \subseteq grant[g].granted
        OBVIOUS
      <3>1. grant[g].scopes \subseteq grant[g].granted
        BY <1>1 DEF IInv, ScopeInv, ScopesWithinGrant
      <3>2. seen = grant[g].scopes
        BY DEF ScopesSeen
      <3>3. Garbage \notin seen
        BY <1>1, <1>t, <3>1, <3>2, TokensAssumption DEF StorageTyped, GrantType
      <3> QED BY <1>5, <1>s, <3>1, <3>2, <3>3 DEF Readings, Accepts
    <2> DEFINE y == [refresh[h] EXCEPT !.pc = "writing", !.raced = Writers(g) # {}]
    <2>2. /\ y \in RefreshType /\ y.pc = "writing" /\ y.grant = g /\ y.ask = ask
          /\ y.current = refresh[h].current /\ y.raced = (Writers(g) # {})
      BY <1>1 DEF RefreshType
    <2>3. refresh'[h] = y
      BY <1>5
    <2> HIDE DEF y
    <2>4. HandlerStep(h)
      <3>1. NoRace' => ask \subseteq grant[g].granted
        <4> SUFFICES ASSUME NoRace' PROVE ask \subseteq grant[g].granted
          OBVIOUS
        <4>1. ~refresh'[h].raced
          BY DEF NoRace
        <4>2. Writers(g) = {}
          BY <2>2, <2>3, <4>1
        <4>3. NoRace
          <5> SUFFICES ASSUME NEW i \in Refreshes PROVE ~refresh[i].raced
            BY DEF NoRace
          <5>1. i # h => refresh'[i] = refresh[i]
            BY <1>5, <4>2
          <5> QED BY <1>1, <5>1 DEF NoRace
        <4> QED BY <2>1, <4>2, <4>3
      <3>2. Advanced(h)
        BY <1>1, <2>2, <2>3, <3>1 DEF Advanced, Active
      <3> QED BY <1>1, <2>2, <2>3, <3>2 DEF HandlerStep
    <2>5. ASSUME NEW i \in Writers(g), i # h
          PROVE  HandlerStep(i) /\ refresh'[i].pc = "writing" /\ i \in Refreshes
      <3>1. /\ i \in Refreshes /\ refresh[i].pc = "writing" /\ refresh[i] \in RefreshType
        BY <1>t DEF Writers, HandlersTyped
      <3>2. refresh'[i] = [refresh[i] EXCEPT !.raced = TRUE]
        BY <1>5, <2>5, <3>1
      <3>3. /\ refresh'[i] \in RefreshType /\ refresh'[i].pc = "writing" /\ refresh'[i].raced
            /\ refresh'[i].grant = refresh[i].grant /\ refresh'[i].ask = refresh[i].ask
            /\ refresh'[i].current = refresh[i].current
        BY <3>1, <3>2 DEF RefreshType
      <3>4. Advanced(i)
        BY <3>1, <3>3 DEF Advanced, Active, NoRace
      <3> QED BY <3>1, <3>3, <3>4 DEF HandlerStep
    <2>6. ASSUME NEW i \in Refreshes \ {h}, i \notin Writers(g)
          PROVE  HandlerStep(i) /\ refresh'[i] = refresh[i]
      <3>1. refresh'[i] = refresh[i]
        BY <1>5, <2>6
      <3> QED BY <1>t, <3>1 DEF HandlerStep, HandlersTyped
    <2>7. \A i \in Refreshes : HandlerStep(i)
      BY <2>4, <2>5, <2>6
    <2>8. refresh' \in [Refreshes -> RefreshType]
      <3>1. \A i \in Refreshes : refresh'[i] \in RefreshType
        BY <2>7 DEF HandlerStep
      <3> HIDE DEF y
      <3> QED BY <1>5, <3>1
    <2> QED BY <2>5, <2>6, <2>7, <2>8
  <1> QED BY <1>2, <1>3, <1>4, <1>5

(* The write of the scopes ends, overlapped or not.                          *)
LEMMA SetScopesStep ==
  ASSUME IInv, NEW h \in Refreshes, SetCurrentScopes(h)
  PROVE  StepOf(h)
  <1>1. PICK g : g = refresh[h].grant
    OBVIOUS
  <1>t. StorageTyped /\ HandlersTyped
    BY TypeParts DEF IInv
  <1>2. /\ g \in Grants /\ Shrink /\ StorageTyped'
        /\ \A f \in Grants \ {g} : grant'[f] = grant[f]
        /\ grant'[g].scopes \in ScopesWritten(h)
        /\ ~refresh[h].raced => grant'[g].scopes = refresh[h].ask
        /\ UNCHANGED tokens
    BY <1>1, SetScopesKind
  <1>3. /\ refresh[h].pc = "writing" /\ refresh[h] \in RefreshType
        /\ refresh' = [refresh EXCEPT ![h].pc = "rotate"]
        /\ UNCHANGED revocation
    BY <1>t DEF SetCurrentScopes, HandlersTyped
  <1> DEFINE y == [refresh[h] EXCEPT !.pc = "rotate"]
  <1>4. refresh' = [refresh EXCEPT ![h] = y]
    BY <1>3
  <1>5. /\ y \in RefreshType /\ y.pc = "rotate" /\ y.raced = refresh[h].raced
        /\ y.grant = refresh[h].grant /\ y.current = refresh[h].current
    BY <1>3, StageRecord
  <1> HIDE DEF y
  <1>6. refresh'[h] = y /\ \A i \in Refreshes \ {h} : refresh'[i] = refresh[i]
    BY <1>t, <1>4 DEF HandlersTyped
  <1>7. refresh' \in [Refreshes -> RefreshType]
    BY <1>t, <1>4, <1>5 DEF HandlersTyped
  <1>8. Advanced(h)
    BY <1>3, <1>5, <1>6 DEF Advanced, Active
  <1>9. \A i \in Refreshes : HandlerStep(i)
    BY <1>t, <1>5, <1>6, <1>7, <1>8 DEF HandlerStep, HandlersTyped
  <1>10. grant'[g].granted = grant[g].granted
    BY <1>2 DEF Shrink, SameGrant, SameOwner
  <1>11. NoRace' => grant'[g].scopes \subseteq grant[g].granted
    <2> SUFFICES ASSUME NoRace' PROVE grant'[g].scopes \subseteq grant[g].granted
      OBVIOUS
    <2>1. NoRace /\ ~refresh[h].raced
      BY <1>9, RacesAreRemembered DEF NoRace
    <2> QED BY <1>1, <1>2, <1>3, <2>1 DEF IInv, ScopeInv, WritersEntitled
  <1>13. GrantScopesStep
    BY <1>2, <1>10, <1>11 DEF GrantScopesStep
  <1>14. StorageStep /\ TokenScopesStep
    BY <1>2 DEF StorageStep, TokenScopesStep
  <1> QED BY <1>2, <1>3, <1>5, <1>6, <1>7, <1>9, <1>13, <1>14, RestingRevocations DEF StepOf

(* A rotation answers with what it minted only where the refresh token was   *)
(* still there, and copies the object's scopes into the access token.        *)
LEMMA RotateStep ==
  ASSUME IInv, NEW h \in Refreshes, Rotate(h)
  PROVE  StepOf(h)
  <1>1. PICK g, delivers, gone :
          /\ g = refresh[h].grant /\ delivers = MayRotate(h)
          /\ gone = IF Found(h) THEN {refresh[h].current} ELSE {}
    OBVIOUS
  <1>t. StorageTyped /\ HandlersTyped
    BY TypeParts DEF IInv
  <1>2. /\ g \in Grants /\ Born(g)
        /\ Grow(g, delivers, gone)
        /\ StorageTyped'
        /\ tokens'[mints + 1].scopes \in ScopesSeen(g)
        /\ grant'[g].scopes = grant[g].scopes
        /\ refreshers'[refresh[h].current] = NoGrant
    BY <1>1, RotateKind
  <1>3. /\ refresh[h].pc = "rotate" /\ refresh[h] \in RefreshType
        /\ refresh' = [refresh EXCEPT
             ![h] = IF delivers THEN [@ EXCEPT !.pc = "answered"] ELSE Refused(h)]
        /\ UNCHANGED revocation
    BY <1>1, <1>t DEF Rotate, HandlersTyped
  <1>4. /\ delivers \in BOOLEAN
        /\ delivers => Found(h)
        /\ gone \in SUBSET Ids
    <2>1. refresh[h].current \in Ids
      BY <1>t, <1>3, Bounds DEF IInv, HandlerInv, Handler, Active, StorageTyped, Ids
    <2> QED BY <1>1, <2>1 DEF MayRotate
  <1>5. StorageStep
    BY <1>2, <1>4 DEF StorageStep
  <1> DEFINE y == [refresh[h] EXCEPT !.pc = "answered"]
  <1>6. /\ y \in RefreshType /\ y.pc = "answered" /\ y.raced = refresh[h].raced
        /\ y.grant = refresh[h].grant /\ y.current = refresh[h].current
    BY <1>3, StageRecord
  <1>7. refresh' = [refresh EXCEPT ![h] = IF delivers THEN y ELSE Refused(h)]
    BY <1>3
  <1> HIDE DEF y
  <1>8. /\ Refused(h) \in RefreshType /\ Refused(h).pc = "failed"
        /\ Refused(h).raced = refresh[h].raced
    BY <1>3, RefusedRecord
  <1>9. /\ refresh'[h] = IF delivers THEN y ELSE Refused(h)
        /\ \A i \in Refreshes \ {h} : refresh'[i] = refresh[i]
    BY <1>t, <1>7 DEF HandlersTyped
  <1>10. refresh' \in [Refreshes -> RefreshType]
    BY <1>t, <1>6, <1>7, <1>8 DEF HandlersTyped
  <1>11. HandlerStep(h)
    <2>1. CASE delivers
      <3>1. Advanced(h)
        BY <1>2, <1>3, <1>4, <1>6, <1>9, <2>1 DEF Advanced, Active
      <3> QED BY <1>6, <1>9, <2>1, <3>1 DEF HandlerStep
    <2>2. CASE ~delivers
      BY <1>8, <1>9, <2>2 DEF HandlerStep
    <2> QED BY <2>1, <2>2
  <1>12. \A i \in Refreshes : HandlerStep(i)
    BY <1>t, <1>9, <1>11 DEF HandlerStep, HandlersTyped
  <1>13. grant'[g].granted = grant[g].granted /\ \A f \in Grants \ {g} : grant'[f] = grant[f]
    BY <1>2 DEF Grow, SameOwner
  <1>14. GrantScopesStep
    BY <1>2, <1>13 DEF GrantScopesStep
  <1>15. NoRace' => tokens'[mints + 1].scopes \ {Garbage} \subseteq grant[g].granted
    <2> SUFFICES ASSUME NoRace'
                 PROVE  tokens'[mints + 1].scopes \ {Garbage} \subseteq grant[g].granted
      OBVIOUS
    <2>r. NoRace
      BY <1>12, RacesAreRemembered
    <2>1. grant[g].scopes \ {Garbage} \subseteq grant[g].granted
      BY <1>2, <2>r DEF IInv, ScopeInv, ScopesWithinGrant
    <2>2. \A i \in Writers(g) : refresh[i].ask \ {Garbage} \subseteq grant[g].granted
      BY <2>r DEF IInv, ScopeInv, WritersEntitled, Writers
    <2> QED BY <1>2, <2>1, <2>2, SeenWithin
  <1>16. TokenScopesStep
    BY <1>2, <1>13, <1>15 DEF Grow, TokenScopesStep
  <1> QED BY <1>2, <1>3, <1>5, <1>9, <1>10, <1>12, <1>14, <1>16, RestingRevocations DEF StepOf
-----------------------------------------------------------------------------
(* The invariant is inductive, and every step is of one of the two kinds.    *)
LEMMA EveryStep ==
  ASSUME IInv, [Next]_vars
  PROVE  \E a : StepOf(a)
  <1>1. CASE Tick \/ UNCHANGED vars
    BY <1>1, TickStep
  <1>2. ASSUME NEW g \in Grants, NEW c \in ClientIDs, NEW s \in Subjects,
               NEW scopes \in SUBSET Scopes, CreateTokens(g, c, s, scopes)
        PROVE  \E a : StepOf(a)
    BY <1>2, CreateStep
  <1>3. ASSUME NEW h \in Refreshes, NEW n \in Ids, NEW c \in ClientIDs,
               NEW ask \in SUBSET Scopes, TokenRequestByRefreshToken(h, n, c, ask)
        PROVE  \E a : StepOf(a)
    BY <1>3, OpenStep
  <1>4. ASSUME NEW h \in Refreshes, ValidateRefresh(h) \/ SetCurrentScopes(h) \/ Rotate(h)
        PROVE  \E a : StepOf(a)
    BY <1>4, ValidateStep, SetScopesStep, RotateStep
  <1>5. ASSUME NEW v \in Revocations, NEW kind \in {"access", "refresh"}, NEW n \in Ids,
               NEW c \in ClientIDs, GetRefreshTokenInfo(v, kind, n, c)
        PROVE  \E a : StepOf(a)
    BY <1>5, InfoStep
  <1>6. ASSUME NEW v \in Revocations, RevokeToken(v)
        PROVE  \E a : StepOf(a)
    BY <1>6, RevokeStep
  <1>7. ASSUME NEW s \in Subjects, NEW c \in ClientIDs, TerminateSession(s, c)
        PROVE  \E a : StepOf(a)
    BY <1>7, TerminateStep
  <1> QED BY <1>1, <1>2, <1>3, <1>4, <1>5, <1>6, <1>7 DEF Next

(* The inductive invariant holds in every reachable state of the storage and *)
(* the handlers, whatever rotates, is revoked or ends at once.               *)
THEOREM InductiveInvariant == Spec => []IInv
  <1>1. Init => IInv
    BY InvInit
  <1>2. IInv /\ [Next]_vars => IInv'
    BY EveryStep, StepInv
  <1> QED BY <1>1, <1>2, PTL DEF Spec

(* Every variable of the token storage holds a value of its type.            *)
THEOREM TypeCorrect == Spec => []TypeOK
  <1>1. IInv => TypeOK
    BY DEF IInv
  <1> QED BY <1>1, InductiveInvariant, PTL

(* A grant has one live refresh token at most: the object is re-keyed by each *)
(* rotation and no two ids name it (CreateAccessAndRefreshTokens).           *)
THEOREM OneRefreshTokenPerGrant == Spec => []KeyedByID
  <1>1. IInv => KeyedByID
    BY DEF IInv, StorageInv
  <1> QED BY <1>1, InductiveInvariant, PTL

(* Of the requests that present one refresh token at once, one is answered.  *)
THEOREM RefreshTokensAreUsedOnce == Spec => []RefreshUsedOnce
  <1>1. IInv => RefreshUsedOnce
    BY DEF IInv
  <1> QED BY <1>1, InductiveInvariant, PTL

(* A delivered access token lives no longer than its grant, and no longer    *)
(* than to the grant's next rotation.                                        *)
THEOREM DeliveredTokensAreCurrent == Spec => []OnlyCurrentTokenLives
  <1>1. IInv => OnlyCurrentTokenLives
    BY DEF IInv, StorageInv
  <1> QED BY <1>1, InductiveInvariant, PTL

(* end_session of the user and the client a grant was issued to finds its    *)
(* refresh token, through an access token that names it, unless the access   *)
(* token was revoked alone; of a device grant nothing is said.               *)
THEOREM EndSessionReaches == Spec => []TerminateReaches
  <1>1. ASSUME IInv, NEW g \in Grants \ DeviceGrants, Live(g), ~grant[g].accessRevoked
        PROVE  \E n \in Ids : /\ Exists(n)
                              /\ refreshers[tokens[n].refreshID] = g
                              /\ tokens[n].subject = grant[g].userID
                              /\ tokens[n].client = grant[g].issuedTo
    <2>1. PICK n \in Ids : refreshers[n] = g
      BY <1>1 DEF Live
    <2>2. n = grant[g].id
      BY <1>1, <2>1, TokensAssumption DEF IInv, StorageInv, KeyedByID
    <2>3. Exists(n) /\ tokens[n].grant = g
      BY <1>1, <2>2 DEF IInv, StorageInv, ReachInv
    <2>4. tokens[n].refreshID = n /\ tokens[n].subject = grant[g].userID
      BY <1>1, <2>3 DEF IInv, StorageInv, TokenInv
    <2>5. tokens[n].client = grant[g].issuedTo
      BY <1>1, <2>3 DEF IInv, StorageInv, TokenInv, GrantInv, Owned
    <2> QED BY <2>1, <2>3, <2>4, <2>5
  <1>2. IInv => TerminateReaches
    BY <1>1 DEF TerminateReaches
  <1> QED BY <1>2, InductiveInvariant, PTL

(* What a refresh narrows stays within what the user was granted, through    *)
(* writes of the scopes that take no lock, unless two of them overlapped.    *)
THEOREM ScopesStayGranted == Spec => []ScopesWithinGrant
  <1>1. IInv => ScopesWithinGrant
    BY DEF IInv, ScopeInv
  <1> QED BY <1>1, InductiveInvariant, PTL

(* A grant that was revoked, was ended or has outlived its refresh token     *)
(* does not come back (CreateAccessAndRefreshTokens looks at the expiration  *)
(* before it renews the object).                                             *)
THEOREM DeadGrantsStayDead == Spec => DeadStaysDead
  <1>1. IInv /\ [Next]_vars => \A g \in Grants : Born(g) /\ Spent(g) => Spent(g)'
    <2> SUFFICES ASSUME IInv, [Next]_vars, NEW g \in Grants, Born(g), Spent(g)
                 PROVE  Spent(g)'
      OBVIOUS
    <2>1. StorageStep /\ StorageTyped
      BY EveryStep, TypeParts DEF StepOf, IInv
    <2> QED BY <2>1, DeadStays, TimeGoesOn
  <1> QED BY <1>1, InductiveInvariant, PTL DEF Spec, DeadStaysDead

(* A rotation renews its own grant or leaves it, and leaves the others.      *)
LEMMA RotationKeeps ==
  ASSUME IInv, NEW h \in Refreshes, Rotate(h), NEW f \in Grants, ~Spent(f)
  PROVE  ~Spent(f)'
  <1>1. PICK g, delivers, gone :
          /\ g = refresh[h].grant /\ delivers = MayRotate(h)
          /\ gone = IF Found(h) THEN {refresh[h].current} ELSE {}
    OBVIOUS
  <1>2. g \in Grants /\ Born(g) /\ Grow(g, delivers, gone) /\ now' = now
    BY <1>1, RotateKind DEF Rotate
  <1>t. /\ now \in Nat /\ \A e \in Grants : grant[e].expiration \in Nat
        /\ mints \in Nat /\ mints + 1 \in Ids
    <2>1. StorageTyped
      BY TypeParts DEF IInv
    <2> QED BY <1>2, <2>1, Bounds, TokensAssumption DEF StorageTyped, GrantType, Times, Grow
  <1>3. PICK m \in Ids : refreshers[m] = f
    BY DEF Spent, Live
  <1>4. now <= grant[f].expiration
    BY <1>t DEF Spent
  <1>5. CASE f = g /\ delivers
    <2>1. refreshers'[mints + 1] = f /\ now <= grant'[f].expiration
      BY <1>2, <1>5 DEF Grow
    <2>2. Live(f)'
      BY <1>t, <2>1 DEF Live
    <2>3. grant'[f].expiration \in Nat
      <3>1. StorageTyped'
        BY <1>1, RotateKind
      <3> QED BY <3>1, Bounds, TokensAssumption DEF StorageTyped, GrantType, Times
    <2> QED BY <1>2, <1>t, <2>1, <2>2, <2>3 DEF Spent
  <1>6. CASE ~(f = g /\ delivers)
    <2>1. grant'[f] = grant[f]
      BY <1>2, <1>6 DEF Grow
    <2>2. m \notin gone
      <3>1. CASE f = g
        <4>1. ~MayRotate(h)
          BY <1>1, <1>6, <3>1
        <4>2. ~Found(h)
          BY <1>1, <1>4, <1>t, <3>1, <4>1 DEF MayRotate
        <4> QED BY <1>1, <4>2
      <3>2. CASE f # g
        BY <1>2, <1>3, <3>2 DEF Grow
      <3> QED BY <3>1, <3>2
    <2>3. m # mints + 1
      <3>1. StorageTyped
        BY TypeParts DEF IInv
      <3> QED BY <1>t, <1>3, <3>1, TokensAssumption DEF StorageTyped
    <2>4. refreshers'[m] = f
      BY <1>2, <1>3, <2>2, <2>3 DEF Grow
    <2> QED BY <1>2, <1>4, <1>t, <2>1, <2>4 DEF Spent, Live
  <1> QED BY <1>5, <1>6

(* A refresh_token request takes no usable grant away: a rotation renews at  *)
(* the last instant too, and one that comes too late deletes nothing         *)
(* (CreateAccessAndRefreshTokens).                                           *)
THEOREM RefreshesKeepGrants == Spec => RefreshKeepsGrant
  <1>1. IInv /\ [Next]_vars => (refresh' # refresh => \A g \in Grants : ~Spent(g) => ~Spent(g)')
    <2> SUFFICES ASSUME IInv, [Next]_vars, refresh' # refresh, NEW f \in Grants, ~Spent(f)
                 PROVE  ~Spent(f)'
      OBVIOUS
    <2>1. ASSUME NEW h \in Refreshes, NEW n \in Ids, NEW c \in ClientIDs,
                 NEW ask \in SUBSET Scopes, TokenRequestByRefreshToken(h, n, c, ask)
          PROVE  ~Spent(f)'
      BY <2>1 DEF TokenRequestByRefreshToken, Spent, Live
    <2>2. ASSUME NEW h \in Refreshes, ValidateRefresh(h)
          PROVE  ~Spent(f)'
      <3>1. UNCHANGED <<now, refreshers, grant>>
        BY Zenon, <2>2 DEF ValidateRefresh
      <3> QED BY <3>1 DEF Spent, Live
    <2>3. ASSUME NEW h \in Refreshes, SetCurrentScopes(h)
          PROVE  ~Spent(f)'
      <3>1. PICK g : g = refresh[h].grant
        OBVIOUS
      <3>2. Shrink /\ UNCHANGED <<now, refreshers>>
        BY <2>3, <3>1, SetScopesKind DEF SetCurrentScopes
      <3> QED BY <3>2 DEF Shrink, SameGrant, Spent, Live
    <2>4. ASSUME NEW h \in Refreshes, Rotate(h)
          PROVE  ~Spent(f)'
      BY <2>4, RotationKeeps
    <2>5. \/ \E h \in Refreshes, n \in Ids, c \in ClientIDs, ask \in SUBSET Scopes :
               TokenRequestByRefreshToken(h, n, c, ask)
          \/ \E h \in Refreshes : ValidateRefresh(h) \/ SetCurrentScopes(h) \/ Rotate(h)
      BY Zenon DEF Next, vars, Tick, CreateTokens, GetRefreshTokenInfo, RevokeToken,
         TerminateSession
    <2> QED BY <2>1, <2>2, <2>3, <2>4, <2>5
  <1> QED BY <1>1, InductiveInvariant, PTL DEF Spec, RefreshKeepsGrant
===============================================================================
