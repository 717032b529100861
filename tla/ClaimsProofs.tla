----------------------------- MODULE ClaimsProofs -----------------------------
(* Theorems about Claims, for every set of tokens, clients files and lookups. *)
(* The readers of tokens leave them as they are, so what TokensProofs proves  *)
(* of the tokens holds while they are read; what is said of the lookups       *)
(* follows from how a token may change between the moments it is looked at.   *)
EXTENDS Claims, TokensProofs

LookupType ==
  [pc : {"idle", "token", "check", "apps", "answered", "refused"},
   kind : {"userinfo", "introspection"}, id : 0..MaxMints, client : ClientIDs \cup {NoClient},
   token : TokenType, claims : SUBSET ClaimScopes, apps : SUBSET ClientIDs,
   dead : BOOLEAN, began : 0..MaxReloads]

(* Every variable of the readers holds a value of its type, and a seeded     *)
(* client is never dropped.                                                  *)
ReadersTyped ==
  /\ clients \in Registries /\ Seeds \subseteq Registered(clients)
  /\ reloads \in 0..MaxReloads
  /\ lookup \in [Lookups -> LookupType]

(* A token that was looked up belongs to a grant that exists, its audience   *)
(* is the grant's client, and its scopes are those granted unless requests   *)
(* raced, whatever became of it in the map since.                            *)
Known(t) ==
  /\ t.grant \in Grants /\ Born(t.grant)
  /\ t.audience = {grant[t.grant].issuedTo}
  /\ NoRace => t.scopes \ {Garbage} \subseteq grant[t.grant].granted

Holding == {"check", "apps", "answered"}
Checked == {"apps", "answered"}

(* Of a lookup x: a token that was dead when the request began is gone or    *)
(* has expired, in the map and in the object the handler holds, and stays so; *)
(* what passed the check was neither, and what is told is what its list has. *)
LookupOK(x) ==
  /\ x.pc = "token" => x.id \in 1..mints
  /\ x.pc = "token" /\ x.dead => ~Exists(x.id) \/ now > tokens[x.id].expiration
  /\ x.pc \in Holding => Known(x.token)
  /\ x.pc = "check" /\ x.dead => now > x.token.expiration
  /\ x.pc \in Checked =>
       /\ ~x.dead
       /\ Garbage \notin x.token.scopes => x.claims \subseteq x.token.scopes
  /\ x.kind = "introspection" =>
       /\ x.client \in ClientIDs /\ x.began <= reloads
       /\ x.began = reloads => x.client \in Registered(clients)
  /\ x.pc = "answered" /\ x.kind = "introspection" /\ x.client \notin x.apps =>
       x.client \notin Seeds /\ x.began < reloads

ReadersInv == ReadersTyped /\ \A q \in Lookups : LookupOK(lookup[q])
-----------------------------------------------------------------------------
(* How what a lookup reads may change between the moments it reads it: time  *)
(* goes on, a token is deleted and its id not used again, a grant keeps its  *)
(* client and what was granted, a race is not undone, and clients change by  *)
(* reloads only.                                                             *)
Later ==
  /\ now <= now'
  /\ \A n \in 1..mints : n \in 1..mints' /\ tokens'[n] \in {tokens[n], NoToken}
  /\ \A g \in Grants : Born(g) =>
       Born(g)' /\ grant'[g].granted = grant[g].granted /\ grant'[g].issuedTo = grant[g].issuedTo
  /\ NoRace' => NoRace
  /\ reloads <= reloads'
  /\ reloads' = reloads => clients' = clients

(* The numbers are numbers, an id that was handed out is an id.              *)
LEMMA Numbers ==
  ASSUME IInv, ReadersTyped
  PROVE  /\ now \in Nat /\ mints \in Nat /\ reloads \in Nat /\ MaxReloads \in Nat
         /\ \A n \in 1..mints : n \in Ids /\ n \in Nat /\ n \in 0..MaxMints
         /\ \A n \in Ids : n <= mints => n \in 1..mints
         /\ \A n \in Ids : tokens[n] \in TokenType /\ tokens[n].expiration \in Nat
  <1>1. StorageTyped /\ MaxReloads \in Nat
    BY TypeParts, ClaimsAssumption DEF IInv
  <1>2. \A t \in Times : t \in Nat
    BY Bounds, TokensAssumption DEF Times
  <1>3. \A n \in Ids : tokens[n] \in TokenType /\ tokens[n].expiration \in Nat
    BY <1>1, <1>2 DEF StorageTyped, TokenType
  <1>4. now \in Nat /\ mints \in Nat /\ mints <= MaxMints /\ reloads \in Nat
    BY <1>1, Bounds DEF StorageTyped, ReadersTyped
  <1>5. /\ \A n \in 1..mints : n \in Ids /\ n \in Nat /\ n \in 0..MaxMints
        /\ \A n \in Ids : n <= mints => n \in 1..mints
    BY <1>4, Bounds DEF Ids
  <1> QED BY <1>1, <1>3, <1>4, <1>5

(* How every step of the tokens is.                                          *)
LEMMA TokensLater ==
  ASSUME IInv, ReadersTyped, [Next]_vars, UNCHANGED <<clients, reloads>>
  PROVE  Later
  <1>n. /\ now \in Nat /\ mints \in Nat /\ reloads \in Nat
        /\ \A n \in 1..mints : n \in Ids
    BY Numbers
  <1>1. now <= now'
    BY <1>n, TimeGoesOn
  <1>2. StorageTyped /\ StorageStep
    BY EveryStep, TypeParts DEF StepOf, IInv
  <1>3. Forward
    BY <1>2, StepForward
  <1>4. \A n \in 1..mints : tokens'[n] \in {tokens[n], NoToken}
    <2>1. CASE Shrink
      BY <1>n, <2>1 DEF Shrink
    <2>2. ASSUME NEW g \in Grants, NEW delivers \in BOOLEAN, NEW gone \in SUBSET Ids,
                 Grow(g, delivers, gone), NEW n \in 1..mints
          PROVE  tokens'[n] \in {tokens[n], NoToken}
      <3>1. n \in Ids \ {mints + 1}
        BY <1>n
      <3> QED BY <2>2, <3>1 DEF Grow
    <2> QED BY <1>2, <2>1, <2>2 DEF StorageStep
  <1>5. NoRace' => NoRace
    BY EveryStep, RacesAreRemembered DEF StepOf
  <1> QED BY <1>n, <1>1, <1>3, <1>4, <1>5 DEF Later, Forward, SameOwner

(* And for a reload of the clients file.                                     *)
LEMMA ReloadLater ==
  ASSUME IInv, ReadersTyped, NEW file \in Files, Reload(file)
  PROVE  Later
  <1>1. UNCHANGED vars /\ reloads' = reloads + 1 /\ UNCHANGED lookup
    BY DEF Reload
  <1> QED BY <1>1, Numbers DEF vars, Later, Born, NoRace

(* What is true of a lookup that rests stays true.                           *)
LEMMA LookupStays ==
  ASSUME IInv, IInv', ReadersTyped, ReadersTyped', Later, NEW x \in LookupType, LookupOK(x)
  PROVE  LookupOK(x)'
  <1>n. /\ now \in Nat /\ reloads \in Nat /\ now' \in Nat /\ reloads' \in Nat
        /\ \A n \in 1..mints : tokens[n].expiration \in Nat
    <2>1. now' \in 0..MaxTime /\ reloads' \in 0..MaxReloads
      BY DEF IInv, TypeOK, ReadersTyped
    <2>2. MaxTime \in Nat /\ MaxReloads \in Nat
      BY TokensAssumption, ClaimsAssumption
    <2> QED BY <2>1, <2>2, Numbers
  <1>1. /\ now <= now' /\ reloads <= reloads' /\ (reloads' = reloads => clients' = clients)
        /\ \A n \in 1..mints : n \in 1..mints' /\ tokens'[n] \in {tokens[n], NoToken}
    BY DEF Later
  <1>2. x.pc \in Holding => Known(x.token) /\ Known(x.token)'
    BY DEF LookupOK, Known, Later
  <1>4. x.token.expiration \in Nat /\ x.began \in Nat
    BY TokensAssumption, ClaimsAssumption DEF LookupType, TokenType, Times
  <1>5. x.pc = "token" => x.id \in 1..mints'
    BY <1>1 DEF LookupOK
  <1>6. x.pc = "token" /\ x.dead => ~Exists(x.id)' \/ now' > tokens'[x.id].expiration
    BY <1>n, <1>1 DEF LookupOK, Exists
  <1>7. x.pc = "check" /\ x.dead => now' > x.token.expiration
    BY <1>n, <1>1, <1>4 DEF LookupOK
  <1>8. x.kind = "introspection" =>
          /\ x.began <= reloads'
          /\ x.began = reloads' => x.client \in Registered(clients)'
    BY <1>n, <1>1, <1>4 DEF LookupOK, Registered
  <1>9. x.pc = "answered" /\ x.kind = "introspection" /\ x.client \notin x.apps =>
          x.client \notin Seeds /\ x.began < reloads'
    BY <1>n, <1>1, <1>4 DEF LookupOK
  <1> QED BY <1>2, <1>5, <1>6, <1>7, <1>8, <1>9 DEF LookupOK
-----------------------------------------------------------------------------
(* The readers' own steps.                                                   *)

(* A lookup that moves on as y does nothing else.                            *)
LEMMA LookupMoves ==
  ASSUME IInv, IInv', ReadersInv, NEW q \in Lookups,
         NEW y \in LookupType, LookupOK(y),
         lookup' = [lookup EXCEPT ![q] = y], UNCHANGED <<vars, clients, reloads>>
  PROVE  ReadersInv'
  <1>1. ReadersTyped
    BY DEF ReadersInv
  <1>2. ReadersTyped'
    BY <1>1 DEF ReadersTyped
  <1>3. Later
    <2>1. [Next]_vars
      OBVIOUS
    <2> QED BY <1>1, <2>1, TokensLater
  <1>4. lookup'[q] = y /\ \A r \in Lookups \ {q} : lookup'[r] = lookup[r]
    BY <1>1 DEF ReadersTyped
  <1>5. LookupOK(y)'
    BY <1>1, <1>2, <1>3, LookupStays
  <1>6. ASSUME NEW r \in Lookups PROVE LookupOK(lookup[r])'
    <2>1. CASE r = q
      BY <1>4, <1>5, <2>1
    <2>2. CASE r # q
      <3>1. PICK x : x = lookup[r]
        OBVIOUS
      <3>2. x \in LookupType /\ LookupOK(x)
        BY <1>1, <3>1 DEF ReadersInv, ReadersTyped
      <3>3. LookupOK(x)'
        BY <1>1, <1>2, <1>3, <3>2, LookupStays
      <3> QED BY <1>4, <2>2, <3>1, <3>3
    <2> QED BY <2>1, <2>2
  <1> QED BY <1>2, <1>6 DEF ReadersInv

(* Where the readers rest, what is said of them stays true.                  *)
LEMMA LookupsRest ==
  ASSUME IInv, IInv', ReadersInv, ReadersTyped', Later, UNCHANGED lookup
  PROVE  ReadersInv'
  <1> SUFFICES ASSUME NEW r \in Lookups PROVE LookupOK(lookup[r])'
    BY DEF ReadersInv
  <1>1. PICK x : x = lookup[r]
    OBVIOUS
  <1>2. x \in LookupType /\ LookupOK(x) /\ ReadersTyped
    BY <1>1 DEF ReadersInv, ReadersTyped
  <1>3. LookupOK(x)'
    BY <1>2, LookupStays
  <1> QED BY <1>1, <1>3

(* A request that gives up tells nothing.                                    *)
LEMMA RefusedOK == RefusedLookup \in LookupType /\ LookupOK(RefusedLookup)
  <1>1. 0 \in 0..MaxMints /\ 0 \in 0..MaxReloads
    BY TokensAssumption, ClaimsAssumption
  <1>2. IdleLookup \in LookupType
    BY <1>1, NothingType DEF IdleLookup, LookupType
  <1> DEFINE y == RefusedLookup
  <1>3. y \in LookupType /\ y.pc = "refused" /\ y.kind = "userinfo"
    BY <1>2 DEF RefusedLookup, IdleLookup, LookupType
  <1> HIDE DEF y
  <1>4. LookupOK(y)
    BY <1>3 DEF LookupOK, Holding, Checked
  <1> QED BY <1>3, <1>4 DEF y

(* A token that is dead when it is presented is gone or has expired: what    *)
(* takes the refresh token away takes the access token with it.              *)
LEMMA DeadIsGone ==
  ASSUME IInv, NEW n \in Ids, MayBearToken(n), Dead(n)
  PROVE  ~Exists(n) \/ now > tokens[n].expiration
  BY DEF IInv, StorageInv, OnlyCurrentTokenLives, MayBearToken, Dead

(* A request begins: by a bearer, or by a client that proved its secret.     *)
LEMMA BeginsOK ==
  ASSUME IInv, ReadersTyped, NEW n \in Ids, MayBearToken(n),
         NEW y \in LookupType, y.pc = "token", y.id = n, y.dead = Dead(n), y.began = reloads,
         y.kind = "introspection" => y.client \in Registered(clients)
  PROVE  LookupOK(y)
  <1>1. n \in 1..mints
    BY Numbers DEF MayBearToken
  <1>2. y.kind = "introspection" => y.client \in ClientIDs
    BY DEF Registered
  <1>3. y.dead => ~Exists(n) \/ now > tokens[n].expiration
    BY DeadIsGone
  <1>4. reloads <= reloads
    BY Numbers
  <1> QED BY <1>1, <1>2, <1>3, <1>4 DEF LookupOK, Holding, Checked

(* A lookup begins in order: of a token somebody may hold, and by a          *)
(* registered client where it is an introspection.                           *)
LEMMA BeginReads ==
  ASSUME IInv, IInv', ReadersInv, NEW q \in Lookups, NEW n \in Ids,
         \/ Userinfo(q, n)
         \/ \E c \in ClientIDs, right \in BOOLEAN : AuthorizeClientIDSecret(q, n, c, right)
  PROVE  ReadersInv'
  <1>t. ReadersTyped
    BY DEF ReadersInv
  <1>i. /\ IdleLookup \in LookupType /\ reloads \in 0..MaxReloads /\ Dead(n) \in BOOLEAN
        /\ MayBearToken(n) => n \in 0..MaxMints
    <2>1. 0 \in 0..MaxMints /\ 0 \in 0..MaxReloads
      BY TokensAssumption, ClaimsAssumption
    <2>2. IdleLookup \in LookupType
      BY <2>1, NothingType DEF IdleLookup, LookupType
    <2>3. Dead(n) \in BOOLEAN
      BY Zenon DEF Dead
    <2> QED BY <1>t, <2>2, <2>3, Numbers DEF MayBearToken, ReadersTyped
  <1>1. CASE Userinfo(q, n)
    <2> DEFINE new == [IdleLookup EXCEPT !.pc = "token", !.id = n, !.dead = Dead(n),
                                         !.began = reloads]
    <2>1. MayBearToken(n) /\ UNCHANGED <<vars, clients, reloads>>
      BY <1>1 DEF Userinfo
    <2>2. /\ new \in LookupType /\ new.pc = "token" /\ new.kind = "userinfo"
          /\ new.id = n /\ new.dead = Dead(n) /\ new.began = reloads
      BY <1>i, <2>1 DEF IdleLookup, LookupType
    <2>3. lookup' = [lookup EXCEPT ![q] = new]
      BY <1>1 DEF Userinfo
    <2> HIDE DEF new
    <2>4. PICK y : y = new
      OBVIOUS
    <2>5. LookupOK(y)
      BY <1>t, <2>1, <2>2, <2>4, BeginsOK
    <2> QED BY <2>1, <2>2, <2>3, <2>4, <2>5, LookupMoves
  <1>2. ASSUME NEW c \in ClientIDs, NEW right \in BOOLEAN,
               AuthorizeClientIDSecret(q, n, c, right)
        PROVE  ReadersInv'
    <2> DEFINE new == [IdleLookup EXCEPT !.pc = "token", !.kind = "introspection", !.id = n,
                                         !.client = c, !.dead = Dead(n), !.began = reloads]
    <2>1. MayBearToken(n) /\ UNCHANGED <<vars, clients, reloads>>
      BY <1>2 DEF AuthorizeClientIDSecret
    <2>2. /\ new \in LookupType /\ new.pc = "token" /\ new.id = n /\ new.client = c
          /\ new.dead = Dead(n) /\ new.began = reloads
      BY <1>i, <2>1 DEF IdleLookup, LookupType
    <2>3. CASE clients[c] = "confidential" /\ right
      <3>1. lookup' = [lookup EXCEPT ![q] = new]
        BY <1>2, <2>3 DEF AuthorizeClientIDSecret
      <3>2. c \in Registered(clients)
        BY <2>3 DEF Registered
      <3> HIDE DEF new
      <3>3. PICK y : y = new
        OBVIOUS
      <3>4. LookupOK(y)
        BY <1>t, <2>1, <2>2, <3>2, <3>3, BeginsOK
      <3> QED BY <2>1, <2>2, <3>1, <3>3, <3>4, LookupMoves
    <2>4. CASE ~(clients[c] = "confidential" /\ right)
      <3>1. PICK z : z = RefusedLookup
        OBVIOUS
      <3>2. lookup' = [lookup EXCEPT ![q] = z]
        BY <1>2, <2>4, <3>1 DEF AuthorizeClientIDSecret
      <3> QED BY <2>1, <3>1, <3>2, RefusedOK, LookupMoves
    <2> QED BY <2>3, <2>4
  <1> QED BY <1>1, <1>2
-----------------------------------------------------------------------------
(* A lookup is taken further or gives up.                                    *)
LEMMA Refuses ==
  ASSUME IInv, IInv', ReadersInv, NEW q \in Lookups,
         lookup' = [lookup EXCEPT ![q] = RefusedLookup], UNCHANGED <<vars, clients, reloads>>
  PROVE  ReadersInv'
  <1>1. PICK z : z = RefusedLookup
    OBVIOUS
  <1> QED BY <1>1, RefusedOK, LookupMoves

(* TokenByID takes the token out of the map: it is good then if it was good  *)
(* when the request began, and expired if it was not.                        *)
LEMMA TokenByIDReads ==
  ASSUME IInv, IInv', ReadersInv, NEW q \in Lookups, TokenByID(q)
  PROVE  ReadersInv'
  <1>1. PICK x : x = lookup[q]
    OBVIOUS
  <1>2. /\ x \in LookupType /\ LookupOK(x) /\ ReadersTyped
        /\ lookup \in [Lookups -> LookupType]
    BY <1>1 DEF ReadersInv, ReadersTyped
  <1>3. x.pc = "token" /\ x.id \in 1..mints /\ UNCHANGED <<vars, clients, reloads>>
    BY <1>1, <1>2 DEF TokenByID, LookupOK
  <1>4. CASE Exists(x.id)
    <2>1. PICK token : token = tokens[x.id]
      OBVIOUS
    <2>2. token \in TokenType /\ Known(token)
      BY <1>2, <1>3, <1>4, <2>1, Numbers
      DEF IInv, StorageInv, TokenInv, GrantInv, Owned, ScopeInv, ScopesWithinGrant, Known
    <2> DEFINE new == [x EXCEPT !.pc = "check", !.token = token]
    <2>3. /\ new \in LookupType /\ new.pc = "check" /\ new.token = token
          /\ new.dead = x.dead /\ new.kind = x.kind /\ new.client = x.client
          /\ new.began = x.began
      BY <1>2, <2>2 DEF LookupType
    <2>4. lookup' = [lookup EXCEPT ![q] = new]
      BY <1>1, <1>2, <1>4, <2>1 DEF TokenByID
    <2> HIDE DEF new
    <2>5. PICK y : y = new
      OBVIOUS
    <2>6. LookupOK(y)
      BY <1>2, <1>3, <1>4, <2>1, <2>2, <2>3, <2>5 DEF LookupOK, Holding, Checked
    <2> QED BY <1>3, <2>3, <2>4, <2>5, <2>6, LookupMoves
  <1>5. CASE ~Exists(x.id)
    <2>1. lookup' = [lookup EXCEPT ![q] = RefusedLookup]
      BY <1>1, <1>5 DEF TokenByID
    <2> QED BY <1>3, <2>1, Refuses
  <1> QED BY <1>4, <1>5

(* What passes the check has not expired, and so was not dead when the       *)
(* request began.                                                            *)
LEMMA CheckReads ==
  ASSUME IInv, IInv', ReadersInv, NEW q \in Lookups, CheckToken(q)
  PROVE  ReadersInv'
  <1>1. PICK x : x = lookup[q]
    OBVIOUS
  <1>2. /\ x \in LookupType /\ LookupOK(x) /\ ReadersTyped
        /\ lookup \in [Lookups -> LookupType]
    BY <1>1 DEF ReadersInv, ReadersTyped
  <1>3. x.pc = "check" /\ UNCHANGED <<vars, clients, reloads>>
    BY <1>1 DEF CheckToken
  <1>4. CASE now <= x.token.expiration /\ MayRead(q)
    <2>1. ~x.dead
      <3>1. x.token.expiration \in Nat /\ now \in Nat
        BY <1>2, Numbers, TokensAssumption DEF LookupType, TokenType, Times
      <3> QED BY <1>2, <1>3, <1>4, <3>1 DEF LookupOK
    <2>2. PICK scopes \in Readings(x.token.scopes) :
            lookup' = [lookup EXCEPT ![q] =
              IF now <= lookup[q].token.expiration /\ MayRead(q)
              THEN [@ EXCEPT !.pc = "apps", !.claims = scopes \cap ClaimScopes]
              ELSE RefusedLookup]
      BY <1>1 DEF CheckToken
    <2> DEFINE new == [x EXCEPT !.pc = "apps", !.claims = scopes \cap ClaimScopes]
    <2>3. /\ new \in LookupType /\ new.pc = "apps" /\ new.token = x.token
          /\ new.dead = x.dead /\ new.kind = x.kind /\ new.client = x.client
          /\ new.began = x.began
          /\ Garbage \notin new.token.scopes => new.claims \subseteq new.token.scopes
      BY <1>2, <2>2 DEF LookupType, Readings
    <2>4. lookup' = [lookup EXCEPT ![q] = new]
      BY <1>1, <1>2, <1>4, <2>2
    <2> HIDE DEF new
    <2>5. PICK y : y = new
      OBVIOUS
    <2>6. LookupOK(y)
      BY <1>2, <1>3, <2>1, <2>2, <2>3, <2>5 DEF LookupOK, Holding, Checked
    <2> QED BY <1>3, <2>3, <2>4, <2>5, <2>6, LookupMoves
  <1>5. CASE ~(now <= x.token.expiration /\ MayRead(q))
    <2>1. lookup' = [lookup EXCEPT ![q] = RefusedLookup]
      BY <1>1, <1>5 DEF CheckToken
    <2> QED BY <1>3, <2>1, Refuses
  <1> QED BY <1>4, <1>5

(* The apps are those of the moment: a client that is not among them was     *)
(* dropped since it authenticated.                                           *)
LEMMA AppsRead ==
  ASSUME IInv, IInv', ReadersInv, NEW q \in Lookups, AllClientIDs(q)
  PROVE  ReadersInv'
  <1>1. PICK x : x = lookup[q]
    OBVIOUS
  <1>2. /\ x \in LookupType /\ LookupOK(x) /\ ReadersTyped
        /\ lookup \in [Lookups -> LookupType]
    BY <1>1 DEF ReadersInv, ReadersTyped
  <1>3. x.pc = "apps" /\ UNCHANGED <<vars, clients, reloads>>
    BY <1>1 DEF AllClientIDs
  <1> DEFINE new == [x EXCEPT !.pc = "answered", !.apps = EntitledApps]
  <1>4. EntitledApps \in SUBSET ClientIDs
    BY SeedsAssumption DEF EntitledApps, Registered
  <1>5. /\ new \in LookupType /\ new.pc = "answered" /\ new.token = x.token
        /\ new.dead = x.dead /\ new.kind = x.kind /\ new.client = x.client
        /\ new.began = x.began /\ new.claims = x.claims /\ new.apps = EntitledApps
    BY <1>2, <1>4 DEF LookupType
  <1>6. lookup' = [lookup EXCEPT ![q] = new]
    <2>1. lookup' = [lookup EXCEPT ![q].pc = "answered", ![q].apps = EntitledApps]
      BY DEF AllClientIDs
    <2> QED BY <1>1, <1>2, <2>1
  <1> HIDE DEF new
  <1>7. PICK y : y = new
    OBVIOUS
  <1>8. y.kind = "introspection" /\ y.client \notin y.apps =>
          y.client \notin Seeds /\ y.began < reloads
    <2>1. x.began \in Nat /\ reloads \in Nat
      BY <1>2, Numbers, ClaimsAssumption DEF LookupType
    <2> QED BY <1>2, <1>5, <1>7, <2>1 DEF LookupOK, EntitledApps
  <1>9. LookupOK(y)
    BY <1>2, <1>3, <1>5, <1>7, <1>8 DEF LookupOK, Holding, Checked
  <1> QED BY <1>3, <1>5, <1>6, <1>7, <1>9, LookupMoves
-----------------------------------------------------------------------------
(* The readers leave the tokens as they are: whatever is true of Tokens is   *)
(* true while userinfo and introspection requests are served.                *)
THEOREM ReadersOnlyRead == ClaimsSpec => Spec
  <1>1. ClaimsInit => Init
    BY Zenon DEF ClaimsInit
  <1>2. [ClaimsNext]_claimsVars => [Next]_vars
    BY Zenon DEF ClaimsNext, claimsVars, Reload, Userinfo, AuthorizeClientIDSecret, LookupStep,
       TokenByID, CheckToken, AllClientIDs
  <1> QED BY <1>1, <1>2, PTL DEF ClaimsSpec, Spec

(* A freshly started IdP serves no lookup and knows the seeded clients.      *)
LEMMA ReadersInit == ClaimsInit => ReadersInv
  <1> SUFFICES ASSUME ClaimsInit PROVE ReadersInv
    OBVIOUS
  <1>1. 0 \in 0..MaxMints /\ 0 \in 0..MaxReloads
    BY TokensAssumption, ClaimsAssumption
  <1>2. IdleLookup \in LookupType
    BY <1>1, NothingType DEF IdleLookup, LookupType
  <1>3. SeedClients \in Registries /\ Seeds \subseteq Registered(SeedClients)
    BY SeedsAssumption DEF SeedClients, Registries, Kinds, RegisteredKinds, Registered
  <1>4. ReadersTyped
    BY <1>1, <1>2, <1>3 DEF ClaimsInit, ReadersTyped
  <1>5. ASSUME NEW q \in Lookups PROVE LookupOK(lookup[q])
    <2>1. lookup[q].pc = "idle" /\ lookup[q].kind = "userinfo"
      BY DEF ClaimsInit, IdleLookup
    <2> QED BY <2>1 DEF LookupOK, Holding, Checked
  <1> QED BY <1>4, <1>5 DEF ReadersInv

(* A reload keeps the seeded clients.                                        *)
LEMMA ReloadTyped ==
  ASSUME ReadersTyped, NEW file \in Files, Reload(file)
  PROVE  ReadersTyped'
  <1>1. /\ clients' = ReplaceFileClients(clients, file) /\ UNCHANGED lookup
        /\ reloads' = reloads + 1 /\ reloads < MaxReloads
    BY DEF Reload
  <1>2. file \in Registries
    BY ClaimsAssumption
  <1>3. clients' \in Registries /\ Seeds \subseteq Registered(clients')
    BY <1>1, <1>2, SeedsAssumption
    DEF ReadersTyped, ReplaceFileClients, Registries, Kinds, RegisteredKinds, Registered
  <1>4. reloads' \in 0..MaxReloads
    BY <1>1, ClaimsAssumption DEF ReadersTyped
  <1> QED BY <1>1, <1>3, <1>4 DEF ReadersTyped, Registered

(* Every step of the readers, and every step of the tokens under them, keeps *)
(* the invariant.                                                            *)
LEMMA ReadersNext ==
  IInv /\ IInv' /\ ReadersInv /\ [ClaimsNext]_claimsVars => ReadersInv'
  <1> SUFFICES ASSUME IInv, IInv', ReadersInv, [ClaimsNext]_claimsVars PROVE ReadersInv'
    OBVIOUS
  <1>t. ReadersTyped
    BY DEF ReadersInv
  <1>1. CASE [Next]_vars /\ UNCHANGED <<clients, reloads, lookup>>
    <2>1. ReadersTyped'
      BY <1>1, <1>t DEF ReadersTyped, Registered
    <2> QED BY <1>1, <1>t, <2>1, TokensLater, LookupsRest
  <1>2. ASSUME NEW file \in Files, Reload(file) PROVE ReadersInv'
    BY <1>2, <1>t, ReloadTyped, ReloadLater, LookupsRest DEF Reload
  <1>3. ASSUME NEW q \in Lookups, NEW n \in Ids,
               \/ Userinfo(q, n)
               \/ \E c \in ClientIDs, right \in BOOLEAN : AuthorizeClientIDSecret(q, n, c, right)
        PROVE  ReadersInv'
    BY <1>3, BeginReads
  <1>4. ASSUME NEW q \in Lookups, LookupStep(q) PROVE ReadersInv'
    BY <1>4, TokenByIDReads, CheckReads, AppsRead DEF LookupStep
  <1> QED BY <1>1, <1>2, <1>3, <1>4 DEF ClaimsNext, claimsVars

(* The readers' invariant holds in every reachable state, whatever is        *)
(* rotated, revoked or reloaded between the steps of a lookup.               *)
THEOREM ReadersInvariant == ClaimsSpec => []ReadersInv
  <1>1. ClaimsSpec => []IInv
    BY ReadersOnlyRead, InductiveInvariant, PTL
  <1> QED BY <1>1, ReadersInit, ReadersNext, PTL DEF ClaimsSpec

(* A token that was dead when a request presented it tells nothing: the      *)
(* token is deleted with its refresh token, or its own time is up when the   *)
(* request looks at it (SetUserinfoFromToken, SetIntrospectionFromToken).    *)
THEOREM DeadTokensTellNothing == ClaimsSpec => []NoAnswerFromTheDead
  <1>1. ReadersInv => NoAnswerFromTheDead
    BY DEF ReadersInv, LookupOK, Checked, NoAnswerFromTheDead, Answered
  <1> QED BY <1>1, ReadersInvariant, PTL

(* A good token is told to the client the grant was made for and refused to  *)
(* all others, whichever rotation minted it: the audience is handed down     *)
(* from the authorization through every refreshToken object and token        *)
(* (accessToken, CreateAccessAndRefreshTokens, SetIntrospectionFromToken).   *)
THEOREM OnlyTheirClientsIntrospect == ClaimsSpec => OnlyItsClientIntrospects
  <1>1. ReadersInv /\ [ClaimsNext]_claimsVars =>
          [\A q \in Lookups :
             Decides(q) /\ lookup[q].kind = "introspection" /\ now <= lookup[q].token.expiration =>
               (lookup'[q].pc = "apps" <=>
                  lookup[q].client = grant[lookup[q].token.grant].issuedTo)]_claimsVars
    <2> SUFFICES ASSUME ReadersInv, [ClaimsNext]_claimsVars, NEW q \in Lookups, Decides(q),
                        lookup[q].kind = "introspection", now <= lookup[q].token.expiration
                 PROVE  lookup'[q].pc = "apps" <=>
                          lookup[q].client = grant[lookup[q].token.grant].issuedTo
      OBVIOUS
    <2>1. PICK x : x = lookup[q]
      OBVIOUS
    <2>2. /\ lookup \in [Lookups -> LookupType] /\ x \in LookupType /\ LookupOK(x)
          /\ x.pc = "check" /\ lookup'[q] # x
      BY <2>1 DEF ReadersInv, ReadersTyped, Decides
    <2>3. x.token.audience = {grant[x.token.grant].issuedTo}
      BY <2>2 DEF LookupOK, Holding, Known
    <2>4. CheckToken(q)
      <3>1. ASSUME NEW r \in Lookups, NEW n \in Ids, Userinfo(r, n) PROVE FALSE
        BY <2>1, <2>2, <3>1 DEF Userinfo
      <3>2. ASSUME NEW r \in Lookups, NEW n \in Ids, NEW c \in ClientIDs, NEW right \in BOOLEAN,
                   AuthorizeClientIDSecret(r, n, c, right)
            PROVE  FALSE
        BY <2>1, <2>2, <3>2 DEF AuthorizeClientIDSecret
      <3>3. ASSUME NEW r \in Lookups, TokenByID(r) PROVE FALSE
        BY <2>1, <2>2, <3>3 DEF TokenByID
      <3>4. ASSUME NEW r \in Lookups, AllClientIDs(r) PROVE FALSE
        BY <2>1, <2>2, <3>4 DEF AllClientIDs
      <3>5. ASSUME NEW r \in Lookups, CheckToken(r) PROVE r = q
        BY <2>1, <2>2, <3>5 DEF CheckToken
      <3>6. ~ UNCHANGED lookup
        BY <2>1, <2>2
      <3>7. \A file \in Files : ~Reload(file)
        BY <3>6 DEF Reload
      <3> QED BY <3>1, <3>2, <3>3, <3>4, <3>5, <3>6, <3>7
              DEF ClaimsNext, claimsVars, LookupStep
    <2>5. PICK scopes :
            lookup'[q] = IF now <= x.token.expiration /\ MayRead(q)
                         THEN [x EXCEPT !.pc = "apps", !.claims = scopes \cap ClaimScopes]
                         ELSE RefusedLookup
      BY <2>1, <2>2, <2>4 DEF CheckToken
    <2>6. RefusedLookup.pc = "refused"
      BY DEF RefusedLookup, IdleLookup
    <2>7. lookup'[q].pc = "apps" <=> MayRead(q)
      BY <2>1, <2>2, <2>5, <2>6 DEF LookupType
    <2> QED BY <2>1, <2>3, <2>7 DEF MayRead
  <1> QED BY <1>1, ReadersInvariant, PTL DEF ClaimsSpec, OnlyItsClientIntrospects

(* Name and email are told where the grant had their scope, through          *)
(* rotations that copy scopes while they are written without the lock: where *)
(* no two writes overlapped, and of a token that is no copy of a list with   *)
(* something past its end (setCoarseUserinfo).                               *)
THEOREM ClaimsStayGranted == ClaimsSpec => []ClaimsWithinGrant
  <1>1. ReadersInv => ClaimsWithinGrant
    <2> SUFFICES ASSUME ReadersInv, NEW q \in Lookups, NoRace, Answered(q),
                        Garbage \notin lookup[q].token.scopes
                 PROVE  lookup[q].claims \subseteq grant[lookup[q].token.grant].granted
      BY DEF ClaimsWithinGrant
    <2>1. PICK x : x = lookup[q]
      OBVIOUS
    <2>2. /\ x.claims \subseteq x.token.scopes /\ Garbage \notin x.token.scopes
          /\ x.token.scopes \ {Garbage} \subseteq grant[x.token.grant].granted
      BY <2>1 DEF ReadersInv, LookupOK, Known, Holding, Checked, Answered
    <2> QED BY <2>1, <2>2
  <1> QED BY <1>1, ReadersInvariant, PTL

(* An introspecting client is among the apps of its answer unless a reload   *)
(* dropped it meanwhile (setCoarseUserinfo, allClientIDs).                   *)
THEOREM CallersAreEntitled == ClaimsSpec => []CallerEntitled
  <1>1. ReadersInv => CallerEntitled
    BY DEF ReadersInv, LookupOK, CallerEntitled, Answered
  <1> QED BY <1>1, ReadersInvariant, PTL
===============================================================================
