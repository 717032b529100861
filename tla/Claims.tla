------------------------------- MODULE Claims -------------------------------
(* The readers of tokens: /userinfo and introspection, which turn an access  *)
(* token into the coarse claims, over the tokens of Tokens and a registry    *)
(* that is hot-reloaded.                                                     *)
(*                                                                           *)
(* A lookup takes the token out of the map under the lock and goes on with   *)
(* it after: expiry and audience are looked at without the lock, and the     *)
(* apps claim takes it again. Meanwhile the token may be rotated, revoked or *)
(* expire, and the client that asks may be dropped.                          *)
EXTENDS Tokens

CONSTANTS Files,         \* what a clients file that is reloaded may declare
          Lookups,       \* userinfo and introspection requests
          ClaimScopes,   \* the scopes that carry claims: profile and email
          MaxReloads     \* hot reloads of the clients file

ASSUME ClaimsAssumption ==
  /\ Files \subseteq Registries
  /\ ClaimScopes \subseteq Scopes
  /\ MaxReloads \in Nat

VARIABLES clients,       \* Storage.clients
          reloads,       \* hot reloads so far, a bound
          lookup         \* the handlers of userinfo and introspection requests

claimsVars == <<vars, clients, reloads, lookup>>

(* token is the object a handler took out of the map. dead and began are     *)
(* history: whether the token presented was no longer good when the request  *)
(* began, and the reloads by then.                                           *)
IdleLookup ==
  [pc |-> "idle", kind |-> "userinfo", id |-> 0, client |-> NoClient, token |-> NoToken,
   claims |-> {}, apps |-> {}, dead |-> FALSE, began |-> 0]

ClaimsInit ==
  /\ Init
  /\ clients = SeedClients
  /\ reloads = 0
  /\ lookup = [q \in Lookups |-> IdleLookup]
-----------------------------------------------------------------------------
Reload(file) ==
  /\ reloads < MaxReloads
  /\ clients' = ReplaceFileClients(clients, file)
  /\ reloads' = reloads + 1
  /\ UNCHANGED <<vars, lookup>>

(* Whether presenting token n is too late: its grant was revoked, ended or   *)
(* has expired, it was replaced or revoked, or its time is up.               *)
Dead(n) ==
  LET g == tokens[n].grant
  IN ~Exists(n) \/ ~Live(g) \/ grant[g].accessTokenID # n \/ now > tokens[n].expiration
-----------------------------------------------------------------------------
(* Whether somebody may hold token n. What was deleted was delivered or not, *)
(* which makes no difference any more.                                       *)
MayBearToken(n) == n <= mints /\ (Exists(n) => tokens[n].delivered)

RefusedLookup == [IdleLookup EXCEPT !.pc = "refused"]

(* A bearer presents an access token; the OP decrypts it.                    *)
Userinfo(q, n) ==
  /\ lookup[q].pc = "idle"
  /\ MayBearToken(n)
  /\ lookup' = [lookup EXCEPT ![q] =
       [IdleLookup EXCEPT !.pc = "token", !.id = n, !.dead = Dead(n), !.began = reloads]]
  /\ UNCHANGED <<vars, clients, reloads>>

(* Introspection wants a client that proves its secret: no public one.       *)
AuthorizeClientIDSecret(q, n, c, rightSecret) ==
  /\ lookup[q].pc = "idle"
  /\ MayBearToken(n)
  /\ lookup' = [lookup EXCEPT ![q] =
       IF clients[c] = "confidential" /\ rightSecret
       THEN [IdleLookup EXCEPT !.pc = "token", !.kind = "introspection", !.id = n,
                               !.client = c, !.dead = Dead(n), !.began = reloads]
       ELSE RefusedLookup]
  /\ UNCHANGED <<vars, clients, reloads>>

TokenByID(q) ==
  /\ lookup[q].pc = "token"
  /\ lookup' = [lookup EXCEPT ![q] =
       IF Exists(lookup[q].id)
       THEN [@ EXCEPT !.pc = "check", !.token = tokens[lookup[q].id]]
       ELSE RefusedLookup]
  /\ UNCHANGED <<vars, clients, reloads>>

(* A bearer reads its own token; an introspecting client one whose audience  *)
(* it is of.                                                                 *)
MayRead(q) ==
  lookup[q].kind = "introspection" => lookup[q].client \in lookup[q].token.audience

(* Good at its last instant, as Before says. The claims are those of the     *)
(* token's scopes that carry any; a torn list reads as it may.               *)
CheckToken(q) ==
  /\ lookup[q].pc = "check"
  /\ \E scopes \in Readings(lookup[q].token.scopes) :
       lookup' = [lookup EXCEPT ![q] =
         IF now <= lookup[q].token.expiration /\ MayRead(q)
         THEN [@ EXCEPT !.pc = "apps", !.claims = scopes \cap ClaimScopes]
         ELSE RefusedLookup]
  /\ UNCHANGED <<vars, clients, reloads>>

(* Mutant: only the apps an identity declares are listed.                    *)
EntitledApps_declared == Seeds

(* The union of the apps every identity declares, the seeded ones, with      *)
(* every client_id registered at this moment.                                *)
EntitledApps == Seeds \cup Registered(clients)

AllClientIDs(q) ==
  /\ lookup[q].pc = "apps"
  /\ lookup' = [lookup EXCEPT ![q].pc = "answered", ![q].apps = EntitledApps]
  /\ UNCHANGED <<vars, clients, reloads>>

LookupStep(q) == TokenByID(q) \/ CheckToken(q) \/ AllClientIDs(q)

ClaimsNext ==
  \/ Next /\ UNCHANGED <<clients, reloads, lookup>>
  \/ \E file \in Files : Reload(file)
  \/ \E q \in Lookups, n \in Ids : Userinfo(q, n)
  \/ \E q \in Lookups, n \in Ids, c \in ClientIDs, right \in BOOLEAN :
       AuthorizeClientIDSecret(q, n, c, right)
  \/ \E q \in Lookups : LookupStep(q)

ClaimsSpec == ClaimsInit /\ [][ClaimsNext]_claimsVars
-----------------------------------------------------------------------------
(* Safety.                                                                   *)

Answered(q) == lookup[q].pc = "answered"

(* A request that began after its token was rotated away, revoked, ended     *)
(* with the session or had expired is refused, by whichever of the maps the  *)
(* token was reached and whatever refreshes were under way (SetUserinfo-     *)
(* FromToken and SetIntrospectionFromToken look the token up only once).     *)
NoAnswerFromTheDead == \A q \in Lookups : Answered(q) => ~lookup[q].dead

(* Introspection tells about a token, as long as it is good, the client the  *)
(* authorization was made for and no other, in every generation of the       *)
(* grant and also where the grant and its tokens bear no client id: the      *)
(* audience goes from the authorization to the first token, from there to    *)
(* the refreshToken object, and from the object to the token of a rotation.  *)
Decides(q) == lookup[q].pc = "check" /\ lookup'[q] # lookup[q]
OnlyItsClientIntrospects ==
  [][\A q \in Lookups :
       Decides(q) /\ lookup[q].kind = "introspection" /\ now <= lookup[q].token.expiration =>
         (lookup'[q].pc = "apps" <=>
            lookup[q].client = grant[lookup[q].token.grant].issuedTo)]_claimsVars

(* Name and email are told only where the person's grant had their scope,    *)
(* though a request may be narrowing the scopes of the shared object, which  *)
(* it does without the lock, while another rotates it and copies them into   *)
(* the token. Promised where no two requests narrowed at once, and of a      *)
(* token that is no copy of a list with something past its end.              *)
ClaimsWithinGrant ==
  \A q \in Lookups : NoRace /\ Answered(q) /\ Garbage \notin lookup[q].token.scopes =>
    lookup[q].claims \subseteq grant[lookup[q].token.grant].granted

(* An introspecting client finds itself among the apps of the answer, unless *)
(* a reload dropped it after it authenticated (the registry is read at both  *)
(* ends of the request).                                                     *)
CallerEntitled ==
  \A q \in Lookups :
    Answered(q) /\ lookup[q].kind = "introspection" /\ lookup[q].client \notin lookup[q].apps =>
      lookup[q].client \notin Seeds /\ lookup[q].began < reloads
=============================================================================
