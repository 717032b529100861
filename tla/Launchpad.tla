----------------------------- MODULE Launchpad -----------------------------
(* The IdP's own pages: the identity picker and the app-tile launchpad, the  *)
(* session cookie they turn on, and the script that enhances them, in a      *)
(* browser with several tabs over one cookie jar.                            *)
(*                                                                           *)
(* The server keeps nothing of a session: a handler is a function of the     *)
(* request, the cookie it was sent with, the identities compiled in and the  *)
(* client registry, and serves it in one step (ClientTiles is its only       *)
(* critical section). The steps between are the browser's: a request is      *)
(* sent with the cookie of that moment, answers arrive in any order or       *)
(* never, and each is applied to the jar all tabs share. A restart forgets   *)
(* the registry and may bring a build with other identities; cookies stay.   *)
EXTENDS Naturals, Registry

CONSTANTS Files,        \* what a clients file that is reloaded may declare
          Tabs,
          Subjects,     \* every identity some build has
          Builds,       \* the sets of identities builds are compiled with
          NoSubject,    \* no cookie; nobody is signed in
          MaxClicks,    \* requests people make, redirects not counted
          MaxReloads, MaxRestarts

Keep == "keep"   \* an answer without Set-Cookie

ASSUME LaunchpadAssumption ==
  /\ Files \subseteq Registries
  /\ Builds \subseteq SUBSET Subjects
  /\ NoSubject \notin Subjects
  /\ Keep \notin Subjects \cup {NoSubject}
  /\ {MaxClicks, MaxReloads, MaxRestarts} \subseteq Nat

VARIABLES clients,      \* Storage.clients
          identities,   \* Identities, of the running build
          cookie,       \* idp_session in the browser's jar
          request,      \* by tab: what it waits for
          page,         \* by tab: what it shows
          clicks, reloads, restarts   \* so far, bounds

vars == <<clients, identities, cookie, request, page, clicks, reloads, restarts>>
-----------------------------------------------------------------------------
Paths == {"none", "/", "/launchpad.json", "/pick", "/logout", "/switch"}

(* A goal is what a person asked for: the path, the identity picked, and     *)
(* whether the click went through the script of the page.                    *)
NoGoal == [path |-> "none", subject |-> NoSubject]
Goal(path, s) == [path |-> path, subject |-> s]

(* known, stale and crossed are history: the identities of the build that    *)
(* served it, whether another tab's answer changed the cookie since the      *)
(* request was sent, and whether one did between a redirect and the request  *)
(* that follows it.                                                          *)
NoPage == [kind |-> "blank", identity |-> NoSubject, tiles |-> {}, goal |-> NoGoal,
           known |-> {}, stale |-> FALSE, crossed |-> FALSE, enhanced |-> FALSE,
           session |-> "none"]

NoRequest == [stage |-> "none", goal |-> NoGoal, path |-> "none", cookie |-> NoSubject,
              answer |-> "none", setCookie |-> Keep, page |-> NoPage,
              stale |-> FALSE, crossed |-> FALSE]

SendRequest(goal, path, crossed) ==
  [NoRequest EXCEPT !.stage = "sent", !.goal = goal, !.path = path, !.cookie = cookie,
                    !.crossed = crossed]

Init ==
  /\ clients = SeedClients
  /\ identities \in Builds
  /\ cookie \in Subjects \cup {NoSubject}   \* of an earlier visit
  /\ request = [t \in Tabs |-> NoRequest]
  /\ page = [t \in Tabs |-> NoPage]
  /\ clicks = 0 /\ reloads = 0 /\ restarts = 0
-----------------------------------------------------------------------------
(* The server.                                                               *)

(* WatchClientsFile applies a file it has loaded.                            *)
Reload(file) ==
  /\ reloads < MaxReloads
  /\ clients' = ReplaceFileClients(clients, file)
  /\ reloads' = reloads + 1
  /\ UNCHANGED <<identities, cookie, request, page, clicks, restarts>>

(* A request that was not answered fails; the page it came from stays.       *)
Restart(build) ==
  /\ restarts < MaxRestarts
  /\ clients' = SeedClients
  /\ identities' = build
  /\ request' = [t \in Tabs |-> IF request[t].stage = "sent" THEN NoRequest ELSE request[t]]
  /\ restarts' = restarts + 1
  /\ UNCHANGED <<cookie, page, clicks, reloads>>

(* Mutant: the cookie is taken for an identity without being looked up.      *)
SessionIdentity_trusts(c) == c

IdentityBySubject(s) == IF s \in identities THEN s ELSE NoSubject

(* The identity a cookie names; a cookie of an identity this build does not  *)
(* have is no session.                                                       *)
SessionIdentity(c) == IF c = NoSubject THEN NoSubject ELSE IdentityBySubject(c)

ClientTiles == Registered(clients)

(* Mutant: the page does not depend on Authenticated.                        *)
HomeKind_always(identity) == "launchpad"
HomeKind(identity) == IF identity = NoSubject THEN "picker" ELSE "launchpad"

(* buildData; the picker lists the identities and leaves the tiles out.      *)
Answer(t, kind, identity) ==
  [request[t] EXCEPT !.stage = "answered", !.answer = "page",
     !.page = [NoPage EXCEPT !.kind = kind, !.identity = identity,
                             !.tiles = IF kind = "picker" THEN {} ELSE ClientTiles,
                             !.goal = request[t].goal, !.known = identities,
                             !.crossed = request[t].crossed]]

Redirect(t, value) ==
  [request[t] EXCEPT !.stage = "answered", !.answer = "redirect", !.setCookie = value]

Home(t) ==
  LET identity == SessionIdentity(request[t].cookie)
  IN Answer(t, HomeKind(identity), identity)

Data(t) == Answer(t, "json", SessionIdentity(request[t].cookie))

Pick(t) ==
  LET s == request[t].goal.subject
  IN IF IdentityBySubject(s) # NoSubject THEN Redirect(t, s) ELSE Answer(t, "error", NoSubject)

(* Mutants: the cookie is cleared on a path of its own; one is sent to       *)
(* /logout again and not to the picker (the way over the browser left out).  *)
Logout_otherCookie(t) == Redirect(t, Keep)
Logout_toItself(t) == SendRequest(request[t].goal, "/logout", request[t].crossed)

(* /logout and /switch: the cookie is dropped.                               *)
Logout(t) == Redirect(t, NoSubject)

Serve(t) ==
  /\ request[t].stage = "sent"
  /\ request' = [request EXCEPT ![t] =
       CASE request[t].path = "/" -> Home(t)
         [] request[t].path = "/launchpad.json" -> Data(t)
         [] request[t].path = "/pick" -> Pick(t)
         [] request[t].path \in {"/logout", "/switch"} -> Logout(t)]
  /\ UNCHANGED <<clients, identities, cookie, page, clicks, reloads, restarts>>
-----------------------------------------------------------------------------
(* The browser.                                                              *)

(* A person asks for something; a tab that waits gives up what it waits for, *)
(* whether it was served or not.                                             *)
Ask(t, path, s) ==
  /\ clicks < MaxClicks
  /\ clicks' = clicks + 1
  /\ request' = [request EXCEPT ![t] = SendRequest(Goal(path, s), path, FALSE)]

(* A typed address, or a link of a page whose script does not run.           *)
Open(t, path, s) ==
  /\ Ask(t, path, s)
  /\ UNCHANGED <<clients, identities, cookie, page, reloads, restarts>>

(* With the script the session's logout announces signed_out on the page's   *)
(* bus and then navigates.                                                   *)
ClickLogout(t) ==
  /\ page[t].kind = "launchpad" /\ page[t].enhanced
  /\ Ask(t, "/logout", NoSubject)
  /\ page' = [page EXCEPT ![t].session = "signed_out"]
  /\ UNCHANGED <<clients, identities, cookie, reloads, restarts>>

(* For switching user the script only navigates.                             *)
ClickSwitch(t) ==
  /\ page[t].kind = "launchpad" /\ page[t].enhanced
  /\ Ask(t, "/switch", NoSubject)
  /\ UNCHANGED <<clients, identities, cookie, page, reloads, restarts>>

(* main: subscribe, then announce the session the page was rendered with.    *)
Enhance(t) ==
  /\ page[t].kind \in {"picker", "launchpad"}
  /\ ~page[t].enhanced
  /\ page' = [page EXCEPT ![t].enhanced = TRUE,
                          ![t].session = IF page[t].identity # NoSubject
                                         THEN "token_acquired" ELSE "none"]
  /\ UNCHANGED <<clients, identities, cookie, request, clicks, reloads, restarts>>

(* An answer arrives. A cookie that changes makes what other tabs show, or   *)
(* have asked for with the old one, stale.                                   *)
Receive(t) ==
  LET answer == request[t]
      jar == IF answer.setCookie = Keep THEN cookie ELSE answer.setCookie
      changed == jar # cookie
  IN /\ answer.stage = "answered"
     /\ cookie' = jar
     /\ request' = [u \in Tabs |->
          IF u # t
          THEN [request[u] EXCEPT !.stale = @ \/ (changed /\ request[u].stage # "none")]
          ELSE IF answer.answer = "redirect"
          THEN [NoRequest EXCEPT !.stage = "redirected", !.goal = answer.goal]
          ELSE NoRequest]
     /\ page' = [u \in Tabs |->
          IF u = t /\ answer.answer = "page" THEN [answer.page EXCEPT !.stale = answer.stale]
          ELSE IF page[u].kind = "blank" THEN page[u]
          ELSE [page[u] EXCEPT !.stale = @ \/ changed]]
     /\ UNCHANGED <<clients, identities, clicks, reloads, restarts>>

(* A redirect is followed with the cookie of that moment.                    *)
Follow(t) ==
  /\ request[t].stage = "redirected"
  /\ request' = [request EXCEPT ![t] = SendRequest(@.goal, "/", @.stale)]
  /\ UNCHANGED <<clients, identities, cookie, page, clicks, reloads, restarts>>

(* The connection breaks.                                                    *)
Lose(t) ==
  /\ request[t].stage # "none"
  /\ request' = [request EXCEPT ![t] = NoRequest]
  /\ UNCHANGED <<clients, identities, cookie, page, clicks, reloads, restarts>>
-----------------------------------------------------------------------------
Next ==
  \/ \E file \in Files : Reload(file)
  \/ \E build \in Builds : Restart(build)
  \/ \E t \in Tabs :
       \/ \E path \in Paths \ {"none", "/pick"} : Open(t, path, NoSubject)
       \/ \E s \in Subjects : Open(t, "/pick", s)
       \/ ClickLogout(t)
       \/ ClickSwitch(t)
       \/ Enhance(t)
       \/ Serve(t)
       \/ Receive(t)
       \/ Follow(t)
       \/ Lose(t)

Spec == Init /\ [][Next]_vars

(* A request that is neither lost nor given up is served and its answer      *)
(* arrives. Nobody has to click.                                             *)
FairSpec ==
  Spec /\ \A t \in Tabs : WF_vars(Serve(t)) /\ WF_vars(Receive(t)) /\ WF_vars(Follow(t))
-----------------------------------------------------------------------------
(* Types.                                                                    *)
GoalType == [path : Paths, subject : Subjects \cup {NoSubject}]
PageType ==
  [kind : {"blank", "picker", "launchpad", "json", "error"},
   identity : Subjects \cup {NoSubject}, tiles : SUBSET ClientIDs, goal : GoalType,
   known : SUBSET Subjects, stale : BOOLEAN, crossed : BOOLEAN, enhanced : BOOLEAN,
   session : {"none", "token_acquired", "signed_out"}]
RequestType ==
  [stage : {"none", "sent", "answered", "redirected"}, goal : GoalType, path : Paths,
   cookie : Subjects \cup {NoSubject}, answer : {"none", "page", "redirect"},
   setCookie : Subjects \cup {NoSubject, Keep}, page : PageType,
   stale : BOOLEAN, crossed : BOOLEAN]

(* Every variable holds a value of its type; a launchpad is somebody's, and  *)
(* only an enhanced one has announced a session or its end.                  *)
TypeOK ==
  /\ clients \in Registries
  /\ identities \in Builds
  /\ cookie \in Subjects \cup {NoSubject}
  /\ request \in [Tabs -> RequestType]
  /\ page \in [Tabs -> PageType]
  /\ clicks \in 0..MaxClicks /\ reloads \in 0..MaxReloads /\ restarts \in 0..MaxRestarts
  /\ \A t \in Tabs :
       /\ page[t].kind = "launchpad" => page[t].identity # NoSubject
       /\ page[t].kind = "picker" => page[t].identity = NoSubject
       /\ page[t].session # "none" => page[t].kind = "launchpad" /\ page[t].enhanced
-----------------------------------------------------------------------------
(* Safety.                                                                   *)

(* A click leads where it says, whatever other tabs do meanwhile: logging    *)
(* out or switching user ends at the picker, picking an identity at its      *)
(* launchpad, or at an error where the build has changed (pick, logout and   *)
(* switchUser set the cookie and redirect in one answer; home then reads the *)
(* jar that every tab writes). Only another tab's answer that changes the    *)
(* cookie between the redirect and the request that follows can cross it.    *)
ArrivesWhereClicked ==
  \A t \in Tabs : LET p == page[t] IN ~p.crossed =>
    /\ p.goal.path \in {"/logout", "/switch"} => p.kind = "picker"
    /\ p.goal.path = "/pick" /\ p.goal.subject \in p.known =>
         p.kind = "launchpad" /\ p.identity = p.goal.subject

(* A page that no other tab has made stale shows the session the browser's   *)
(* next request will act for: the identity of the cookie, or nobody if the   *)
(* build that rendered it knows no such identity (sessionIdentity), so that  *)
(* Log out on it logs out who it says is signed in.                          *)
PageAgreesWithCookie ==
  \A t \in Tabs : LET p == page[t] IN
    p.kind \in {"picker", "launchpad", "json"} /\ ~p.stale =>
      p.identity = IF cookie \in p.known THEN cookie ELSE NoSubject

(* Liveness: whatever was asked for ends, with a page, or with the           *)
(* connection; nobody is redirected for good.                                *)
ClicksEnd == \A t \in Tabs : request[t].stage # "none" ~> request[t].stage = "none"
=============================================================================
