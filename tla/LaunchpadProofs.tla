---------------------------- MODULE LaunchpadProofs ----------------------------
(* Theorems about Launchpad, for every set of tabs, identities, builds and   *)
(* clients files, and for every bound.                                       *)
EXTENDS Launchpad, TLAPS

(* The paths that set or drop the cookie and redirect, and what they set.    *)
Redirects == {"/pick", "/logout", "/switch"}
SetBy(goal) == IF goal.path = "/pick" THEN goal.subject ELSE NoSubject

(* The session a cookie stands for with the identities of a build.           *)
Names(c, known) == IF c \in known THEN c ELSE NoSubject

(* What is true of a page from the moment it is rendered: whose it is, and   *)
(* that it is where the click leads.                                         *)
Rendered(p) ==
  /\ p.kind = "launchpad" => p.identity # NoSubject
  /\ p.kind = "picker" => p.identity = NoSubject
  /\ p.session # "none" => p.kind = "launchpad" /\ p.enhanced
  /\ ~p.crossed =>
       /\ p.goal.path \in {"/logout", "/switch"} => p.kind = "picker"
       /\ p.goal.path = "/pick" /\ p.goal.subject \in p.known =>
            p.kind = "launchpad" /\ p.identity = p.goal.subject

Agrees(p) == p.kind \in {"picker", "launchpad", "json"} => p.identity = Names(cookie, p.known)

PageOK(p) == Rendered(p) /\ (~p.stale => Agrees(p))

(* A request on its way was sent with the cookie of the jar, unless another  *)
(* tab has changed it since; it asks for what was clicked, or for the home   *)
(* page after a redirect, and then with the cookie that redirect has set.    *)
SentOK(r) ==
  /\ r.path # "none" /\ r.setCookie = Keep
  /\ ~r.stale => r.cookie = cookie
  /\ \/ r.path = r.goal.path
     \/ /\ r.path = "/" /\ r.goal.path \in Redirects
        /\ ~r.crossed => r.cookie = SetBy(r.goal)

(* An answer is a page or a redirect with the cookie its path sets; a        *)
(* redirect is followed with that cookie if no other tab has changed it.     *)
AnsweredOK(r) ==
  \/ r.answer = "page" /\ r.setCookie = Keep /\ Rendered(r.page) /\ (~r.stale => Agrees(r.page))
  \/ r.answer = "redirect" /\ r.goal.path \in Redirects /\ r.setCookie = SetBy(r.goal)

RedirectedOK(r) == r.goal.path \in Redirects /\ (~r.stale => cookie = SetBy(r.goal))

RequestOK(r) ==
  /\ r.stage = "sent" => SentOK(r)
  /\ r.stage = "answered" => AnsweredOK(r)
  /\ r.stage = "redirected" => RedirectedOK(r)

IInv == TypeOK /\ \A t \in Tabs : PageOK(page[t]) /\ RequestOK(request[t])
-----------------------------------------------------------------------------
(* The type invariant is about the variables one by one; what it says of a   *)
(* page is true of every rendered one.                                       *)
Typed ==
  /\ clients \in Registries
  /\ identities \in Builds
  /\ cookie \in Subjects \cup {NoSubject}
  /\ request \in [Tabs -> RequestType]
  /\ page \in [Tabs -> PageType]
  /\ clicks \in 0..MaxClicks /\ reloads \in 0..MaxReloads /\ restarts \in 0..MaxRestarts

(* The invariant is kept if types, pages and requests are.                   *)
LEMMA Parts ==
  ASSUME Typed', \A t \in Tabs : PageOK(page[t])' /\ RequestOK(request[t])'
  PROVE  IInv'
  <1>1. \A t \in Tabs : Rendered(page[t])'
    BY DEF PageOK
  <1>2. TypeOK'
    BY <1>1 DEF TypeOK, Typed, Rendered
  <1> QED BY <1>2 DEF IInv

(* A blank tab and one that waits for nothing are in order.                  *)
LEMMA NothingOK ==
  /\ NoGoal \in GoalType /\ NoPage \in PageType /\ PageOK(NoPage) /\ NoPage.kind = "blank"
  /\ NoRequest \in RequestType /\ RequestOK(NoRequest) /\ NoRequest.stage = "none"
  <1>1. NoGoal \in GoalType /\ NoGoal.path = "none"
    BY DEF NoGoal, GoalType, Paths
  <1>2. /\ NoPage \in PageType /\ NoPage.kind = "blank" /\ NoPage.session = "none"
        /\ NoPage.goal = NoGoal
    BY <1>1 DEF NoPage, PageType
  <1>3. NoRequest \in RequestType /\ NoRequest.stage = "none"
    BY <1>1, <1>2 DEF NoRequest, RequestType, Paths
  <1>4. PageOK(NoPage)
    BY <1>1, <1>2 DEF PageOK, Rendered, Agrees
  <1> QED BY <1>1, <1>2, <1>3, <1>4 DEF RequestOK

(* No build knows the absence of an identity.                                *)
LEMMA SessionOfCookie ==
  ASSUME Typed, NEW c \in Subjects \cup {NoSubject}
  PROVE  /\ identities \subseteq Subjects /\ NoSubject \notin identities
         /\ SessionIdentity(c) = Names(c, identities)
         /\ SessionIdentity(c) \in Subjects \cup {NoSubject}
  BY LaunchpadAssumption DEF Typed, SessionIdentity, IdentityBySubject, Names

(* The seeded registry is a registry, and so is what a reload makes of one.  *)
LEMMA RegistryType ==
  /\ SeedClients \in Registries
  /\ \A file \in Files : \A reg \in Registries : ReplaceFileClients(reg, file) \in Registries
  <1>1. Files \subseteq Registries
    BY LaunchpadAssumption
  <1> QED BY <1>1 DEF SeedClients, Registries, ReplaceFileClients, Kinds, RegisteredKinds

(* Bounds are numbers.                                                       *)
LEMMA Bounds == MaxClicks \in Nat /\ MaxReloads \in Nat /\ MaxRestarts \in Nat
  BY LaunchpadAssumption

(* A freshly started IdP, and a browser that may have a cookie from before.  *)
LEMMA InvInit == Init => IInv
  <1> SUFFICES ASSUME Init PROVE IInv
    OBVIOUS
  <1>1. \A t \in Tabs : page[t] = NoPage /\ request[t] = NoRequest
    BY DEF Init
  <1>2. TypeOK
    BY <1>1, NothingOK, RegistryType, Bounds DEF Init, TypeOK, NoPage
  <1>3. \A t \in Tabs : PageOK(page[t]) /\ RequestOK(request[t])
    BY <1>1, NothingOK
  <1> QED BY <1>2, <1>3 DEF IInv

(* While the jar rests, pages and requests stay in order.                    *)
LEMMA PageStays ==
  ASSUME UNCHANGED cookie, NEW x, PageOK(x)
  PROVE  PageOK(x)'
  BY DEF PageOK, Rendered, Agrees, Names

(* So a request that rests stays in order.                                   *)
LEMMA RequestStays ==
  ASSUME UNCHANGED cookie, NEW x, RequestOK(x)
  PROVE  RequestOK(x)'
  <1>1. x.stage = "sent" => SentOK(x)'
    BY DEF RequestOK, SentOK, SetBy
  <1>2. x.stage = "answered" => AnsweredOK(x)'
    BY DEF RequestOK, AnsweredOK, Rendered, Agrees, Names, SetBy
  <1>3. x.stage = "redirected" => RedirectedOK(x)'
    BY DEF RequestOK, RedirectedOK, SetBy
  <1> QED BY <1>1, <1>2, <1>3 DEF RequestOK

(* Pages that rest.                                                          *)
LEMMA PagesStay ==
  ASSUME IInv, UNCHANGED <<cookie, page>>
  PROVE  \A t \in Tabs : PageOK(page[t])'
  <1> SUFFICES ASSUME NEW t \in Tabs PROVE PageOK(page[t])'
    OBVIOUS
  <1>1. PICK x : x = page[t]
    OBVIOUS
  <1>2. PageOK(x)'
    BY <1>1, PageStays DEF IInv
  <1> QED BY <1>1, <1>2

(* Requests, when one tab's changes.                                         *)
LEMMA OneRequest ==
  ASSUME IInv, NEW t \in Tabs, NEW y \in RequestType, RequestOK(y),
         request' = [request EXCEPT ![t] = y], UNCHANGED cookie
  PROVE  /\ request' \in [Tabs -> RequestType]
         /\ \A u \in Tabs : RequestOK(request[u])'
  <1>1. request \in [Tabs -> RequestType]
    BY DEF IInv, TypeOK
  <1>2. request'[t] = y /\ \A u \in Tabs \ {t} : request'[u] = request[u]
    BY <1>1
  <1>3. RequestOK(y)'
    BY RequestStays
  <1>4. ASSUME NEW u \in Tabs \ {t} PROVE RequestOK(request[u])'
    <2>1. PICK x : x = request[u]
      OBVIOUS
    <2>2. RequestOK(x)'
      BY <2>1, RequestStays DEF IInv
    <2> QED BY <1>2, <2>1, <2>2
  <1> QED BY <1>1, <1>2, <1>3, <1>4
(* Requests that rest.                                                       *)
LEMMA RequestsStay ==
  ASSUME IInv, UNCHANGED <<cookie, request>>
  PROVE  \A t \in Tabs : RequestOK(request[t])'
  <1> SUFFICES ASSUME NEW t \in Tabs PROVE RequestOK(request[t])'
    OBVIOUS
  <1>1. PICK x : x = request[t]
    OBVIOUS
  <1>2. RequestOK(x)'
    BY <1>1, RequestStays DEF IInv
  <1> QED BY <1>1, <1>2
-----------------------------------------------------------------------------
(* The server's steps.                                                       *)

(* A reload changes what the next page will list, and nothing that is there. *)
LEMMA ReloadInv ==
  ASSUME IInv, NEW file \in Files, Reload(file)
  PROVE  IInv'
  <1>t. Typed
    BY DEF IInv, TypeOK, Typed
  <1>1. /\ clients' = ReplaceFileClients(clients, file)
        /\ reloads' = reloads + 1 /\ reloads < MaxReloads
        /\ UNCHANGED <<identities, cookie, request, page, clicks, restarts>>
    BY DEF Reload
  <1>2. clients' \in Registries /\ reloads' \in 0..MaxReloads
    BY <1>t, <1>1, RegistryType, Bounds DEF Typed
  <1>3. Typed'
    BY <1>t, <1>1, <1>2 DEF Typed
  <1> QED BY <1>1, <1>3, PagesStay, RequestsStay, Parts

(* A restart: what was on its way fails.                                     *)
LEMMA RestartInv ==
  ASSUME IInv, NEW build \in Builds, Restart(build)
  PROVE  IInv'
  <1>t. Typed
    BY DEF IInv, TypeOK, Typed
  <1>1. /\ clients' = SeedClients /\ identities' = build
        /\ restarts' = restarts + 1 /\ restarts < MaxRestarts
        /\ request' = [t \in Tabs |-> IF request[t].stage = "sent" THEN NoRequest ELSE request[t]]
        /\ UNCHANGED <<cookie, page, clicks, reloads>>
    BY DEF Restart
  <1>2. restarts' \in 0..MaxRestarts
    BY <1>t, <1>1, Bounds DEF Typed
  <1>3. ASSUME NEW t \in Tabs
        PROVE  request'[t] \in RequestType /\ RequestOK(request[t])'
    <2>1. PICK x : x = request'[t]
      OBVIOUS
    <2>2. x \in RequestType /\ RequestOK(x) /\ x.stage # "sent"
      BY <1>t, <1>1, <2>1, NothingOK DEF IInv, Typed
    <2>3. RequestOK(x)'
      BY <1>1, <2>2, RequestStays
    <2> QED BY <2>1, <2>2, <2>3
  <1>4. Typed'
    <2>1. request' \in [Tabs -> RequestType]
      BY <1>1, <1>3
    <2> QED BY <1>t, <1>1, <1>2, <2>1, RegistryType DEF Typed
  <1> QED BY <1>1, <1>3, <1>4, PagesStay, Parts

(* What a rendered answer is made of.                                        *)
LEMMA AnswerRecord ==
  ASSUME Typed, NEW t \in Tabs, NEW x, x = request[t], RequestOK(x), x.stage = "sent",
         NEW kind \in {"picker", "launchpad", "json", "error"},
         NEW identity \in Subjects \cup {NoSubject}
  PROVE  LET y == Answer(t, kind, identity)
             p == y.page
         IN /\ y \in RequestType /\ y.stage = "answered" /\ y.answer = "page"
            /\ y.setCookie = Keep /\ y.stale = x.stale
            /\ p.kind = kind /\ p.identity = identity /\ p.goal = x.goal
            /\ p.known = identities /\ p.crossed = x.crossed
            /\ p.session = "none"
  <1>1. x \in RequestType /\ x.setCookie = Keep
    BY DEF Typed, RequestOK, SentOK
  <1> DEFINE tiles == IF kind = "picker" THEN {} ELSE ClientTiles
             new == [NoPage EXCEPT !.kind = kind, !.identity = identity, !.tiles = tiles,
                                   !.goal = x.goal, !.known = identities,
                                   !.crossed = x.crossed]
             y == [x EXCEPT !.stage = "answered", !.answer = "page", !.page = new]
  <1>2. tiles \in SUBSET ClientIDs
    BY DEF ClientTiles, Registered
  <1>3. Answer(t, kind, identity) = y
    BY DEF Answer
  <1> HIDE DEF tiles
  <1>4. identities \in SUBSET Subjects
    BY LaunchpadAssumption DEF Typed
  <1>5. /\ new \in PageType /\ new.kind = kind /\ new.identity = identity
        /\ new.goal = x.goal /\ new.known = identities
        /\ new.crossed = x.crossed /\ new.session = "none"
    <2>1. NoPage \in PageType /\ NoPage.session = "none"
      BY NothingOK DEF NoPage
    <2>2. x.goal \in GoalType /\ x.crossed \in BOOLEAN
      BY <1>1 DEF RequestType
    <2> QED BY <1>2, <1>4, <2>1, <2>2 DEF PageType
  <1> HIDE DEF new
  <1>6. /\ y \in RequestType /\ y.stage = "answered" /\ y.answer = "page" /\ y.page = new
        /\ y.setCookie = x.setCookie /\ y.stale = x.stale
    BY <1>1, <1>5 DEF RequestType
  <1> HIDE DEF y
  <1> QED BY <1>1, <1>2, <1>3, <1>5, <1>6

(* The home page and the data are of the session the request's cookie stands *)
(* for; after a redirect that is the cookie the redirect has set.            *)
LEMMA SessionAnswer ==
  ASSUME Typed, NEW t \in Tabs, NEW x, x = request[t], RequestOK(x), x.stage = "sent",
         NEW y, \/ y = Home(t) /\ x.path = "/"
                \/ y = Data(t) /\ x.path = "/launchpad.json"
  PROVE  y \in RequestType /\ RequestOK(y)
  <1> DEFINE identity == SessionIdentity(x.cookie)
  <1>1. x \in RequestType /\ SentOK(x)
    BY DEF Typed, RequestOK
  <1>2. /\ identity = Names(x.cookie, identities) /\ identity \in Subjects \cup {NoSubject}
        /\ NoSubject \notin identities
    BY <1>1, SessionOfCookie DEF RequestType
  <1>3. PICK kind \in {"picker", "launchpad", "json"} :
          /\ y = Answer(t, kind, identity)
          /\ x.path = "/" => kind = HomeKind(identity)
          /\ x.path # "/" => kind = "json"
    BY DEF Home, Data, HomeKind
  <1> HIDE DEF identity
  <1>4. /\ y \in RequestType /\ y.stage = "answered" /\ y.answer = "page"
        /\ y.setCookie = Keep /\ y.stale = x.stale
        /\ y.page.kind = kind /\ y.page.identity = identity /\ y.page.goal = x.goal
        /\ y.page.known = identities /\ y.page.crossed = x.crossed
        /\ y.page.session = "none"
    BY <1>2, <1>3, AnswerRecord
  <1>5. ~x.stale => Agrees(y.page)
    BY <1>1, <1>2, <1>4 DEF SentOK, Agrees
  <1>6. ASSUME ~x.crossed
        PROVE  /\ x.goal.path \in {"/logout", "/switch"} => kind = "picker"
               /\ x.goal.path = "/pick" /\ x.goal.subject \in identities =>
                    kind = "launchpad" /\ identity = x.goal.subject
    <2>1. x.goal.path \in Redirects => x.path = "/" /\ x.cookie = SetBy(x.goal)
      BY <1>1, <1>6 DEF SentOK, Redirects
    <2> QED BY <1>2, <1>3, <2>1 DEF Redirects, SetBy, Names, HomeKind
  <1>7. Rendered(y.page)
    BY <1>3, <1>4, <1>6 DEF Rendered, HomeKind
  <1> QED BY <1>4, <1>5, <1>7 DEF RequestOK, AnsweredOK

(* A redirect sets what its path sets.                                       *)
LEMMA RedirectAnswer ==
  ASSUME Typed, NEW t \in Tabs, NEW x, x = request[t], x.goal.path \in Redirects,
         NEW y, y = Redirect(t, SetBy(x.goal))
  PROVE  y \in RequestType /\ RequestOK(y)
  <1>1. x \in RequestType
    BY DEF Typed
  <1>2. SetBy(x.goal) \in Subjects \cup {NoSubject}
    BY <1>1 DEF SetBy, RequestType, GoalType
  <1>3. /\ y \in RequestType /\ y.stage = "answered" /\ y.answer = "redirect"
        /\ y.setCookie = SetBy(x.goal) /\ y.goal = x.goal
    BY <1>1, <1>2 DEF Redirect, RequestType
  <1> QED BY <1>3 DEF RequestOK, AnsweredOK

(* Whoever is picked is signed in, if the build knows them.                  *)
LEMMA PickAnswer ==
  ASSUME Typed, NEW t \in Tabs, NEW x, x = request[t], RequestOK(x), x.stage = "sent",
         x.path = "/pick", NEW y, y = Pick(t)
  PROVE  y \in RequestType /\ RequestOK(y)
  <1>1. x.goal.path = "/pick"
    BY DEF RequestOK, SentOK
  <1>2. NoSubject \notin identities
    BY NothingOK, SessionOfCookie
  <1>3. CASE x.goal.subject \in identities
    <2>1. y = Redirect(t, SetBy(x.goal))
      BY <1>1, <1>2, <1>3 DEF Pick, IdentityBySubject, SetBy
    <2> QED BY <1>1, <2>1, RedirectAnswer DEF Redirects
  <1>4. CASE x.goal.subject \notin identities
    <2>1. y = Answer(t, "error", NoSubject)
      BY <1>4 DEF Pick, IdentityBySubject
    <2>2. /\ y \in RequestType /\ y.stage = "answered" /\ y.answer = "page"
          /\ y.setCookie = Keep
          /\ y.page.kind = "error" /\ y.page.goal = x.goal
          /\ y.page.known = identities /\ y.page.session = "none"
      BY <2>1, AnswerRecord
    <2> QED BY <1>1, <1>4, <2>2 DEF RequestOK, AnsweredOK, Rendered, Agrees
  <1> QED BY <1>3, <1>4

(* A request is served.                                                      *)
LEMMA ServeInv ==
  ASSUME IInv, NEW t \in Tabs, Serve(t)
  PROVE  IInv'
  <1>t. Typed
    BY DEF IInv, TypeOK, Typed
  <1>1. PICK x : x = request[t]
    OBVIOUS
  <1>2. /\ x.stage = "sent" /\ x \in RequestType /\ RequestOK(x) /\ SentOK(x)
        /\ UNCHANGED <<clients, identities, cookie, page, clicks, reloads, restarts>>
    BY <1>t, <1>1 DEF IInv, Typed, Serve, RequestOK
  <1> DEFINE new == CASE x.path = "/" -> Home(t)
                      [] x.path = "/launchpad.json" -> Data(t)
                      [] x.path = "/pick" -> Pick(t)
                      [] x.path \in {"/logout", "/switch"} -> Logout(t)
  <1>3. request' = [request EXCEPT ![t] = new]
    BY <1>1 DEF Serve
  <1>4. PICK y : y = new
    OBVIOUS
  <1>5. \/ x.path = "/" /\ y = Home(t)
        \/ x.path = "/launchpad.json" /\ y = Data(t)
        \/ x.path = "/pick" /\ y = Pick(t)
        \/ x.path \in {"/logout", "/switch"} /\ y = Logout(t)
    BY <1>2, <1>4 DEF SentOK, RequestType, Paths
  <1> HIDE DEF new
  <1>6. x.path \in {"/logout", "/switch"} /\ y = Logout(t) =>
          x.goal.path \in Redirects /\ y = Redirect(t, SetBy(x.goal))
    BY <1>2 DEF SentOK, Logout, SetBy, Redirects
  <1>7. y \in RequestType /\ RequestOK(y)
    BY <1>t, <1>1, <1>2, <1>5, <1>6, SessionAnswer, PickAnswer, RedirectAnswer
  <1>8. /\ request' \in [Tabs -> RequestType]
        /\ \A u \in Tabs : RequestOK(request[u])'
    BY <1>2, <1>3, <1>4, <1>7, OneRequest
  <1>9. Typed'
    BY <1>t, <1>2, <1>8 DEF Typed
  <1> QED BY <1>2, <1>8, <1>9, PagesStay, Parts
-----------------------------------------------------------------------------
(* The browser's steps.                                                      *)

(* A request that is sent takes the cookie of the jar; behind a redirect     *)
(* that nothing crossed, that is the redirect's.                             *)
LEMMA SentRecord ==
  ASSUME Typed, NEW goal \in GoalType, NEW path \in Paths \ {"none"},
         NEW crossed \in BOOLEAN,
         \/ path = goal.path
         \/ /\ path = "/" /\ goal.path \in Redirects
            /\ ~crossed => cookie = SetBy(goal),
         NEW y, y = SendRequest(goal, path, crossed)
  PROVE  y \in RequestType /\ RequestOK(y)
  <1>1. NoRequest \in RequestType /\ NoRequest.setCookie = Keep /\ NoRequest.stale = FALSE
    BY NothingOK DEF NoRequest
  <1>2. cookie \in Subjects \cup {NoSubject}
    BY DEF Typed
  <1>3. /\ y \in RequestType /\ y.stage = "sent" /\ y.path = path /\ y.goal = goal
        /\ y.cookie = cookie /\ y.crossed = crossed /\ y.setCookie = Keep /\ y.stale = FALSE
    BY <1>1, <1>2 DEF SendRequest, RequestType
  <1> QED BY <1>3 DEF RequestOK, SentOK

(* What a person asks for is what the request is for.                        *)
LEMMA AskInv ==
  ASSUME IInv, NEW t \in Tabs, NEW path \in Paths \ {"none"},
         NEW s \in Subjects \cup {NoSubject},
         Ask(t, path, s), UNCHANGED cookie
  PROVE  /\ clicks' \in 0..MaxClicks
         /\ request' \in [Tabs -> RequestType]
         /\ \A u \in Tabs : RequestOK(request[u])'
  <1>t. Typed
    BY DEF IInv, TypeOK, Typed
  <1>1. PICK goal : goal = Goal(path, s)
    OBVIOUS
  <1>2. goal \in GoalType /\ goal.path = path
    BY <1>1 DEF Goal, GoalType
  <1>3. PICK y : y = SendRequest(goal, path, FALSE)
    OBVIOUS
  <1>4. y \in RequestType /\ RequestOK(y)
    BY <1>t, <1>2, <1>3, SentRecord
  <1>5. /\ clicks < MaxClicks /\ clicks' = clicks + 1
        /\ request' = [request EXCEPT ![t] = y]
    BY <1>1, <1>3 DEF Ask
  <1>6. clicks' \in 0..MaxClicks
    BY <1>t, <1>5, Bounds DEF Typed
  <1> QED BY <1>4, <1>5, <1>6, OneRequest

(* An address, a plain link or Switch user: the page stays what it is.       *)
LEMMA OpenInv ==
  ASSUME IInv, NEW t \in Tabs, NEW path \in Paths \ {"none"},
         NEW s \in Subjects \cup {NoSubject},
         Ask(t, path, s),
         UNCHANGED <<clients, identities, cookie, page, reloads, restarts>>
  PROVE  IInv'
  <1>1. /\ clicks' \in 0..MaxClicks
        /\ request' \in [Tabs -> RequestType]
        /\ \A u \in Tabs : RequestOK(request[u])'
    BY AskInv
  <1>2. Typed'
    BY <1>1 DEF IInv, TypeOK, Typed
  <1> QED BY <1>1, <1>2, PagesStay, Parts

(* Pages, when one tab's changes.                                            *)
LEMMA OnePage ==
  ASSUME IInv, NEW t \in Tabs, NEW y \in PageType, PageOK(y),
         page' = [page EXCEPT ![t] = y], UNCHANGED cookie
  PROVE  /\ page' \in [Tabs -> PageType]
         /\ \A u \in Tabs : PageOK(page[u])'
  <1>1. page \in [Tabs -> PageType]
    BY DEF IInv, TypeOK
  <1>2. page'[t] = y /\ \A u \in Tabs \ {t} : page'[u] = page[u]
    BY <1>1
  <1>3. PageOK(y)'
    BY PageStays
  <1>4. ASSUME NEW u \in Tabs \ {t} PROVE PageOK(page[u])'
    <2>1. PICK x : x = page[u]
      OBVIOUS
    <2>2. PageOK(x)'
      BY <2>1, PageStays DEF IInv
    <2> QED BY <1>2, <2>1, <2>2
  <1> QED BY <1>1, <1>2, <1>3, <1>4

(* Log out on an enhanced launchpad: it announces the end of the session.    *)
LEMMA ClickLogoutInv ==
  ASSUME IInv, NEW t \in Tabs, ClickLogout(t)
  PROVE  IInv'
  <1>t. Typed
    BY DEF IInv, TypeOK, Typed
  <1>1. /\ page[t].kind = "launchpad" /\ page[t].enhanced
        /\ Ask(t, "/logout", NoSubject)
        /\ page' = [page EXCEPT ![t].session = "signed_out"]
        /\ UNCHANGED <<clients, identities, cookie, reloads, restarts>>
    BY DEF ClickLogout
  <1>2. /\ clicks' \in 0..MaxClicks
        /\ request' \in [Tabs -> RequestType]
        /\ \A u \in Tabs : RequestOK(request[u])'
    BY <1>1, AskInv DEF Paths
  <1>3. PICK x : x = page[t]
    OBVIOUS
  <1>4. x \in PageType /\ PageOK(x) /\ x.kind = "launchpad" /\ x.enhanced
    BY <1>t, <1>1, <1>3 DEF IInv, Typed
  <1> DEFINE new == [x EXCEPT !.session = "signed_out"]
  <1>5. page' = [page EXCEPT ![t] = new]
    BY <1>1, <1>3
  <1>6. /\ new \in PageType /\ new.kind = x.kind /\ new.identity = x.identity
        /\ new.goal = x.goal /\ new.known = x.known
        /\ new.stale = x.stale /\ new.crossed = x.crossed
        /\ new.enhanced = x.enhanced
    BY <1>4 DEF PageType
  <1> HIDE DEF new
  <1>7. PageOK(new)
    BY <1>4, <1>6 DEF PageOK, Rendered, Agrees
  <1>8. PICK y : y = new
    OBVIOUS
  <1>9. /\ page' \in [Tabs -> PageType]
        /\ \A u \in Tabs : PageOK(page[u])'
    BY <1>1, <1>5, <1>6, <1>7, <1>8, OnePage
  <1>10. Typed'
    BY <1>t, <1>1, <1>2, <1>9 DEF Typed
  <1> QED BY <1>2, <1>9, <1>10, Parts

(* The script announces a session on a launchpad, which is somebody's, and   *)
(* none on a picker, which is nobody's.                                      *)
LEMMA EnhanceInv ==
  ASSUME IInv, NEW t \in Tabs, Enhance(t)
  PROVE  IInv'
  <1>t. Typed
    BY DEF IInv, TypeOK, Typed
  <1>1. PICK x : x = page[t]
    OBVIOUS
  <1>2. PICK session : session = IF x.identity # NoSubject THEN "token_acquired" ELSE "none"
    OBVIOUS
  <1>3. /\ x \in PageType /\ PageOK(x) /\ x.kind \in {"picker", "launchpad"}
        /\ page' = [page EXCEPT ![t].enhanced = TRUE, ![t].session = session]
        /\ UNCHANGED <<clients, identities, cookie, request, clicks, reloads, restarts>>
    BY <1>t, <1>1, <1>2 DEF IInv, Typed, Enhance
  <1> DEFINE new == [x EXCEPT !.enhanced = TRUE, !.session = session]
  <1>4. page' = [page EXCEPT ![t] = new]
    BY <1>t, <1>1, <1>3 DEF Typed
  <1>5. /\ new \in PageType /\ new.kind = x.kind /\ new.identity = x.identity
        /\ new.goal = x.goal /\ new.known = x.known
        /\ new.stale = x.stale /\ new.crossed = x.crossed
        /\ new.enhanced = TRUE /\ new.session = session
    BY <1>2, <1>3 DEF PageType
  <1> HIDE DEF new
  <1>6. session # "none" => x.kind = "launchpad"
    BY <1>2, <1>3 DEF PageOK, Rendered
  <1>7. PageOK(new)
    BY <1>3, <1>5, <1>6 DEF PageOK, Rendered, Agrees
  <1>8. PICK y : y = new
    OBVIOUS
  <1>9. /\ page' \in [Tabs -> PageType]
        /\ \A u \in Tabs : PageOK(page[u])'
    BY <1>3, <1>4, <1>5, <1>7, <1>8, OnePage
  <1>10. Typed'
    BY <1>t, <1>3, <1>9 DEF Typed
  <1>11. \A u \in Tabs : RequestOK(request[u])'
    BY <1>3, RequestsStay
  <1> QED BY <1>9, <1>10, <1>11, Parts

(* A request that is marked stale when the jar changes promises no more      *)
(* about it.                                                                 *)
LEMMA RequestMarked ==
  ASSUME NEW x \in RequestType, RequestOK(x), NEW changed \in BOOLEAN,
         ~changed => UNCHANGED cookie,
         NEW y, y = [x EXCEPT !.stale = x.stale \/ (changed /\ x.stage # "none")]
  PROVE  y \in RequestType /\ RequestOK(y)'
  <1>1. /\ y \in RequestType /\ y.stage = x.stage /\ y.goal = x.goal /\ y.path = x.path
        /\ y.cookie = x.cookie /\ y.answer = x.answer /\ y.setCookie = x.setCookie
        /\ y.page = x.page /\ y.crossed = x.crossed
    BY DEF RequestType
  <1>2. ~y.stale /\ y.stage # "none" => ~x.stale /\ UNCHANGED cookie
    BY <1>1 DEF RequestType
  <1>3. y.stage = "sent" => SentOK(y)'
    BY <1>1, <1>2 DEF RequestOK, SentOK, SetBy
  <1>4. y.stage = "answered" => AnsweredOK(y)'
    BY <1>1, <1>2 DEF RequestOK, AnsweredOK, Rendered, Agrees, Names, SetBy
  <1>5. y.stage = "redirected" => RedirectedOK(y)'
    BY <1>1, <1>2 DEF RequestOK, RedirectedOK, SetBy
  <1> QED BY <1>1, <1>3, <1>4, <1>5 DEF RequestOK

(* So is what a tab shows.                                                   *)
LEMMA PageMarked ==
  ASSUME NEW x \in PageType, PageOK(x), NEW changed \in BOOLEAN,
         ~changed => UNCHANGED cookie,
         NEW y, \/ y = x /\ x.kind = "blank"
                \/ y = [x EXCEPT !.stale = x.stale \/ changed]
  PROVE  y \in PageType /\ PageOK(y)'
  <1>1. /\ y \in PageType /\ y.kind = x.kind /\ y.identity = x.identity
        /\ y.goal = x.goal /\ y.known = x.known
        /\ y.crossed = x.crossed /\ y.enhanced = x.enhanced
        /\ y.session = x.session
    BY DEF PageType
  <1>2. ~y.stale => x.kind = "blank" \/ (~x.stale /\ UNCHANGED cookie)
    BY DEF PageType
  <1>3. Rendered(y)'
    BY <1>1 DEF PageOK, Rendered
  <1>4. ~y.stale => Agrees(y)'
    BY <1>1, <1>2 DEF PageOK, Agrees, Names
  <1> QED BY <1>1, <1>3, <1>4 DEF PageOK

(* The page of an answer is shown as it was rendered; it is stale if another *)
(* tab has changed the cookie since it was asked for.                        *)
LEMMA PageShown ==
  ASSUME UNCHANGED cookie, NEW a \in RequestType, AnsweredOK(a), a.answer = "page",
         NEW y, y = [a.page EXCEPT !.stale = a.stale]
  PROVE  y \in PageType /\ PageOK(y)'
  <1>1. a.page \in PageType /\ a.stale \in BOOLEAN
    BY DEF RequestType
  <1>2. PICK x : x = a.page
    OBVIOUS
  <1>3. /\ y \in PageType /\ y.kind = x.kind /\ y.identity = x.identity
        /\ y.goal = x.goal /\ y.known = x.known
        /\ y.crossed = x.crossed /\ y.enhanced = x.enhanced
        /\ y.session = x.session /\ y.stale = a.stale
    BY <1>1, <1>2 DEF PageType
  <1>4. Rendered(x) /\ (~a.stale => Agrees(x))
    BY <1>2 DEF AnsweredOK
  <1> QED BY <1>3, <1>4 DEF PageOK, Rendered, Agrees, Names

(* What the jar becomes when an answer arrives: a page leaves it alone, a    *)
(* redirect sets what its path sets.                                         *)
LEMMA JarAfter ==
  ASSUME NEW a \in RequestType, AnsweredOK(a),
         NEW jar, jar = IF a.setCookie = Keep THEN cookie ELSE a.setCookie
  PROVE  /\ a.answer = "page" => jar = cookie
         /\ a.answer = "redirect" =>
              /\ a.goal.path \in Redirects
              /\ jar = SetBy(a.goal) /\ jar \in Subjects \cup {NoSubject}
         /\ a.answer \in {"page", "redirect"}
  <1>1. SetBy(a.goal) \in Subjects \cup {NoSubject} /\ Keep \notin Subjects \cup {NoSubject}
    BY LaunchpadAssumption DEF SetBy, RequestType, GoalType
  <1> QED BY <1>1 DEF AnsweredOK

(* An answer arrives: the tab shows the page or is redirected, and what the  *)
(* other tabs show or wait for is stale if the jar has changed.              *)
LEMMA ReceiveInv ==
  ASSUME IInv, NEW t \in Tabs, Receive(t)
  PROVE  IInv'
  <1>t. Typed
    BY DEF IInv, TypeOK, Typed
  <1>1. PICK a : a = request[t]
    OBVIOUS
  <1>2. a.stage = "answered" /\ UNCHANGED <<clients, identities, clicks, reloads, restarts>>
    BY <1>1 DEF Receive
  <1>3. a \in RequestType /\ AnsweredOK(a)
    BY <1>t, <1>1, <1>2 DEF IInv, Typed, RequestOK
  <1>4. PICK jar : jar = IF a.setCookie = Keep THEN cookie ELSE a.setCookie
    OBVIOUS
  <1>5. PICK changed \in BOOLEAN : changed = (jar # cookie)
    OBVIOUS
  <1>6. cookie' = jar /\ (~changed => UNCHANGED cookie)
    BY <1>1, <1>4, <1>5 DEF Receive
  <1>7. /\ a.answer = "page" => ~changed
        /\ a.answer = "redirect" =>
             a.goal.path \in Redirects /\ jar = SetBy(a.goal)
        /\ a.answer \in {"page", "redirect"} /\ jar \in Subjects \cup {NoSubject}
    BY <1>t, <1>3, <1>4, <1>5, JarAfter DEF Typed
  <1>8. request' = [u \in Tabs |->
          IF u # t
          THEN [request[u] EXCEPT !.stale = request[u].stale \/ (changed /\ request[u].stage # "none")]
          ELSE IF a.answer = "redirect"
          THEN [NoRequest EXCEPT !.stage = "redirected", !.goal = a.goal]
          ELSE NoRequest]
    BY <1>1, <1>4, <1>5 DEF Receive
  <1>9. page' = [u \in Tabs |->
          IF u = t /\ a.answer = "page" THEN [a.page EXCEPT !.stale = a.stale]
          ELSE IF page[u].kind = "blank" THEN page[u]
          ELSE [page[u] EXCEPT !.stale = page[u].stale \/ changed]]
    BY <1>1, <1>4, <1>5 DEF Receive
  <1>10. ASSUME NEW u \in Tabs
         PROVE  request'[u] \in RequestType /\ RequestOK(request[u])'
    <2>1. PICK y : y = request'[u]
      OBVIOUS
    <2>2. CASE u # t
      <3>1. PICK x : x = request[u]
        OBVIOUS
      <3>2. x \in RequestType /\ RequestOK(x)
        BY <1>t, <3>1 DEF IInv, Typed
      <3>3. y = [x EXCEPT !.stale = x.stale \/ (changed /\ x.stage # "none")]
        BY <1>8, <2>1, <2>2, <3>1
      <3>4. y \in RequestType /\ RequestOK(y)'
        BY <1>2, <1>5, <1>6, <3>2, <3>3, RequestMarked
      <3> QED BY <2>1, <3>4
    <2>3. CASE u = t /\ a.answer = "redirect"
      <3>1. y = [NoRequest EXCEPT !.stage = "redirected", !.goal = a.goal]
        BY <1>8, <2>1, <2>3
      <3>2. a.goal \in GoalType /\ NoRequest \in RequestType
        BY <1>3, NothingOK DEF RequestType
      <3>3. y \in RequestType /\ y.stage = "redirected" /\ y.goal = a.goal
        BY <3>1, <3>2 DEF RequestType
      <3>4. RequestOK(y)'
        BY <1>6, <1>7, <2>3, <3>3 DEF RequestOK, RedirectedOK, SetBy
      <3> QED BY <2>1, <3>3, <3>4
    <2>4. CASE u = t /\ a.answer = "page"
      <3>1. y = NoRequest /\ UNCHANGED cookie
        BY <1>6, <1>7, <1>8, <2>1, <2>4
      <3>2. y \in RequestType /\ RequestOK(y) /\ y.stage = "none"
        BY <3>1, NothingOK
      <3>3. RequestOK(y)'
        BY <3>1, <3>2, RequestStays
      <3> QED BY <2>1, <3>2, <3>3
    <2> QED BY <1>7, <2>2, <2>3, <2>4
  <1>11. ASSUME NEW u \in Tabs
         PROVE  page'[u] \in PageType /\ PageOK(page[u])'
    <2>1. PICK y : y = page'[u]
      OBVIOUS
    <2>2. CASE u = t /\ a.answer = "page"
      <3>1. y = [a.page EXCEPT !.stale = a.stale] /\ UNCHANGED cookie
        BY <1>6, <1>7, <1>9, <2>1, <2>2
      <3>2. y \in PageType /\ PageOK(y)'
        BY <1>3, <2>2, <3>1, PageShown
      <3> QED BY <2>1, <3>2
    <2>3. CASE ~(u = t /\ a.answer = "page")
      <3>1. PICK x : x = page[u]
        OBVIOUS
      <3>2. x \in PageType /\ PageOK(x)
        BY <1>t, <3>1 DEF IInv, Typed
      <3>3. \/ y = x /\ x.kind = "blank"
            \/ y = [x EXCEPT !.stale = x.stale \/ changed]
        BY <1>9, <2>1, <2>3, <3>1
      <3>4. y \in PageType /\ PageOK(y)'
        BY <1>5, <1>6, <3>2, <3>3, PageMarked
      <3> QED BY <2>1, <3>4
    <2> QED BY <2>2, <2>3
  <1>12. request' \in [Tabs -> RequestType]
    BY <1>8, <1>10
  <1>13. page' \in [Tabs -> PageType]
    BY <1>9, <1>11
  <1>14. Typed'
    BY <1>t, <1>2, <1>6, <1>7, <1>12, <1>13 DEF Typed
  <1> QED BY <1>10, <1>11, <1>14, Parts

(* A redirect is followed to the home page.                                  *)
LEMMA FollowInv ==
  ASSUME IInv, NEW t \in Tabs, Follow(t)
  PROVE  IInv'
  <1>t. Typed
    BY DEF IInv, TypeOK, Typed
  <1>1. PICK x : x = request[t]
    OBVIOUS
  <1>2. /\ x.stage = "redirected"
        /\ UNCHANGED <<clients, identities, cookie, page, clicks, reloads, restarts>>
    BY <1>1 DEF Follow
  <1>3. x \in RequestType /\ RedirectedOK(x)
    BY <1>t, <1>1, <1>2 DEF IInv, Typed, RequestOK
  <1>4. PICK y : y = SendRequest(x.goal, "/", x.stale)
    OBVIOUS
  <1>5. request' = [request EXCEPT ![t] = y]
    BY <1>1, <1>4 DEF Follow
  <1>6. x.goal \in GoalType /\ x.stale \in BOOLEAN
    BY <1>3 DEF RequestType
  <1>7. y \in RequestType /\ RequestOK(y)
    BY <1>t, <1>3, <1>4, <1>6, SentRecord DEF RedirectedOK, Paths
  <1>8. /\ request' \in [Tabs -> RequestType]
        /\ \A u \in Tabs : RequestOK(request[u])'
    BY <1>2, <1>5, <1>7, OneRequest
  <1>9. Typed'
    BY <1>t, <1>2, <1>8 DEF Typed
  <1> QED BY <1>2, <1>8, <1>9, PagesStay, Parts

(* The connection breaks.                                                    *)
LEMMA LoseInv ==
  ASSUME IInv, NEW t \in Tabs, Lose(t)
  PROVE  IInv'
  <1>1. /\ request' = [request EXCEPT ![t] = NoRequest]
        /\ UNCHANGED <<clients, identities, cookie, page, clicks, reloads, restarts>>
    BY DEF Lose
  <1>2. PICK y : y = NoRequest
    OBVIOUS
  <1>3. y \in RequestType /\ RequestOK(y)
    BY <1>2, NothingOK
  <1>4. /\ request' \in [Tabs -> RequestType]
        /\ \A u \in Tabs : RequestOK(request[u])'
    BY <1>1, <1>2, <1>3, OneRequest
  <1>5. Typed'
    BY <1>1, <1>4 DEF IInv, TypeOK, Typed
  <1> QED BY <1>1, <1>4, <1>5, PagesStay, Parts
-----------------------------------------------------------------------------
(* Every step of the server and of the browser keeps the invariant.          *)
LEMMA InvNext == IInv /\ [Next]_vars => IInv'
  <1> SUFFICES ASSUME IInv, [Next]_vars PROVE IInv'
    OBVIOUS
  <1>1. ASSUME NEW file \in Files, Reload(file) PROVE IInv'
    BY <1>1, ReloadInv
  <1>2. ASSUME NEW build \in Builds, Restart(build) PROVE IInv'
    BY <1>2, RestartInv
  <1>3. ASSUME NEW t \in Tabs, NEW path \in Paths \ {"none"},
               NEW s \in Subjects \cup {NoSubject}, Open(t, path, s)
        PROVE  IInv'
    BY <1>3, OpenInv DEF Open
  <1>4. ASSUME NEW t \in Tabs, ClickLogout(t) PROVE IInv'
    BY <1>4, ClickLogoutInv
  <1>5. ASSUME NEW t \in Tabs, ClickSwitch(t) PROVE IInv'
    <2>1. /\ Ask(t, "/switch", NoSubject)
          /\ UNCHANGED <<clients, identities, cookie, page, reloads, restarts>>
      BY <1>5 DEF ClickSwitch
    <2> QED BY <2>1, OpenInv DEF Paths
  <1>6. ASSUME NEW t \in Tabs, Enhance(t) PROVE IInv'
    BY <1>6, EnhanceInv
  <1>7. ASSUME NEW t \in Tabs, Serve(t) PROVE IInv'
    BY <1>7, ServeInv
  <1>8. ASSUME NEW t \in Tabs, Receive(t) PROVE IInv'
    BY <1>8, ReceiveInv
  <1>9. ASSUME NEW t \in Tabs, Follow(t) PROVE IInv'
    BY <1>9, FollowInv
  <1>10. ASSUME NEW t \in Tabs, Lose(t) PROVE IInv'
    BY <1>10, LoseInv
  <1>11. CASE UNCHANGED vars
    <2>1. UNCHANGED <<clients, identities, cookie, request, page, clicks, reloads, restarts>>
      BY <1>11 DEF vars
    <2>2. Typed'
      BY <2>1 DEF IInv, TypeOK, Typed
    <2> QED BY <2>1, <2>2, PagesStay, RequestsStay, Parts
  <1>12. "/pick" \in Paths \ {"none"}
    BY DEF Paths
  <1> QED BY <1>1, <1>2, <1>3, <1>4, <1>5, <1>6, <1>7, <1>8, <1>9, <1>10, <1>11, <1>12, Zenon
          DEF Next

(* Whatever tabs do over one jar, and however often the IdP is reloaded or   *)
(* restarted with other identities.                                          *)
THEOREM InductiveInvariant == Spec => []IInv
  BY InvInit, InvNext, PTL DEF Spec

(* Every variable holds a value of its type (the handlers of launchpad.go    *)
(* and the page's script).                                                   *)
THEOREM TypeCorrect == Spec => []TypeOK
  <1>1. IInv => TypeOK
    BY DEF IInv
  <1> QED BY <1>1, InductiveInvariant, PTL

(* A click on Log out, Switch user or an identity leads where it says (pick, *)
(* logout, switchUser and home), unless another tab's answer came between    *)
(* the redirect and the request that follows it.                             *)
THEOREM ClicksArrive == Spec => []ArrivesWhereClicked
  <1>1. IInv => ArrivesWhereClicked
    BY DEF IInv, PageOK, Rendered, ArrivesWhereClicked
  <1> QED BY <1>1, InductiveInvariant, PTL

(* A page no other tab has made stale is of the session the cookie stands    *)
(* for (sessionIdentity).                                                    *)
THEOREM PagesAgree == Spec => []PageAgreesWithCookie
  <1>1. IInv => PageAgreesWithCookie
    BY DEF IInv, PageOK, Agrees, Names, PageAgreesWithCookie
  <1> QED BY <1>1, InductiveInvariant, PTL
===============================================================================
