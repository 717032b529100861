# devedge-idp: a TLA+ model

A model of `infobloxopen/devedge-idp`, the development-only OpenID Provider of
the devedge suite: TLA+ modules translated from its source, TLC runs on small
instances, and theorems checked by TLAPS. Paths are those of the repository
under `src/`.

## 1. Inventory

| Part | State | Operations | What is hard | What makes it correct |
|---|---|---|---|---|
| Client registry (`clients.go`, `storage.go`) | `Storage.clients`, `seedIDs` | seed, `ReplaceFileClients`, lookups | replaced under running handlers | seed plus exactly one version of the file |
| Clients file watcher (`clientsfile.go`, `cmd/idp/main.go`) | the file, its mtime, `last` | stat, load, apply at boot and per tick | edits between any two system calls, clock granularity, bad files, restart | a good edit is registered; a bad one changes nothing |
| Authorization-code grant (`storage.go`, `authrequest.go`, `login.go`) | `authRequests`, `codes`, `tokens`, `refreshers`, the shared `*authRequest` objects | `/authorize`, `/login`, callback, exchange | handlers interleave between storage calls; fields are read without the lock; a login can be repeated | a token names who logged in to its own request; nothing is minted once the code is redeemed and answered |
| Tokens (`storage.go`, `authrequest.go`) | `tokens`, `refreshers`, the shared `*refreshToken` objects, the clock | mint, rotate, revoke, end_session | objects re-keyed in place under handlers that hold them; scopes written without the lock | one use per refresh token; dead grants stay dead |
| Device grant (`storage.go`, `login.go`) | `deviceCodes`, `userCodes`, the shared `*op.DeviceAuthorizationState` objects | store, approve, deny, poll | approval against denial, expiry and a poll that holds the state; user codes repeat; nothing is ever removed | tokens name who was shown that device's code; a denial holds; an approved poll is answered |
| Claims, userinfo, introspection (`storage.go`, `identities.go`) | none of its own | `setCoarseUserinfo` and its callers | token, expiry and registry are read at three moments | a dead token tells nothing, a live one only what was granted, and only to its own client |
| Launchpad pages and cookie (`launchpad.go`, `identities.go`) | the browser's cookie jar | pick, switch, logout, home, data | tabs rendered for an earlier session, answers out of order or lost, cookies older than the build | a click leads where it says; a page shows the session its cookie is for |
| Launchpad frontend (`ui/src`) | an event bus per page | announce, logout, switch | runs after the page is shown, or not at all | what is shown is announced; the cookie decides (`ClicksEnd`, `PageAgreesWithCookie`) |
| Wiring (`idp.go`, `cmd/idp/main.go`) | the signing key | boot, routes | restart loses all but the file and the cookies | boot modelled in `ClientsWatcher`, routes in `Launchpad` |
| devauthz (`cmd/devauthz/main.go`) | in the devedge-sdk library | boot | as the watcher's | not modelled: the store and watcher are not in this repository |

How they interact: the zitadel OP, a library, runs one goroutine per HTTP
request and calls `Storage` methods in a fixed order. Each method is one critical
section of `Storage.lock`; between two of them anything else may run. Some calls
hand out pointers (`*authRequest`, `*refreshToken`) whose fields the OP goes on
reading, and in one case writing, without the lock. The watcher goroutine
replaces clients under the same lock. The login page calls
`CompleteAuthRequest` and, for a user code, `CompleteDeviceAuthorization`. Userinfo
and introspection read what the grants and rotations have minted. The launchpad
keeps a cookie of its own and shares nothing with the grants but the registry, as
tiles.

## 2. Modules

| Module | What it is |
|---|---|
| `Registry` | The client registry as a function from client_id to kind (confidential, public, absent), what a clients file declares, when it is accepted, and `ReplaceFileClients`. Operators only. |
| `FileRegistry` | What the registry promises of the clients file: whole versions, only versions that load, never backwards while the process lives. |
| `ClientsWatcher` | Operator, boot sequence and polling goroutine, each stat, load and apply a step. Checked to implement `FileRegistry`. |
| `Authorization` | What both interactive grants promise: tokens name only identities picked for their flow, and a flow that is closed (redeemed, denied) yields nothing to whoever begins after. |
| `AuthCode` | The authorization-code grant: callbacks and exchanges as concurrent handlers, logins, hot reloads. Checked to implement `Authorization`. |
| `DeviceGrant` | The device authorization grant: device and user codes, approvals, denials, polls, hot reloads, expiry. Checked to implement `Authorization`. |
| `Tokens` | Refresh tokens and their access tokens: mint, rotation, revocation, end_session, expiry. |
| `Claims` | `Tokens` and a registry that is reloaded, read by userinfo and introspection handlers. |
| `Launchpad` | The IdP's own pages over a browser with several tabs and one cookie jar, with hot reloads and restarts. |
| `MCAuthCode`, `MCClientsWatcher`, `MCTokens`, `MCDeviceGrant`, `MCClaims`, `MCLaunchpad` | Instances for TLC: file contents and symmetry. |
| `AuthCodeProofs`, `AuthCodeAnswers`, `AuthCodeRefinement` | Theorems about `AuthCode`: its invariant, what one answer carries, and that it implements `Authorization`. |
| `ClientsWatcherProofs`, `TokensProofs`, `ClaimsProofs`, `DeviceGrantProofs`, `LaunchpadProofs` | Theorems about the modules they are named after. |

Operators with a suffix (`EndLogin_staysLocked`) are mutants: a property listed
next to one in `PROJECT.json` is violated when it replaces its original. No run
or theorem uses them otherwise.

### AuthCode

| Code | Model |
|---|---|
| `*authRequest` objects, kept alive by handlers after deletion | `requests` (a request is named once, by `uuid.NewString`) |
| `Storage.authRequests`, `.codes`, `.tokens`, `.refreshers` | `authRequests`, `codes`, `tokens`, `refreshers` |
| `CompleteAuthRequest` (`storage.go:137`) | `BeginLogin`, `EndLogin`: the critical section is opened and closed, so that an unlocked read can fall into it |
| any other `Storage` method | one action, enabled when the lock is free |
| `GetSubject`, `GetAuthTime`, `Done` called by the OP without the lock | `SubjectSeen`, `AuthTimeSeen`, `DoneSeen`: the old value, the new one, or (string, time) a torn one |
| authorize callback | `CallbackLoad`, `CallbackDone`, `CallbackClient`, `SaveAuthCode` |
| code exchange at `/oauth/token` | `GetClientByClientID`, `AuthorizeClientIDSecret` (confidential), `AuthRequestByCode`, `AuthRequestByID`, `ValidateExchange`, then `CreateAccessToken`, or `InfoFromRequest` and `CreateAccessAndRefreshTokens`; `SetUserinfoFromRequest`, `AllClientIDs`, `DeleteAuthRequest` |

`AuthRequestByCode` takes the lock twice in the code, hence two actions.
`ValidateExchange` is the OP's: it compares the verifier with a recorded challenge, by
the recorded method, and refuses a public client without one. The OP is not in this
repository; `clients.go:70-71` and `storage.go:223-224` say what is expected of it. A
callback is named by the code it mints and an exchange by the token it mints,
both fresh random values in the code; the sets of names bound the number of
requests. A code is presented only after a callback returned it, by any client
and any number of exchanges. `picks`, `createdAs`, `late`, `began`, `disturbed`
and `spent` are history: no guard reads them but the bound on logins.

### ClientsWatcher

`written` is the file's history; the last version is on disk. `Edit` may happen at
any moment, also between `BootLoad` and `BootModTime`, or between `Poll` (stat),
`Reload` (read) and `ReApply`. `StrictClock` says whether two edits always differ
in modification time. A load reads the file in one step: a write in pieces is two
edits, the first leaving a broken or shorter file. `Restart` may come at any time
and keeps the file only.

### Tokens

A `*refreshToken` object is a `grant`; `refreshers` maps the current refresh token
id to it. One call mints one access token id and one refresh token id, numbered
alike. `CreateAccessAndRefreshTokens` stores the new access token before it looks
the old refresh token up, and `Rotate` does so too. `SetCurrentScopes` has no lock:
a request is "writing" for a while, during which another may compare with a torn
slice (`Accepts`, over any of its `Readings`) or write one, and `Rotate` copies it into
the new access token. A torn slice is a part of a list, or a list and what lies past
its end, `Garbage`, which may read as any scope. The audience goes from the
authorization to its first token and the object, and from there to later tokens. `ClientOf` is the
empty client id `infoFromRequest` yields for a device authorization, whose audience
names its client all the same. `issuedTo`, `granted`, `accessRevoked`, `delivered` and
`raced` are history. A handler that
is through forgets what it held (`Refused`, `Ended`).

### DeviceGrant

| Code | Model |
|---|---|
| `deviceCodes` and the states its entries point to | `state`; a device code is a fresh random value and names the flow |
| `userCodes` | `userCodes`; `NewUserCode` may draw any code again |
| `CompleteDeviceAuthorization` | `BeginApproval`, `EndApproval`: as for a login, unlocked reads fall into it |
| `StoreDeviceAuthorization`, `DenyDeviceAuthorization` | actions of their names. Denial has no caller in the repository; it is modelled because it is part of the storage interface a page would use |
| a poll of `/oauth/token` | `AuthorizeClientIDSecret` or `ClientIDFromRequest`, `GetDeviceAuthorizatonState` or `PollTimesOut`, `CheckDenied`, `CheckDone`, `CheckExpires` (the OP reads them in this order, without the lock), `GetClientByClientID`, `Mint`, `CreateIDToken`, `SetUserinfoFromRequest`, `AllClientIDs` |

People approve the flow their user code resolves to at that moment, which is what
`ImplementsAuthorization` compares with the flow they were shown. Expired, denied
and approved flows can all be approved. `picked`, `approvals`, `createdAs`,
`createdAt`, `late`, `ready`, `began` and `disturbed` are history.

### Claims

Extends `Tokens`: its `Next` runs with the registry unchanged, or a reload happens,
or a lookup moves. `Userinfo` and `AuthorizeClientIDSecret` (introspection, whose
client proves a secret) begin one, `TokenByID` takes the token under the lock,
`CheckToken` looks at expiry and audience after it, `AllClientIDs` takes the lock
again for the apps. Tokens that were never delivered cannot be presented. The token a
lookup holds keeps the scopes and the audience it was minted with; a scope list with
`Garbage` in it may read as any. `dead` and `began` are history.

### Launchpad

A handler reads nothing but its request, its cookie, the compiled-in identities and
the registry, and so is one action, `Serve`, that dispatches by path. The steps
between are the browser's: `Ask` sends the cookie of that moment, `Receive` applies
an answer to the jar of all tabs, `Follow` follows a redirect with the cookie of
*that* moment, `Lose` breaks a connection, and a tab may give up what it waits for.
`Restart` brings a build with other identities; pages and cookies stay. `Enhance` is
the script of a page, which may run late or never. `known`, `stale` and
`crossed` are history.

### The refinements

`AuthCode` and `DeviceGrant` both instantiate `Authorization`. A flow is a request or
a device code, a handler an exchange or a poll; `picked` is what was picked on the
flow's own page, `closed` the requests answered for or the flows denied, `names` the
subjects of the access token and the id_token. Every step of either maps to a step
of `Authorization` or a stutter. `ClientsWatcher` instantiates `FileRegistry`.

## 3. Runs

| Run | Instance | Shows |
|---|---|---|
| `code_grant` | 2 requests, both for refresh tokens, 2 people, 2 logins each, 2 callbacks, 2 exchanges, with and without an S256 challenge | `SubjectWasPicked`: never the hint, never a torn read. `AnswerAgrees`: access token, id_token and refresh token agree unless a login ran on the held request. `CodeAfterLogin`, `NoLateRedemption`, `CodeLostOnlyByAnswer` |
| `reload` | 2 clients, 2 reloads, 1 request without refresh token, 2 exchanges, every kind of challenge, fair | `SecretOrVerifier`: a confidential client proved its secret, a public one a verifier, of an S256 challenge unless a reload turned it public after `/authorize`. `AudienceEntitled`. `HandlersFinish`: nobody waits for the lock for good |
| `watcher` | 7 contents, 3 edits, 1 restart, coarse clock, fair | `OneVersionAtATime`, `ImplementsFileRegistry`. `EditWhileWatchingAppears`: an edit with an mtime of its own. `NoticedEditAppears`: also an old file put back |
| `rotation` | 2 grants (1 device), 2 clients, 4 mints, 2 refreshes, 1 revocation, clock to 2 | `KeyedByID`, `RefreshUsedOnce`, `OnlyCurrentTokenLives`, `TerminateReaches`, `ScopesWithinGrant`. `DeadStaysDead`: a refresh token past its last instant is as spent as a revoked one. `RefreshKeepsGrant`: at its last instant it is good, and a refresh that comes too late takes nothing from the one that won |
| `lookups` | 2 grants (1 device), 2 clients, 1 scope, 2 mints, 2 refreshes, clock to 1, 2 reloads, 1 lookup | `NoAnswerFromTheDead`: a token that was rotated away, ended or expired before the request tells nothing. `OnlyItsClientIntrospects`: a good token is introspected by the client of its grant and by nobody else, after a rotation and for the device flow too. `ClaimsWithinGrant`: no claim beyond the grant while one request narrows the scopes and the other rotates, unless two writes raced or the copy has something past its end. `CallerEntitled` |
| `device_grant` | 2 device codes, 2 user codes, 2 people, 2 approvals each, 2 polls | `ImplementsAuthorization`: no CLI is approved through another's user code, and a denial holds. `AnswerAgrees`: as for the code grant |
| `device_answers` | 1 device code, 2 clients, 2 polls, 1 approval, 1 reload, clock to 1 (past expiry), fair | `DeviceClientBound`: tokens go to the code's client, which authenticated unless it is public or was. `ApprovedPollsSucceed`: also after expiry |
| `tabs` | 2 tabs, 2 clicks, any cookie, 2 identities, 1 reload, 1 restart with either build, fair | `ArrivesWhereClicked`, `PageAgreesWithCookie`, `ClicksEnd` |

The `TypeOK` of `AuthCode`, `ClientsWatcher`, `Tokens`, `DeviceGrant` and `Launchpad` is
checked in one run each; `Claims` adds only what `Tokens` bounds. Four further runs find a
statement of the repository violated:

| Run | The repository says | The code does |
|---|---|---|
| `seed_overwritten` | "seeded clients are never touched" (`storage.go:99`) | a file entry with a seeded id replaces the seeded client, and stays when it leaves the file |
| `startup_edit_missed` | "edit the file and a new app tile appears with no restart" (`README.md:115`) | the reference mtime is taken after the boot load; an edit in between is never loaded |
| `plain_after_reload` | a public client "MUST use PKCE S256 (enforced at `/authorize` by `Storage.CreateAuthRequest`, and at `/oauth/token` by the OP)" (`clients.go:70-71`) | a client that was confidential at `/authorize` may have sent a plain challenge; made public by a reload, it redeems the code with it, since the method is looked at once |
| `device_client_lost` | "`infoFromRequest` pulls the client id ... out of a token request" (`storage.go:674`) | a device authorization's tokens bear an empty client id, so revocation and end_session by their client do not find them, and a refresh is refused |

What the properties leave open, because the code allows it:

- Exchanges of one code that overlap may both mint: the code is consumed last.
- A login while an exchange holds the request can put two people into one answer
  (access token and id_token), or one's auth_time beside the other's name.
- An edit with the modification time of the previous one is not noticed.
- A refresh token survives end_session when its access token was revoked alone, and
  one of the device flow always.
- A clients file that is not there when `main` looks for it is never watched; one that
  goes away between that look and the boot load stops the process.
- A rotation that fails leaves an access token behind that nobody was given.
- Two requests that write a grant's scopes at once can leave a torn slice, and a
  rotation can copy one into an access token. What lies past the end of a list may
  read as a scope that was never granted: `ScopesWithinGrant` and `ClaimsWithinGrant`
  then promise nothing.
- A revocation that is overtaken by a rotation answers success and revokes nothing:
  the id it resolved is gone.
- An approved device code can be redeemed by any number of polls, and an approval
  after the code's expiry still yields tokens: `Done` is read before `Expires`.
- Of two tabs that pick or log out at once, one may arrive at the other's session.
- Logging out announces `signed_out` before the server is asked, and also if the
  request is then lost and the session goes on. Switching user announces nothing,
  although the script is to drive it through the session (`ui/src/launchpad.ts:8-9`).
- `/launchpad.json` and the launchpad show the apps an identity declares; its
  id_token lists every registered client.

### Bounds

- Two exchanges and two callbacks are the least that overlap; with two requests
  they can also belong to different ones. A third repeats a role. Two logins are
  the least that change a request's user under a handler.
- Two reloads turn a client public and back, or drop it and bring it back. In
  `reload` requests ask for no refresh token, so that `CreateAccessToken` runs.
- `Presented` holds the code challenges clients send. A `plain` one matters where
  the client's kind changes, in `reload`; `code_grant` leaves it out.
- Three edits make a good version, a bad or missing one and a good one again, with
  the version at boot before them. One restart separates two process lives.
- Four mints are two grants and two rotations, or one grant rotated three times;
  the clock passes the lifetime of a token and of its rotated successor. One scope,
  granted or not, asked for or not, is enough to be refused, narrowed or torn.
- A lookup touches nothing, so one at a time shows what any of them sees; two mints
  are a token and its successor, two reloads register and drop the client that asks.
  Two refreshes write the scopes at once, or one beside the other's rotation. An access
  token is good for one tick and a refresh token for two, as 15 minutes are less than a
  day. `lookups` has no revocation: it deletes what end_session and rotation delete,
  is in `rotation`, and in the theorems about `Claims`.
- Two device codes with two user codes make a draw collide; two approvals change a
  flow's subject under a poll, and a denial can come before, between or after them.
  Two polls are one from before and one from after any of these. Client, reload and
  clock are varied in `device_answers`, with one flow: flows share nothing there.
- Two clicks from any earlier cookie are one in each tab, crossing, or two in one; a
  redirect and its request are not counted. A third click finds no new pair.

Deadlock is not checked: a behaviour ends when its names, edits, mints and ticks
are used up. That no handler is stuck is `HandlersFinish`, for polls
`ApprovedPollsSucceed`, and for pages `ClicksEnd`.

### Fairness

`AuthCode!Fairness`: weak for `EndLogin`, strong for the steps of a callback and
an exchange. A started handler's goroutine is scheduled, a critical section ends,
and Go's mutex hands the lock to a waiter that has starved for a millisecond, so a
step that is enabled again and again is taken. Nobody has to log in, call back,
redeem a code or edit the file. `ClientsWatcher!FairSpec`: weak for the watcher as
a whole, one thread that runs the boot sequence and then a ticker.
`DeviceGrant!FairSpec`: as for the code grant, `EndApproval` weakly and a poll's steps
strongly; nobody has to approve, deny or poll, and no poll has to time out.
`Launchpad!FairSpec`: weak for `Serve`, `Receive` and `Follow`, a server that answers
and a connection that works unless it breaks; nobody has to click.

## 4. Proofs

Every safety property that a run finds true, every action property and the three
refinements are theorems, for all sets of requests, codes, handlers, clients,
identities, tabs and file contents and all bounds.

| Module | Theorem | States |
|---|---|---|
| `AuthCodeProofs` | `InductiveInvariant`, `TypeCorrect` | `Spec => []IInv`, `[]TypeOK` |
| | `CodesFollowLogins`, `SubjectsArePicked`, `NothingLateIsMinted` | `[]CodeAfterLogin`, `[]SubjectWasPicked`, `[]NoLateRedemption` |
| | `CodesAreLostByAnswers` | `Spec => CodeLostOnlyByAnswer` |
| `AuthCodeAnswers` | `AudiencesAreEntitled`, `TokensAreProven`, `AnswersAgree` | `[]AudienceEntitled`, `[]SecretOrVerifier`, `[]AnswerAgrees` |
| `AuthCodeRefinement` | `CodeGrantImplements` | `Spec => ImplementsAuthorization` |
| `DeviceGrantProofs` | `InductiveInvariant`, `TypeCorrect` | `Spec => []IInv`, `[]TypeOK` |
| | `TokensReachTheirClient`, `AnswersAgree` | `[]DeviceClientBound`, `[]AnswerAgrees` |
| | `DeviceGrantImplements` | `Spec => ImplementsAuthorization` |
| `TokensProofs` | `InductiveInvariant`, `TypeCorrect` | `Spec => []IInv`, `[]TypeOK` |
| | `OneRefreshTokenPerGrant`, `RefreshTokensAreUsedOnce`, `DeliveredTokensAreCurrent` | `[]KeyedByID`, `[]RefreshUsedOnce`, `[]OnlyCurrentTokenLives` |
| | `EndSessionReaches`, `ScopesStayGranted` | `[]TerminateReaches`, `[]ScopesWithinGrant` |
| | `DeadGrantsStayDead`, `RefreshesKeepGrants` | `Spec => DeadStaysDead`, `Spec => RefreshKeepsGrant` |
| `ClaimsProofs` | `ReadersOnlyRead`, `ReadersInvariant` | `ClaimsSpec => Spec` (of `Tokens`), `[]ReadersInv` |
| | `DeadTokensTellNothing`, `OnlyTheirClientsIntrospect` | `[]NoAnswerFromTheDead`, `ClaimsSpec => OnlyItsClientIntrospects` |
| | `ClaimsStayGranted`, `CallersAreEntitled` | `[]ClaimsWithinGrant`, `[]CallerEntitled` |
| `ClientsWatcherProofs` | `InductiveInvariant`, `TypeCorrect`, `RegistryIsOneVersion` | `Spec => []IInv`, `[]TypeOK`, `[]OneVersionAtATime` |
| | `WatcherImplements` | `Spec => ImplementsFileRegistry` |
| `LaunchpadProofs` | `InductiveInvariant`, `TypeCorrect` | `Spec => []IInv`, `[]TypeOK` |
| | `ClicksArrive`, `PagesAgree` | `[]ArrivesWhereClicked`, `[]PageAgreesWithCookie` |

### Assumptions

The `ASSUME`s of the modules, which TLC evaluates in every run: the null values
(`NoRequest`, `Torn`, `Garbage`, `Keep`, ...) are none of the real ones, as in the
code, where they are `nil`, `""` or a missing header; seeds are clients; a clients
file holds entries of the fields `fileClient` has (`WatcherAssumption`); what a
reload may bring is a registry; challenges and scopes are those the code knows; an
access token lives no longer than a refresh token (15 minutes and 24 hours in
`storage.go`); bounds are numbers. Finiteness of a set is assumed nowhere.

### AuthCode

None of the safety properties is inductive. `IInv` adds what relates the parts:

- `RequestInv`: a Done request's user is one that was picked; a stored request is
  not spent, and neither a stored nor a spent one can be created again.
- `CallbackInv`: a callback that got past the Done check either holds a Done
  request or holds one whose login is under way, and then has to wait for that
  login's lock; so `SaveAuthCode` saves codes of Done requests only. A code names
  the request of the callback that saved it.
- `ExchangeInv`: an exchange's request is that of its code's callback. One that
  began late stays before "validate", since its request is spent and therefore
  gone from `authRequests`.

The subject argument: when a token is minted, under the lock, the request is Done
and its user is picked; the id_token's subject is read without the lock and is the
user, or the subject of the login in progress (the torn read names nobody and
fails), which `EndLogin` then adds to those picked. `OwnStep` and `ExchangeFrame`
reduce each exchange step to its own record. `CodesAreLostByAnswers` uses that a
code nobody holds yet is the only one `SaveAuthCode` writes.

`AuthCodeAnswers` has one record lemma per shape of exchange step (`StepRecord`), and
three invariants on top of `IInv`. `EntitledInv`: a client that was registered when
the exchange began is registered until a reload. `ShownInv`: a request of a public
client has an S256 challenge, so an exchange past validation has shown what its client
owes, by that method unless the client was made public in between. `AgreesInv`: while no login has disturbed an
exchange, what it has read of its request, locked or not, is what the request says.

`AuthCodeRefinement` adds `FreshInv` (a token is minted once and the id_token's
subject read once, so abstract names only grow), and maps every step: the beginning of
a login is `Pick` (its end moves the pick from the lock to the request), the first step of an exchange `Begin`, minting and the userinfo read
`Name`, the deletion of the request `Close`; all others are stutters.

### DeviceGrant

`IInv` says of a flow that its user code resolves to it (a code is drawn until it
resolves to nothing, so no flow takes another's), and that a done flow's subject and
time are those of its last approval; of a poll, that it holds an existing flow, that
one begun after a denial gets no further than the check, that a poll which found
Done set while an approval runs waits for that approval's lock before it mints,
and that an undisturbed poll has read what the state says. The same
shape as for the code grant, and the same abstract specification.

### Tokens and Claims

`IInv` of `Tokens`: an object bears the id of its access and refresh token; a token
knows the object it was minted for; a live grant's access token is there unless it
was revoked alone; a handler that looked a refresh token up finds that its id names
the object still, or nothing; one that was answered finds nothing, which gives
`RefreshUsedOnce`. Every operation either takes ids away (`Shrink`) or mints one for a
grant (`Grow`), a `StorageStep`; it is classified once and the invariants are proved of
the two kinds. `DeadStaysDead` follows the same way (`DeadStays`): only a grant that is
new, or live and not past its last instant, is minted for. `RefreshKeepsGrant` follows
from `KeyedByID` and `RotationKeeps`: what a rotation deletes is the object's own id,
which it replaces, or nothing. `Owned` says that the
audience of an object is the client it was made for, and with it that of its tokens.
For the scopes, `WritersEntitled` says that whoever is about to write
a list was compared with one within the grant, as long as nobody has raced
(`RacesAreRemembered`).

`ReadersOnlyRead` carries all that to `Claims`. `ReadersInv` relates what a lookup has
taken to what may have changed since (`Later`): a token that is gone stays gone, time
goes on, a grant keeps its client and what was granted, clients change by reloads.
`OnlyTheirClientsIntrospect` rests on the audience (`Known`) of the token a lookup still holds.

### ClientsWatcher

`LoadedInv`: what was loaded is a version that loads, no older than the one applied.
`LastEntry`, by well-founded induction on the numbers below a file's length, shows
that the last entry of an id exists, hence that a file that loads declares a
registry (`DeclaredType`); `ReplaceEffect` says what the apply step does to clients
outside the seed. The steps map to `FileRegistry`: an edit to a new version, an apply to
`Apply`, a restart to `Restart`, stats and loads to stutters.

### Launchpad

`IInv` follows a click through its stages: a request that is not stale was sent with
the cookie of the jar (`SentOK`); an answer is a page of the identity that cookie
stands for, or a redirect that sets what its path sets (`AnsweredOK`); a redirect that
is not stale waits with that cookie in the jar (`RedirectedOK`), so the request that
follows is sent with it and, as `crossed` remembers, the page it renders is where the
click leads. `ReceiveInv` is the step that matters: it changes the jar under all tabs,
and marks as stale exactly what relied on it (`RequestMarked`, `PageMarked`).

### Model-checked only

- Liveness: `HandlersFinish`, `ApprovedPollsSucceed`, `EditWhileWatchingAppears`,
  `NoticedEditAppears`, `ClicksEnd`. They rest on fairness and so on ENABLED, which
  TLAPS does not reason about.
- The four violation runs: a counterexample is TLC's to find.

## 5. Left out

- Redirect URIs, nonces, state, response types, tile metadata, names and emails: data
  no property tells apart. Secrets are right or wrong.
- The OP's own code appears as the order of its storage calls and the checks they
  depend on, as `src/` uses it; token signing and encryption do not.
- `prompt=none` is refused before anything changes. `RegisterClient` has no caller.
- Access tokens of requests without `offline_access` are minted in `AuthCode` and
  `DeviceGrant` and not followed in `Tokens`: they have no refresh token, so nothing
  but end_session and revocation by id touches them.
- A restart of the grants: every code, token and key is forgotten at once.
- `GetDeviceAuthorizationByUserCode` and the session's `getToken`, `getClaims` and
  `login` have no caller. The device grant's scopes are assumed to hold `openid`.
- A click on a tile leaves the IdP.
- The signing key: made at boot, never changed, read without a lock.
- Generated assets and the vendored frontend library; devauthz, whose store, watcher
  and handler are the devedge-sdk library's and whose `main` only calls them in turn.

## 6. Plan

1. Done: every component that keeps state is modelled and checked; its safety
   properties and the refinements are proved.
2. Next: what the liveness properties need short of fairness, as invariants or
   action properties worth a theorem: no handler waits for a lock it holds; an
   edit that was noticed is loaded before the next is.
3. Further lemmas on `ReplaceFileClients`: what of the past survives two reloads.
