# A verification model of fullstack-starter

TLA+ specifications of the parts of this repository where time matters:
the refresh-token lifecycle of the api, the browser session the gateway
builds on it and the front keeps up, federated sign-in and sign-out over OIDC
and SAML, the provisioning of federated users, the administration of users, and
the api's search for its database. TLC checks small instances of every module;
TLAPS proves every safety property these runs check, for instances of any size;
what only TLC checks is that everything ends that should.

Paths below are relative to `src/`.

## 1. The system

A browser runs an Angular front. It talks to an Express **gateway**, which
verifies tokens, keeps no state, and calls an Express **api** over HTTP with a
short-lived internal JWT. The api owns a Postgres database. Both servers are
single Node processes: code runs to its next `await`, and at every `await` any
other handler may run. No handler of the api opens a transaction except
`resolveOrProvision`, and none takes a lock.

| Component | State | Operations | Hard behaviour | What makes it correct |
|---|---|---|---|---|
| **A. Refresh-token family** (`apps/api/src/services/refresh-token-family.service.ts`, `controllers/refresh-lifecycle.controller.ts`) | table `refresh_token_family`: jti, family, user, parent, used, revoked_at | record, rotate, revoke by jti or by family | check-then-act across statements, statements that fail after they took effect, restarts | a spent token is not exchanged, reuse ends the session, revocation is total, families are one user's chain |
| **B. Credentials** (`services/auth.service.ts`, `controllers/internal-auth.controller.ts`) | reads `user` | validate | none of its own | only a live local user is accepted |
| **C. Gateway sessions** (`apps/gateway/src/middleware/auth.middleware.ts`, `controllers/auth.controller.ts`, `clients/api.client.ts`, `services/token.service.ts`) | none; the browser's `refreshToken` cookie is its memory | login, logout, hasPermission, refreshAndContinue | parallel requests with one cookie, lost calls and responses, responses out of order, expiry | no cookie without a row, no self-inflicted reuse, logout is final, every request is answered |
| **D. User administration** (`services/user-crud.service.ts`, `controllers/abstract-crud.controller.ts`) | table `user`: permissions, deleted | post, put, delete, and reads | two administrators at once | at least one ADMIN, a deleted user is gone |
| **E. Federated identities** (`services/federated-identity.service.ts`) | tables `federated_identity` and `user` | resolveOrProvision | a transaction racing another, unique-index waits, administrators meanwhile, restarts | one user per identity, no ADMIN by claim, only verified addresses are linked |
| **F. OIDC sign-on** (`apps/gateway/src/controllers/sso.controller.ts`, `sso/sso-transaction.service.ts`, `sso/sso-logout.service.ts`, `sso/discovery.ts`) | a signed transaction cookie (state, nonce, PKCE verifier), a logout hint cookie, a cache of clients | login, callback, logout | callbacks repeated, late or of another tab | whoever is signed in completed a login of its own, once; nothing else spoils a login; a logout finds the session's own hint unless age or a late answer parted them |
| **G. SAML sign-on** (`controllers/saml.controller.ts`, `sso/saml-client.ts`, `sso/saml-transaction.service.ts`, `sso/saml-logout.service.ts`) | transaction and hint cookies, a bounded in-memory cache of request ids | login, callback (ACS), logout, logout callback | eviction at the bound, replayed assertions, restart empties the cache | an assertion answers one request, once; a login is forgotten only for a reason |
| **H. Registries** (`sso/provider-registry.ts`, `saml-provider-registry.ts`, `federated-registry.ts`, `permission-mapper.ts`) | environment read at start-up | parse, look up, map groups to permissions | collisions of ids, missing variables | a gateway that starts serves only vetted providers, an id means one of them |
| **I. Front authentication** (`apps/front/src/app/libs/auth`) | access token in memory, whether it is initialized | initialize, login, logout, interceptor, guards | several 401s at once, answers with a token after a logout, pings in parallel with one cookie | token and cookie agree once nothing is in flight, a good session is not ended, a logout leaves no token |
| **J. Database connector** (`apps/api/src/adapters/db/pg.connector.ts`, `main.ts`) | attempt counters, timers | connect, reconnect, periodic checks | overlapping loops, giving up | loops and timers do not pile up, a database once found is checked for ever |
| **K. Internal authentication** (`libs/internal-auth`) | none | sign, require | expiry, scopes | only a token of the right scope and permission passes |
| **L. Rate limiters, proxy** (`apps/gateway/src/middleware/rate-limit.middleware.ts`, `routes/proxy.routes.ts`) | counters per window | limit, forward | boundary of a window | at most n per window |
| **M. Validation, responsers, pagination, health** | none | pure functions of a request | none | formatting |
| **N. Front pages, components, translations; nginx, docker, CI, scripts** | user interface and deployment | | | outside this project |

How they interact: C calls B at a login, A at every login, refresh and logout,
and (from F and G) E at a federated sign-in; F and G read H at every step and
end in the session of C. A and E read the `user` table that D writes. I sends
the requests C answers. J decides when a statement of A, D or E fails.

## 2. Modules

| Module | What it is |
|---|---|
| `SessionLineage` | the abstract promise of the token table: atomic issue, spend and revoke |
| `RefreshTokenFamily` | component A, statement by statement; implements `SessionLineage` |
| `GatewaySessions` | component C around one browser, composed with `RefreshTokenFamily` (`Api == INSTANCE ...`), B as the choice of an account |
| `UserAdmin` | component D |
| `FederatedIdentity` | component E |
| `ProviderRegistry` | component H as operators: which environments start the gateway, and with which registries |
| `FederatedSignIn` | components F and G together, on top of `ProviderRegistry` |
| `FrontAuth` | component I against a server that keeps what `SessionLineage` promises |
| `DbConnector` | component J |
| `RefreshTokenFamilyProofs`, `GatewaySessionsProofs`, `UserAdminProofs`, `FederatedIdentityProofs`, `FederatedSignInProofs`, `SignOnOutcomeProofs` (also about `FederatedSignIn`), `FrontAuthProofs`, `DbConnectorProofs` | the theorems |
| `MC*` | instances for TLC: initial states, symmetry, values of functions |

Definitions whose name is followed by a comment `mutant of X` are variants of
`X` with a plausible bug. No specification uses them; replacing `X` by its
mutant makes TLC report the property the mutant is kept for.

### RefreshTokenFamily

A request is a process with a program counter. Its value is the SQL statement
the handler is about to run: `find`, `save`, `revokeReused`, `getUser`,
`revokeInactive` for `rotate`, `insert` for `record`, `findRevoke` and
`revokeFamily` for `revoke`. Each statement is an action, and contains what the
handler does with the result up to the next statement or to the answer. The
table is kept by column; `familyOf[j] = None` says that no row has jti `j`.

* `RotateSave` writes `used` only, as Sequelize's `save()` writes the changed
  columns of an instance; `RotateSaveWholeRow` is what it would be otherwise.
* A statement fails before it takes effect (`DbError`) or after (the `"error"`
  outcome of the writing statements). `Crash` ends every handler in flight and
  leaves the table.
* The gateway is the only caller (internal scope). `CallRecordLogin` and
  `CallRecordRotation` are its calls of `record`: a fresh jti and family, or the
  successor of a rotation that was answered. `CallRotate` presents any jti, in
  the table or not. `FreshJti` states what `randomUUID()` gives.
* `stale`, `orphan`, `kin` and `late` are history: they remember what was true
  when a rotation arrived or a row was inserted, for the properties.

### GatewaySessions

`stage[g]` is the call a gateway handler is waiting for. The call `<<g, 1>>`
rotates or revokes and `<<g, 2>>` records; both are requests of
`RefreshTokenFamily`, so the api's statements interleave with everything here.
`Receive` reads the cookie jar when the browser sends, `Deliver` applies
`Set-Cookie` when a response arrives, in any order. Faults are counted against
`MaxFaults`: an abandoned call (`CallAbandoned`, the api may have acted or may
yet act), a lost response, a gateway restart, an api restart or a failed
statement. An unreachable api is free. `Expire` ends the life of a JWT at any
time; the browser may drop the cookie at that moment or not, as its maxAge is
configured apart from the token's expiry (`auth.middleware.ts:75-77`,
`token.service.ts:113-117`).

What overlapping requests do to each other is the code's behaviour, and no property
forbids it: requests in parallel with one cookie trip the reuse detection
(`auth.middleware.ts:160`), and the response of the one that was refused clears the
cookie (`:246`), also when it arrives after the response that set a good one.
`OneAtATimeNeverReuses` says that it takes such an overlap.

The access token is a choice: any guarded request may carry a good one, an
expired one or none. `hasPermission` is called without an argument by every
route (`proxy.routes.ts:32`, `health.routes.ts:19`), so its 403 branches cannot
be reached and are left out. The api's answer `error` is a 500 that the gateway
passes on; every other refusal is a 401. `validateCredentials` is reduced to the
account the credentials belong to, chosen when the request arrives.

### UserAdmin

`put` and `delete` of a user: `exists` (PUT only), `find`, `count`, `update`,
`reread`. The rule about the last ADMIN is tested on what `find` and `count`
returned; `update` has only the id in its WHERE. `torn` remembers that an UPDATE
of another request came after a request's `find` and before its own UPDATE, which
is exactly when the rule may break. Of the columns only `permissions` (ADMIN or
not) and `deleted` are kept; that an e-mail is taken is one of the ways a
statement throws.

Two things a single request shows are described here rather than checked. The
UPDATE of a PUT has only the id in its WHERE (`abstract-crud.controller.ts:71`),
so a DELETE between the existence check (`:63`) and the UPDATE is followed by the
UPDATE of a deleted row. And `permissions?.includes(ADMIN)`
(`user-crud.service.ts:41`) is `undefined` for a body without permissions, which
counts as taking ADMIN away: the last administrator cannot change a name without
sending ADMIN again.

### FederatedIdentity

READ COMMITTED: a row is in `email`, `permissions` and `identities` once its
transaction has committed; before, `created` and `linked` say that it is in the
unique indexes. An INSERT of a key that an open transaction holds is not enabled:
it waits. A committed key is a unique violation, which rolls back and runs the
lookup of the catch (`FindRaced`, `GetRaced`). `user.email` is unique over
deleted rows as well (`db/10.user.sql:7`), while lookups skip them. The three
writes of an administrator are single statements that interleave with the
transaction. Model attributes are taken as the table accepts them: whether
Sequelize's own validation refuses an instance without `createdAt`
(`models/federated-identity.model.ts:49-53` with `timestamps: false`) is a
matter of that library, and appears only as a `DbError`.

Three things are the code's behaviour, and no property forbids them. Of two new
identities with one new address, the transaction that loses finds no identity of its
own afterwards and is refused (`federated-identity.service.ts:85`), though another try
would link it. A person whose local user was soft-deleted is refused for ever: the
identity still names that user (`:101`), and the address is still taken. And a user
that is deleted while a sign-in runs may still be linked and answered (`:50`).

### ProviderRegistry and FederatedSignIn

`ProviderRegistry` says of an environment whether the gateway starts with it
(`Boots`: every misconfiguration throws before the server listens) and what
`Registry` it then serves: the URL rules with the development switch, the
permission maps, the certificates, the e-mail domains, the collision of a SAML id
with an OIDC id. Two SAML declarations whose names differ only in case have one
id and the later one silently replaces the earlier one, although
`saml-provider-registry.ts:164-165` says that this cannot occur.

In `FederatedSignIn` a login attempt is a number that stands for everything
minted for it (state, nonce and verifier; or the AuthnRequest id). `calls` are
callbacks and logouts, each with a program counter at its awaits. A browser's
`jar` has the transaction cookie of each protocol, the session and the hints.
A callback may come from the wrong browser, at another provider's path, with the
answer of another issuer that shares a signing key, or again: each is a fault of
the environment, counted against `MaxFaults`, as are failures of discovery, of the
token endpoint, of the checks on an assertion or of the api, lost answers, the
expiry of transaction cookies (5 minutes) and of request ids (10 minutes), and restarts, after
which the gateway may have another environment.

* The SAML library is modelled by how the code uses it, conservatively: it looks
  `InResponseTo` up first and removes it later, whatever the outcome, and it saves
  the ids of LogoutRequests in the same bounded cache.
* `saml-client.ts` keeps the ids in memory. A login begun before a restart is
  refused after it, and would be refused by another replica.
* At a logout the OIDC hint comes before the SAML one, and a hint may have been
  left by an earlier session than the one that ends (`sso.controller.ts:187-207`).
* `Refresh` is a guarded request that renews the session; its answer, in `renewals`
  until then, sets the session cookie alone (`auth.middleware.ts:78`) or clears it
  (`:246`). It may come after a logout, or after another sign-in of the browser, and
  then brings an ended session back; that counts as a fault of the environment.
  `session` is the cookie: whether the api still honours it is what `GatewaySessions` is
  about. An answer that is lost stays on its way.
* A hint lives 8 hours from the sign-in (`sso-logout.service.ts:19`, `:44-48`,
  `saml-logout.service.ts:21`, `:46-50`), while each rotation renews the session cookie
  for 8 hours or 30 days (`auth.middleware.ts:75-78`, `:235-240`). `HintExpires` takes
  the hint away, and the session with it or not: whether it was renewed. It needs no
  fault; it comes after the 10 minutes of the login's request id. A logout of a session that
  outlived its hint is local only, or goes to a provider with an older hint.
* `HintMatchesSession` says that these are the only ways in which a session and its own
  hint part: unless the hint of its login expired, or an answer brought the session
  back, the hint is there. `parted` remembers the logins of which one of the two is
  true.
* The password login is not part of the module; a session it begins leaves the
  hints where they are. Cookies have their production settings. Starts that fail
  before one that succeeds are part of `Restart`. The route that prints the
  service provider's metadata changes nothing and is left out.
* `disturbed` is history: logins something happened to that may end them.

### FrontAuth

`AuthService` keeps the access token in memory; the refresh token is a cookie. A
request leaves with the token and the cookie of its moment, the server serves
requests in any order (`Serve*`), answers arrive in any order or are lost, and a
reload or a redirect cancels what is in flight, whose cookie the browser may or
may not take. The server keeps `SessionLineage`: one live cookie per family, reuse
revokes. The interceptor turns any 401 into a logout followed by the login page.
`GoToLogin` and `GoHome` are the navigations inside the page that no guard decides.

What the model shows about the code, which no property forbids:

* A reload at `/profile` with a good cookie goes to the login page: the guard
  decides on the value `isLoggedIn$` replays before the ping is answered
  (`auth.guard.ts:13-18`).
* Pings in parallel present one refresh cookie (`auth.service.ts:89-94`); the
  second is a reuse and ends the session. `ExpelledOnlyIfDisturbed` says that only
  such overlaps, or faults, do that.
* The first ping of a visitor without a cookie is a 401, after which the
  interceptor logs out and goes to the login page.
* The 401 of a failed login signs out a session that existed before.
* A call whose rotation succeeds and whose forwarded request fails leaves the old
  access token beside the new cookie; both are of one family.
* A user's logout while the profile page is open leaves the page shown; a logout
  whose answer is lost or refused by the limiter cleans the memory but leaves the
  cookie live.

Left out: `doPing` (called by nobody), the permission guards and the decoded
token, which only read, and the expiry of the cookie in the browser. `Reload` with
nothing in flight starts a new page and forgets `disturbed`.

### DbConnector

Time passes in ticks; nothing that is due may be left when a tick passes. A
process of `procs` is the start-up or the callback of one check, with the attempt
it is at. `checks` are the timers of `setupReconnectionHandlers` (armed by a
success of `testConnection` only), `health` those of `startHealthCheck`. The delay
grows by a factor up to a cap, with a tenth of jitter either way.
`isConnected` only tests that the Sequelize instance exists, so it is always true:
the health timer never reconnects and the 503 of `dbErrorMiddleware` that asks it
is never sent. That is why `RetriesContinue`, which the log line of `main.ts:40`
announces, is violated. A signal closes the pool, which refuses new connections and
drains; an attempt in flight may then succeed or fail.

## 3. Runs

| Run | Instance | Distinct states | What it shows |
|---|---|---|---|
| `family_lifecycle` | 2 users, 2 families, 3 jtis, 4 requests, empty table | 391 000 | `TypeOK`, `RevocationTotal`, `LineageWellFormed`, `SpentNeverRotates`, `DeletedNeverRotates`, `ReuseRevokesKin`, `NothingUndone`, and that the handlers implement `SessionLineage` |
| `family_singleuse` | 1 jti, 3 requests | violated | the documented single use fails for overlapping presentations |
| `gateway_session` | signed-in browser, 3 requests, 1 fault | 3 304 000 | `CookieIsRecorded`, `OneAtATimeNeverReuses`, `SignedOutIsFinal` |
| `gateway_live` | empty start, 2 requests, 1 fault | 9 500 | `TypeOK`, `EveryRequestAnswered` |
| `gateway_logout` | signed-in browser, 3 requests, no fault | violated | a logout that overlaps a refresh does not end the lineage |
| `admin_rule` | 3 ids, 2 founders, 3 requests | 344 000 | `TypeOK`, `AdminRemainsUnlessTorn`, `DeletedRowIsGone`, `DeletionIsFinal` |
| `admin_race` | 2 founders, 2 requests | violated | two administrators remove each other |
| `federated_resolve` | 3 user ids, 1 founder, 2 addresses, 3 claims, 1 provider, 2 subjects, 2 requests | 1 086 000 | the six safety properties of E and `EveryRequestEnds` |
| `signon` | 2 browsers, 2 providers that share a key (both SAML, or one OIDC), 2 logins, 2 calls, 2 faults, 1 request id per cache, 8 environments of which 6 must not start, refresh answers and hints of both | 1 362 000 | the seven safety properties of F, G and H |
| `front` | 4 requests, 2 in flight, 2 logins, 1 fault | 1 205 000 | `TypeOK`, `FrontInStep`, `ExpelledOnlyIfDisturbed`, `LogoutCleans` |
| `connector` | 3 attempts, delays 2 to 3 ticks, period 3, an attempt of 1 tick, 3 changes of the database | 75 000 | `TypeOK`, `AttemptsBounded`, `CheckedForEver`, no deadlock |
| `connector_retry` | as `connector` | violated | start-up gives up, the database comes back, and nothing tries to reach it |

Why the bounds are enough. The races of A are between two requests, with a third that
records what one of them obtained and a fourth that revokes; a token, its successor and
the successor's own are three jtis; the theorems remove these bounds. A session mishap
in C takes a request that rotates, one that overlaps it, and one that comes later and
meets the consequence: three. One fault at a time is the granularity of the code's own
error handling; two faults are not explored. In D, two administrators race and a third
arrives late. In E, a race has a winner and a loser; a third transaction would wait for
the second as the second waits for the first. One provider suffices there because the
code never relates rows of two providers except through the user's address, which two
subjects of one provider exercise as well. In F and G a mishap takes the login it
happens to and one that causes it (another tab, an eviction, an issuer that shares a
key), two calls for an answer and its replay or for a callback and a logout, and two
faults, so that a lost answer can be followed by a replay or a restart. A late refresh
answer takes one session that ended and, at most, one that followed it: two logins. A
cache of one id is the smallest in which an id is evicted; the theorems remove these
bounds. In I a second request in flight is what disturbs the first. In J the period is
shorter than a loop, so that loops overlap, and the bound of `AttemptsBounded` is
reached.

Every `.cfg` but the connector's two turns deadlock checking off: a behaviour sends
finitely many requests, and once they are answered the system may rest for ever.
The connector rests only when its process is gone.

Fairness. In I the oldest request is served and its answer, or an error, arrives:
a browser ends every request. In J time passes, what is due runs, and an exit
completes. `signon` has no liveness: a person may always leave.
A alone has none; that its handlers end is part of `EveryRequestAnswered`. In C, with the api's
statements, and in E a handler's next step is weakly fair: Node resumes a
handler whose promise is settled, and a statement ends or throws (the pool has
acquire and idle time limits). Arrivals, failures, restarts, deliveries and
administrators are never fair. A call to an api that accepts the connection and
then says nothing is outside these assumptions: `fetch` in `callApi` has no time
limit (`api.client.ts:47`).

### What the violated runs say

1. `SingleUse`: two requests find `used = false` before either saves. Both are
   answered `rotated`, and one refresh token has two live successors
   (`refresh-token-family.service.ts:43-64`).
2. `LogoutEndsLineage`: the rotation is answered, the logout revokes the family,
   then `record` inserts the successor, live, into the revoked family
   (`refresh-token-family.service.ts:31`). The browser goes on with it.
3. `AdminRemains`: each of two demotions counts the other administrator
   (`user-crud.service.ts:45-58`).
4. `RetriesContinue`: when start-up gives up, `main.ts:40` logs that retries will
   continue, and a health timer is there to reconnect (`main.ts:45-53`). It asks
   `isConnected`, which is always true (`pg.connector.ts:193-200`), so no attempt is
   ever made again, also when the database is back. `NoRetryAfterStartUp` proves it for
   every configuration.

`SpentNeverRotates`, `RevocationTotal`, `SignedOutIsFinal` and
`AdminRemainsUnlessTorn` are the strongest forms of these rules that the code
does keep: they hold for requests that do not overlap the one they conflict with.

## 4. Theorems

All theorems are about `Spec` of their module and hold for every value of the
constants, under the assumptions declared there: `None` is not an id, an answer or
a call, no token is the marker of an absent `Set-Cookie`, some founder exists, bounds are
numbers and the cache's limit is not zero, and every configured issuer has a signing
key. `FrontAuth` allows at least one send, since the load of the first page is one; in
`FederatedSignIn` `None` is no login, the declarations of an environment are a sequence,
and only a SAML provider is declared with a logout URL (an OIDC provider publishes its
own, `sso.controller.ts:199`); in `DbConnector` the growth of the delay is a fraction of
positive numbers and the period is positive. TLC evaluates all of them on its instances.

`RefreshTokenFamilyProofs`

| Theorem | Property |
|---|---|
| `TypeCorrect` | `TypeOK` |
| `SpentTokensStaySpent` | `SpentNeverRotates` |
| `DeletedUsersLoseAccess` | `DeletedNeverRotates` |
| `ReuseEndsTheSession` | `ReuseRevokesKin` |
| `RevocationIsTotal` | `RevocationTotal` |
| `LineagesAreWellFormed` | `LineageWellFormed` |
| `NothingIsUndone` | `NothingUndone` |
| `Implementation` | `ImplementsLineage` |

The properties speak of answers and are not inductive: an answer is right
because of what the handler read statements earlier. The inductive invariant
`IInv` adds, first (`Base`), what a position implies: past `find` the presented
row exists and the handler holds its family; past `save` it is used; a successor
about to be inserted names a used row of its own family and user; an answer is
there exactly when the handler has returned. Second, it carries the memory of an
arrival along: a rotation whose token was spent cannot reach `save`
(`StaleOK`), one whose user was deleted still reads that user (`OrphanOK`), the
rows a family had stay in it and are revoked by the statement that leads to the
answer (`KinOK`), and the first row of a login enters an empty family
(needed for `RevocationTotal` and for `StartLineage` of the refinement). Each
conjunct has a lemma with one step per action. `Implementation` maps `INSERT`
to `StartLineage` or `Succeed`, `save` to `Spend`, `revokeFamily` to `Revoke`,
and everything else to a stutter.

`GatewaySessionsProofs`

| Theorem | Property |
|---|---|
| `GatewayIsAClient` | the specification of `RefreshTokenFamily` |
| `TypeCorrect` | `TypeOK` |
| `CookiesAreRecorded` | `CookieIsRecorded` |
| `SignedOutStaysOut` | `SignedOutIsFinal` |
| `OneAtATimeIsSafe` | `OneAtATimeNeverReuses` |
| `ApiKeepsItsPromises`, `NothingIsUndone` | the properties of `RefreshTokenFamily`, of the composition |
| `SessionsAreLineages` | the composition implements `SessionLineage` |
| `NobodyWaitsForNothing` | the safety half of `EveryRequestAnswered` |

`GatewayIsAClient` is the composition: every step of the two together is a step of
the api as `RefreshTokenFamily` states it, or leaves the api alone. So the theorems
above hold of the composition (`ApiKeepsItsPromises`, `SessionsAreLineages` and
`NothingIsUndone` say so), and the proofs here cite the api's invariant
(`ApiProofs`, the instance for the calls of the gateway) instead of proving it
again. Three invariants rest on it. `Base` ties the stage of a handler to its two
calls (`LinkOK`) and says that what a call names is in the table (`NamedOK`).
`EndedOK`, for a session that a logout ended with no rotation in progress: any of
its tokens that is in the jar, in a response or in a record call that was answered
is revoked, and a rotation of one came too late, so it is `stale` and the api's
`StaleOK` keeps it from succeeding. `SequentialOK`, while requests do not overlap
and nothing on its way to the browser is lost: the calls at work are about
different families, each finds its token unspent, and no call is at work on the
family of the token in the jar or in a response. A call that outlives the request
that gave it up is the hard case: its family is then nobody's, because the same
failure clears the cookie, or a login's cookie was never set. `NobodyWaitsForNothing`
adds that a handler enters a wait together with the call it waits for, and that a call,
once made, is at a statement, answered or lost with the api: each of these lets the
handler go on under the fairness of `FairSpec`.

`UserAdminProofs`: `TypeCorrect` (`TypeOK`), `OneAdminRemains`
(`AdminRemainsUnlessTorn`), `DeletedUsersAreGone` (`DeletedRowIsGone`),
`DeletionsAreFinal` (`DeletionIsFinal`). The
strengthening `CheckedOK` says what the reads of a request that is still current
are worth: if its UPDATE is about to take ADMIN away, another live admin is left.

`FederatedIdentityProofs`: `TypeCorrect` (`TypeOK`), `OneUserPerIdentity`
(`SameIdentitySameUser`), `DeletedUsersStayOut` (`DeletedNeverResolved`),
`ClaimsAreHarmless` (`ClaimsGiveNothing`), `FederatedUsersHaveIdentities`
(`FederatedUserCanSignIn`), `LosersFindWinners` (`LoserFindsWinner`). The
strengthening says what a handler holds at each of its statements (`FlowOK`: before
its last one it has answered nothing, and it is in the transaction only with a
verified address), what an open transaction holds in the unique indexes, and that a
user deleted before a request arrived is in none of the handler's variables.
`NobodyWaitsInACircle` is the safety half of `EveryRequestEnds`: an INSERT waits only for
a transaction that is further along (a new user for an identity or a commit, an identity
for a commit), so these waits never form a circle.

`FederatedSignInProofs`

| Theorem | Property |
|---|---|
| `TypeCorrect` | `TypeOK` |
| `OwnLogin` | `CompletesOwnLogin` |
| `NoReplay` | `ReplayRefused` |
| `HintIsTheSessions` | `HintMatchesSession` |

The properties look at the end of a flow; the invariant carries the reason along.
`JarOK`: a transaction cookie is of a login its browser began, a session is of the
issuer that login was begun with and has its hint unless its login is `parted`.
`RenewalsOK`: a refresh answer renews a session its browser had. `CacheOK`: an id in a
provider's cache is of a login begun with that provider as it is configured now (a
restart, which may change the configuration, empties the caches), without repetitions; a
login that led to a session is spent, that is, its code is redeemed or its id is in no
cache. `CallbackOK`: a callback that has passed its checks answers the transaction of
its own browser, and one for a spent login cannot pass them. The proof first shows what
a step may do to the logins (nothing but their progress), to the calls (`CallCases`) and
to the caches (`CacheStep`), and then takes the callbacks one statement at a time
(`CallMoves`). The lemmas on `Save` and `Forget` use sequences and cardinality only, so
that the cache's limit is any positive number.

`SignOnOutcomeProofs`

| Theorem | Property |
|---|---|
| `VettedOnly` | `OnlyVettedProvidersUsed` |
| `Remembered` | `RecentLoginsRemembered` |
| `RefusedForAReason` | `RefusedOnlyIfDisturbed` |

Each rests on an invariant that is inductive beside the one above. `VetOK`: a client, and
a handler on its way to a provider, belong to the environment of this start; and an
environment with which the gateway starts is vetted, which is a lemma about the checks of
`ProviderRegistry`. `OrderOK` (theorem `CachesInOrder`): the ids in a cache are in saving
order, the id of a logout is in the cache of the provider it went to. Saving prunes a
beginning of the cache (ids grow old in the order they came) and drops one more id only
from a full cache; so an id that is gone had `CacheMax` newer ones behind it, which is a
count of a set (`Newer`) against the length of a sequence. `HarmlessOK` (theorem
`Harmless`): a login that nothing disturbed keeps its transaction cookie while its answer
is awaited, is configured as it was, has one callback, and its code or id is used by
nobody else. A callback is refused because one of these fails, which disturbed the login,
or because its id is not in the cache, which `Remembered` explains.

`FrontAuthProofs`

| Theorem | Property |
|---|---|
| `TypeCorrect` | `TypeOK` |
| `InStep` | `FrontInStep` |
| `NotExpelled` | `ExpelledOnlyIfDisturbed` |
| `LogoutsAreNotForgotten` | the safety half of `LogoutCleans` |

The properties speak of a page at rest; the invariant says what is in flight. `Basis`
holds whatever happens: an initialized service has a token, a page that loads has its
guard's request, a login that succeeds brings a token, and no generation of a cookie
exceeds the number of sends (for the types). `Quiet` holds until something disturbs the
page: every request it waits for left with the token and the cookie the page still has,
an answer that changes the cookie is alone in flight, a token goes with a good cookie,
and a page with a good cookie and no token is asking for one. A 401 then means that the
cookie is gone or its session over, so the logout that follows ends nothing good.

`DbConnectorProofs`

| Theorem | Property |
|---|---|
| `TypeCorrect` | `TypeOK` |
| `OverlapBounded` | `AttemptsBounded` |
| `NoRetryAfterStartUp` | a failed start-up is final: why `RetriesContinue` is violated |
| `TimerIsKept` | the safety half of `CheckedForEver` |

`AttemptsBounded` bounds how many loops overlap although no variable knows when a loop
began. The invariant (theorem `AgesInOrder`) reads an age off a callback: `Spent` is the
longest that can have passed since its check, given its attempt and the time it has left.
A callback with k younger ones behind it has been there for k turns of the timer and for
what has passed of this one (`Checking`). No callback is older than `LongestLoop`, so the
oldest cannot have more than `LongestLoop \div Period` behind it. There is one timer for
checks at most, and `TimerIsKept` follows.

`Grown` and `LatestStart` are recursive functions. Their equations are proved (`Recursion`:
a definition by recursion on the numbers has a solution) and so is that `LatestStart`
grows. The library's induction theorems take an operator and cannot be used; here a set
of numbers takes its place (`AllNumbers`: a set that holds 0 and each successor of its
members holds every number, since its complement would have a smallest member).

Only model-checked: liveness, which is outside the proof system's reach
(`EveryRequestEnds`, `EveryRequestAnswered`, `LogoutCleans`, `CheckedForEver`). Where
something could wait for ever, the theorems above prove the part that is safety: that
what is waited for is there.

## 5. Plan

In this order, most important behaviour first. Steps 1 to 9 are done.

1. `RefreshTokenFamily` with `SessionLineage` and its proofs.
2. `GatewaySessions`, composing it with a browser.
3. `UserAdmin` and its proofs.
4. `FederatedIdentity` and its proofs.
5. `ProviderRegistry` and `FederatedSignIn` with its proofs.
6. `FrontAuth`.
7. `DbConnector`.
8. Proofs about `FederatedIdentity`, `FederatedSignIn`, `DbConnector` and, on top of
   `RefreshTokenFamilyProofs`, `GatewaySessions`.
9. Proofs of the safety properties that were only checked: `FrontAuth`, the outcomes of
   `FederatedSignIn`, the bound on the connector's loops; and of what liveness rests on.
10. `AccessRules`: internal scopes and the mapping of groups to permissions as
    operators checked against reference definitions.

## 6. Not modelled

The cryptography of tokens (a token that verifies is one the gateway signed),
the bytes of cookies and headers, bcrypt, the text of answers, pagination and
all reads that only format rows, the proxy's forwarding, the user interface and
the deployment files. The rate limiters count inside their library; a refusal by
one is among the lost requests of `FrontAuth`. The internal authentication library
decides on a signed token without any state of its own. The identity providers,
`openid-client` and `node-saml` are modelled only by what the gateway hands them
and does with their answers.
