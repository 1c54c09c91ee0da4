--------------------------- MODULE FederatedSignIn ---------------------------
(***************************************************************************)
(* The gateway's federated sign-in and sign-out: OIDC code flow and SAML    *)
(* POST flow, from the browser's click to the session cookie.               *)
(*                                                                          *)
(* A login attempt is a number, in starting order; it stands for the state, *)
(* nonce and PKCE verifier (OIDC) or the AuthnRequest id (SAML) minted for  *)
(* it, and for the transaction cookie that carries them. The identity       *)
(* provider, the api and the SAML library are external: they answer, refuse *)
(* or fail. A response reaches its browser with the handler's last step or  *)
(* is lost.                                                                 *)
(***************************************************************************)
EXTENDS ProviderRegistry, SequencesExt

CONSTANTS
  Browsers,
  Envs,               \* name -> environment the gateway may be started with
  SigningKey,         \* issuer -> key: identity providers may share one
  MaxLogins, MaxCalls, MaxFaults,  \* bounds of the exploration
  CacheMax,           \* REQUEST_CACHE_MAX_ENTRIES
  None

ASSUME BoundsAssumption ==
  /\ MaxLogins \in Nat /\ MaxCalls \in Nat /\ MaxFaults \in Nat
  /\ CacheMax \in Nat \ {0}
  /\ None \notin 1..MaxLogins

\* An environment is what ProviderRegistry says: its declarations are a sequence. Only a
\* SAML provider is declared with a logout URL; an OIDC provider publishes its own.
ASSUME EnvironmentsAssumption ==
  \A e \in DOMAIN Envs :
    LET ds == Envs[e].declared
    IN  /\ Envs[e].insecure \in BOOLEAN
        /\ ds \in Seq(Range(ds))
        /\ \A i \in DOMAIN ds : ds[i].protocol = "oidc" => ds[i].logout = <<>>

VARIABLES
  env,       \* the environment of the last start; the gateway is up if it boots
  clients,   \* discovery.ts clientCache: OIDC providers whose client is built
  cache,     \* saml-client.ts requestCaches: per provider, ids in saving order
  old,       \* logins up to this one are older than REQUEST_ID_TTL_MS
  logins,    \* sequence of login attempts
  calls,     \* sequence of callback and logout requests
  jar,       \* per browser: transaction, session and logout-hint cookies
  redeemed,  \* codes the identity providers have exchanged
  disturbed, \* history: logins something happened to that may end them
  renewals,  \* answers to refresh requests on their way: the session they renew
  parted,    \* history: logins whose session and hint may have come apart
  faults

refreshVars == <<renewals, parted>>
vars == <<env, clients, cache, old, logins, calls, jar, redeemed, disturbed, refreshVars, faults>>
--------------------------------------------------------------------------------
\* The registries of every environment that boots, built once per process: a set
\* of [env, protocol, id, config].
Bootable == UNION {IF Boots(Envs[e]) THEN {e} ELSE {} : e \in DOMAIN Envs}
Declarations == {x \in Bootable \X Protocols \X DOMAIN Lower :
                   Lower[x[3]] \in DOMAIN Registry(Envs[x[1]], x[2])}
Entries == {[env |-> x[1], protocol |-> x[2], id |-> Lower[x[3]],
             config |-> Registry(Envs[x[1]], x[2])[Lower[x[3]]]] : x \in Declarations}
ProviderIds == {r.id : r \in Entries}
Issuers == DOMAIN SigningKey

\* Every issuer that is configured signs with some key.
ASSUME IssuersAssumption == \A r \in Entries : r.config.issuer \in Issuers

\* getProviderConfig and getSamlProviderConfig answer for these ids.
Up == env \in Bootable
Served(q) == {r.id : r \in {r \in Entries : r.env = env /\ r.protocol = q}}
\* listPublicProviders: what the login page may offer.
PublicProviders == {r.id : r \in {r \in Entries : r.env = env}}
\* getFederatedProvider: the OIDC registry is asked first.
ProtocolOf(p) == IF p \in Served("oidc") THEN "oidc" ELSE "saml"
Config(p) == (CHOOSE r \in Entries : r.env = env /\ r.id = p /\ r.protocol = ProtocolOf(p)).config
LoginIds == DOMAIN logins

Jar == [oidc : LoginIds \cup {None}, saml : LoginIds \cup {None},
        session : LoginIds \cup {None}, via : Issuers \cup {None},
        oidcHint : LoginIds \cup {None}, samlHint : LoginIds \cup {None}]
EmptyJar == [oidc |-> None, saml |-> None, session |-> None, via |-> None,
             oidcHint |-> None, samlHint |-> None]

\* saved: its id was saved by the running process; taken: a callback consumed the
\* id; used: a session was recorded for its answer (the last two are history).
Login == [browser : Browsers, provider : ProviderIds, protocol : Protocols,
          issuer : Issuers, step : {"discover", "answer", "asked", "over"},
          saved : BOOLEAN, taken : BOOLEAN, used : BOOLEAN]

\* A callback answers login `login` at provider path `at`, with an answer that
\* issuer `issuer` gave; a logout has neither. saved: how many logins had begun when
\* the id of the logout's own request was saved, 0 if it sent none.
Call == [browser : Browsers, kind : Protocols \cup {"logout"},
         login : LoginIds \cup {None}, at : ProviderIds \cup {None},
         issuer : Issuers \cup {None}, tx : LoginIds \cup {None},
         replay : BOOLEAN, saved : 0..MaxLogins,
         pc : {"client", "exchange", "validate", "consume", "resolve", "record",
               "accepted", "refused", "revoke", "idp", "leave", "done"}]

\* What a refresh answer brings: the session of the cookie it was asked with.
Renewal == [browser : Browsers, session : LoginIds, via : Issuers]

TypeOK ==
  /\ env \in DOMAIN Envs
  /\ clients \subseteq ProviderIds
  /\ cache \in [ProviderIds -> Seq(1..(MaxLogins + Len(calls)))]
  /\ \A p \in ProviderIds : Len(cache[p]) <= CacheMax
  /\ old \in 0..Len(logins)
  /\ logins \in Seq(Login)
  /\ calls \in Seq(Call)
  /\ jar \in [Browsers -> Jar]
  /\ redeemed \subseteq LoginIds
  /\ disturbed \subseteq LoginIds
  /\ renewals \subseteq Renewal
  /\ parted \subseteq LoginIds
  /\ faults \in 0..MaxFaults

Init ==
  /\ env \in DOMAIN Envs
  /\ clients = {}
  /\ cache = [p \in ProviderIds |-> <<>>]
  /\ old = 0
  /\ logins = <<>>
  /\ calls = <<>>
  /\ jar = [b \in Browsers |-> EmptyJar]
  /\ redeemed = {}
  /\ disturbed = {}
  /\ renewals = {}
  /\ parted = {}
  /\ faults = 0
--------------------------------------------------------------------------------
Disturb(L) == disturbed' = disturbed \cup L
Fault == faults < MaxFaults /\ faults' = faults + 1

\* Other attempts of the browser that use the same transaction cookie.
SameCookie(b, protocol) ==
  {k \in LoginIds : logins[k].browser = b /\ logins[k].protocol = protocol}

\* mutant of CacheOf: the providers share one cache.
CacheShared(p) == CHOOSE q \in ProviderIds : TRUE

\* cacheFor: every provider has a cache of its own.
CacheOf(p) == p

\* The id of logout request c is MaxLogins + c; that of a login is the login.
IdTooOld(k) == IF k <= MaxLogins THEN k <= old ELSE calls[k - MaxLogins].saved < old

\* pruneExpired. The cache is in saving order: the ids that are too old come first.
Prune(q) == SubSeq(q, 1 + Cardinality({i \in DOMAIN q : IdTooOld(q[i])}), Len(q))

\* mutant of Save: the limit is met one id too late.
SaveOneMore(q, l) ==
  LET live == Prune(q)
  IN  Append(IF Len(live) > CacheMax THEN Tail(live) ELSE live, l)

\* saveAsync: prune what is too old, make room by dropping the oldest, append.
Save(q, l) ==
  LET live == Prune(q)
  IN  Append(IF Len(live) >= CacheMax THEN Tail(live) ELSE live, l)

\* mutant of Forget: a response that was accepted leaves its id in the cache.
ForgetNothing(q, l) == q

\* removeAsync. No id is saved twice.
Forget(q, l) ==
  IF Contains(q, l) THEN RemoveAt(q, CHOOSE i \in DOMAIN q : q[i] = l) ELSE q

\* getAsync finds the id and it is not too old.
Knows(q, l) == Contains(q, l) /\ ~IdTooOld(l)
--------------------------------------------------------------------------------
\* GET /sso/:provider/login. SAML mints the id and saves it before it first
\* waits; OIDC first needs the provider's client.
StartLogin(b, p) ==
  LET l == Len(logins) + 1
      saml == ProtocolOf(p) = "saml"
  IN  /\ Up /\ p \in PublicProviders /\ l <= MaxLogins
      /\ logins' = Append(logins,
           [browser |-> b, provider |-> p, protocol |-> ProtocolOf(p),
            issuer |-> Config(p).issuer,
            step |-> IF saml THEN "answer" ELSE "discover",
            saved |-> saml, taken |-> FALSE, used |-> FALSE])
      /\ cache' = IF saml THEN [cache EXCEPT ![CacheOf(p)] = Save(@, l)] ELSE cache
      /\ UNCHANGED <<env, clients, old, calls, jar, redeemed, disturbed, faults, refreshVars>>

\* getClient in the login handler returns, from its cache or after discovery.
Discovered(l) ==
  /\ logins[l].step = "discover"
  /\ clients' = clients \cup {logins[l].provider}
  /\ logins' = [logins EXCEPT ![l].step = "answer"]
  /\ UNCHANGED <<env, cache, old, calls, jar, redeemed, disturbed, faults, refreshVars>>

\* The cookie replaces the one of an earlier attempt with the same protocol.
SetTransaction(j, protocol, l) == [j EXCEPT ![protocol] = l]

\* The redirect to the identity provider arrives with the transaction cookie.
LoginAnswered(l) ==
  LET b == logins[l].browser
  IN  /\ logins[l].step = "answer"
      /\ logins' = [logins EXCEPT ![l].step = "asked"]
      /\ jar' = [jar EXCEPT ![b] = SetTransaction(@, logins[l].protocol, l)]
      /\ Disturb(SameCookie(b, logins[l].protocol) \ {l})
      /\ UNCHANGED <<env, clients, cache, old, calls, redeemed, faults, refreshVars>>

\* Discovery fails (error redirect, nothing is remembered of the failure), or
\* the answer of the login request is lost on its way.
LoginFails(l) ==
  /\ logins[l].step \in {"discover", "answer"}
  /\ Fault
  /\ logins' = [logins EXCEPT ![l].step = "over"]
  /\ UNCHANGED <<env, clients, cache, old, calls, jar, redeemed, disturbed, refreshVars>>
--------------------------------------------------------------------------------
\* The transaction of the browser that calls; None once it has expired.
ReadTransaction(b, protocol) == jar[b][protocol]

\* The browser brings the identity provider's answer to login l to a callback.
\* It may be the wrong browser, another provider's path, the answer of another
\* issuer, or an answer brought before: each counts as a fault. A path that
\* names no provider of the route's protocol is answered 404 and changes nothing.
CallbackFirstStep(protocol, tx, p) ==
  IF tx = None \/ logins[tx].provider # p THEN "refused"
  ELSE IF protocol = "oidc" THEN "client" ELSE "validate"

Callback(b, l, p, i) ==
  LET protocol == logins[l].protocol
      tx == ReadTransaction(b, protocol)
      strange == \/ b # logins[l].browser \/ p # logins[l].provider
                 \/ i # logins[l].issuer
                 \/ \E c \in DOMAIN calls : calls[c].kind # "logout" /\ calls[c].login = l
  IN  /\ Up /\ Len(calls) < MaxCalls
      /\ logins[l].step = "asked"
      /\ p \in Served(protocol)
      /\ protocol = "oidc" => i = logins[l].issuer
      /\ IF strange THEN Fault /\ Disturb({l}) ELSE UNCHANGED <<faults, disturbed>>
      /\ calls' = Append(calls,
           [browser |-> b, kind |-> protocol, login |-> l, at |-> p, issuer |-> i,
            tx |-> tx, replay |-> logins[l].used, saved |-> 0,
            pc |-> CallbackFirstStep(protocol, tx, p)])
      /\ UNCHANGED <<env, clients, cache, old, logins, jar, redeemed, refreshVars>>

At(c, pc) == calls[c].pc = pc
Goto(c, pc) == calls' = [calls EXCEPT ![c].pc = pc]
\* What nothing looks at again is forgotten.
Finished(call) == [call EXCEPT !.pc = "done", !.tx = None, !.issuer = None, !.replay = FALSE]
Finish(c) == calls' = [calls EXCEPT ![c] = Finished(@)]

\* getClient in the OIDC callback.
CallbackClient(c) ==
  /\ At(c, "client")
  /\ clients' = clients \cup {calls[c].at}
  /\ Goto(c, "exchange")
  /\ UNCHANGED <<env, cache, old, logins, jar, redeemed, disturbed, faults, refreshVars>>

\* client.callback compares the state with the cookie's before it sends the code.
StateMatches(c) == calls[c].login = calls[c].tx

\* The code goes to the provider of the path, which redeems its own codes once.
Exchange(c) ==
  LET l == calls[c].login
      granted == /\ logins[l].issuer = Config(calls[c].at).issuer
                 /\ l \notin redeemed
  IN  /\ At(c, "exchange")
      /\ IF StateMatches(c)
         THEN /\ redeemed' = redeemed \cup (IF granted THEN {l} ELSE {})
              /\ Goto(c, IF granted THEN "resolve" ELSE "refused")
         ELSE Goto(c, "refused") /\ UNCHANGED redeemed
      /\ UNCHANGED <<env, clients, cache, old, logins, jar, disturbed, faults, refreshVars>>

\* validatePostResponseAsync first looks InResponseTo up in the path's cache.
Validate(c) ==
  /\ At(c, "validate")
  /\ Goto(c, IF Knows(cache[CacheOf(calls[c].at)], calls[c].login) THEN "consume" ELSE "refused")
  /\ UNCHANGED <<env, clients, cache, old, logins, jar, redeemed, disturbed, faults, refreshVars>>

\* mutant of IssuerPinned: the signature alone vouches for the issuer.
IssuerUnpinned(c) == TRUE

\* The response's issuer is the one the registry names.
IssuerPinned(c) == calls[c].issuer = Config(calls[c].at).issuer

\* Then it checks the signature against the pinned certificates and removes the
\* id, whatever the outcome; the controller compares issuer and InResponseTo.
Consume(c) ==
  LET l == calls[c].login
      p == calls[c].at
      signed == SigningKey[calls[c].issuer] = SigningKey[Config(p).issuer]
  IN  /\ At(c, "consume")
      /\ cache' = [cache EXCEPT ![CacheOf(p)] = Forget(@, l)]
      /\ logins' = [logins EXCEPT ![l].taken = TRUE]
      /\ Goto(c, IF signed /\ IssuerPinned(c) /\ l = calls[c].tx
                 THEN "resolve" ELSE "refused")
      /\ UNCHANGED <<env, clients, old, jar, redeemed, disturbed, faults, refreshVars>>

\* The api resolves the identity to a user.
Resolve(c) ==
  /\ At(c, "resolve")
  /\ Goto(c, "record")
  /\ UNCHANGED <<env, clients, cache, old, logins, jar, redeemed, disturbed, faults, refreshVars>>

\* respondWithTokens: the api records the refresh token, then the cookie is set.
Record(c) ==
  /\ At(c, "record")
  /\ Goto(c, "accepted")
  /\ logins' = [logins EXCEPT ![calls[c].login].used = TRUE]
  /\ UNCHANGED <<env, clients, cache, old, jar, redeemed, disturbed, faults, refreshVars>>

\* Discovery, the token endpoint, the checks on the assertion (Status, dates,
\* NameID format, e-mail and its domain) or the api fail the callback.
CallbackFails(c) ==
  /\ calls[c].pc \in {"client", "exchange", "consume", "resolve", "record"}
  /\ Fault
  /\ Disturb({calls[c].login})
  /\ Goto(c, "refused")
  /\ IF At(c, "consume")
     THEN /\ cache' = [cache EXCEPT ![CacheOf(calls[c].at)] = Forget(@, calls[c].login)]
          /\ logins' = [logins EXCEPT ![calls[c].login].taken = TRUE]
     ELSE UNCHANGED <<cache, logins>>
  /\ UNCHANGED <<env, clients, old, jar, redeemed, refreshVars>>

HintOf == [oidc |-> "oidcHint", saml |-> "samlHint"]

\* The hint a logout needs to end the session at the provider too.
SetHint(j, protocol, l) == [j EXCEPT ![HintOf[protocol]] = l]

\* mutant of Granted: the SAML hint goes into its twin's cookie.
GrantedTwinHint(j, c) ==
  LET l == calls[c].login
  IN  SetHint([j EXCEPT !.session = l, !.via = calls[c].issuer], "oidc", l)

\* The cookies of an accepted answer: the session and the protocol's hint.
Granted(j, c) ==
  LET l == calls[c].login
  IN  SetHint([j EXCEPT !.session = l, !.via = calls[c].issuer], calls[c].kind, l)

\* mutant of ClearTransaction: the cookies of both protocols go.
ClearTransactions(j, protocol) == [j EXCEPT !.oidc = None, !.saml = None]

\* The transaction cookie is cleared, whichever attempt it belongs to by now.
ClearTransaction(j, protocol) == [j EXCEPT ![protocol] = None]

\* The answer of a callback arrives.
CallbackAnswered(c) ==
  LET b == calls[c].browser
      j == ClearTransaction(jar[b], calls[c].kind)
  IN  /\ calls[c].pc \in {"accepted", "refused"}
      /\ jar' = [jar EXCEPT ![b] = IF At(c, "accepted") THEN Granted(j, c) ELSE j]
      /\ Finish(c)
      /\ Disturb(SameCookie(b, calls[c].kind))
      /\ UNCHANGED <<env, clients, cache, old, logins, redeemed, faults, refreshVars>>
--------------------------------------------------------------------------------
ClearHints(j, protocols) ==
  [k \in DOMAIN j |-> IF k \in {HintOf[q] : q \in protocols} THEN None ELSE j[k]]
EndSession(j) == [j EXCEPT !.session = None, !.via = None]

\* GET /sso/logout, with the hints of the browser. The family is revoked first.
Logout(b) ==
  /\ Up /\ Len(calls) < MaxCalls
  /\ calls' = Append(calls,
       [browser |-> b, kind |-> "logout", login |-> jar[b].oidcHint, at |-> None,
        issuer |-> None, tx |-> jar[b].samlHint, replay |-> FALSE, saved |-> 0,
        pc |-> "revoke"])
  /\ UNCHANGED <<env, clients, cache, old, logins, jar, redeemed, disturbed, faults, refreshVars>>

\* A hint names a provider that is still served with the hint's protocol.
Servable(l, protocol) == l # None /\ logins[l].provider \in Served(protocol)

\* sloRedirectUrl: the SAML hint's provider, if it has a logout URL.
SloProvider(c) ==
  LET l == calls[c].tx
  IN  IF Servable(l, "saml") /\ Config(logins[l].provider).logout # <<>>
      THEN logins[l].provider ELSE None

\* sloRedirectUrl. The library saves the id of the LogoutRequest beside those of the
\* logins, in the same bounded cache.
SloRedirect(c) ==
  LET p == SloProvider(c)
  IN  /\ calls' = [calls EXCEPT ![c].pc = "leave", ![c].at = p,
                                ![c].saved = IF p = None THEN 0 ELSE Len(logins)]
      /\ cache' = IF p = None THEN cache
                  ELSE [cache EXCEPT ![CacheOf(p)] = Save(@, MaxLogins + c)]

\* The api call returned or failed. An OIDC hint comes first and needs a client.
LogoutRevoked(c) ==
  /\ At(c, "revoke")
  /\ IF Servable(calls[c].login, "oidc") THEN Goto(c, "idp") /\ UNCHANGED cache
     ELSE SloRedirect(c)
  /\ UNCHANGED <<env, clients, old, logins, jar, redeemed, disturbed, faults, refreshVars>>

\* getClient returns and the provider has an end_session endpoint.
LogoutClient(c) ==
  LET p == logins[calls[c].login].provider
  IN  /\ At(c, "idp")
      /\ clients' = clients \cup {p}
      /\ calls' = [calls EXCEPT ![c].pc = "leave", ![c].at = p]
      /\ UNCHANGED <<env, cache, old, logins, jar, redeemed, disturbed, faults, refreshVars>>

\* The provider cannot be reached or has no end_session endpoint.
LogoutNoClient(c) ==
  /\ At(c, "idp")
  /\ Fault
  /\ SloRedirect(c)
  /\ UNCHANGED <<env, clients, old, logins, jar, redeemed, disturbed, refreshVars>>

\* The redirect arrives, without session and without hints.
LogoutAnswered(c) ==
  /\ At(c, "leave")
  /\ jar' = [jar EXCEPT ![calls[c].browser] = ClearHints(EndSession(@), Protocols)]
  /\ Finish(c)
  /\ UNCHANGED <<env, clients, cache, old, logins, redeemed, disturbed, faults, refreshVars>>

\* GET or POST /sso/:provider/logout/callback: the provider's answer to a logout, at
\* worst the answer to a login that was brought here. Nothing happens but that the
\* library removes the id it answers, which it may also leave there.
LogoutCallback(p, k) ==
  /\ Up /\ p \in Served("saml") /\ Knows(cache[CacheOf(p)], k)
  /\ cache' = [cache EXCEPT ![CacheOf(p)] = Forget(@, k)]
  /\ IF k \in LoginIds
     THEN Fault /\ Disturb({k}) /\ logins[k].step = "asked" /\ logins' = [logins EXCEPT ![k].taken = TRUE]
     ELSE UNCHANGED <<logins, disturbed, faults>> /\ At(k - MaxLogins, "done")
  /\ UNCHANGED <<env, clients, old, calls, jar, redeemed, refreshVars>>

\* POST /logout of the SPA: the SAML hint stays.
PlainLogout(b) ==
  /\ Up /\ jar[b].session # None
  /\ jar' = [jar EXCEPT ![b] = ClearHints(EndSession(@), {"oidc"})]
  /\ UNCHANGED <<env, clients, cache, old, logins, calls, redeemed, disturbed, faults, refreshVars>>
--------------------------------------------------------------------------------
\* refreshAndContinue: a request whose access token has expired rotates the session.
\* Browser b may send several at once; equal answers are one.
Refresh(b) ==
  /\ Up /\ jar[b].session # None
  /\ renewals' = renewals \cup
       {[browser |-> b, session |-> jar[b].session, via |-> jar[b].via]}
  /\ UNCHANGED <<env, clients, cache, old, logins, calls, jar, redeemed, disturbed, parted,
                 faults>>

\* The session as it was when the request was sent; no hint comes with it.
Renewed(j, r) == [j EXCEPT !.session = r.session, !.via = r.via]

\* The answer sets the session cookie, whatever logout or sign-in it comes after. One
\* that is lost changes no cookie: it stays on its way for ever.
RefreshAnswered(r) ==
  /\ renewals' = renewals \ {r}
  /\ jar' = [jar EXCEPT ![r.browser] = Renewed(@, r)]
  /\ IF jar[r.browser].session = r.session THEN UNCHANGED <<parted, faults>>
     ELSE Fault /\ parted' = parted \cup {r.session}
  /\ UNCHANGED <<env, clients, cache, old, logins, calls, redeemed, disturbed>>

\* The api rejects it or fails: the session cookie goes, whichever it is by now.
RefreshRejected(r) ==
  /\ renewals' = renewals \ {r}
  /\ jar' = [jar EXCEPT ![r.browser] = EndSession(@)]
  /\ UNCHANGED <<env, clients, cache, old, logins, calls, redeemed, disturbed, parted, faults>>

\* Eight hours pass since browser b got a hint. A session that was never renewed
\* ends with it, another goes on; the login's request id is long gone.
HintExpires(b, protocol) ==
  LET l == jar[b][HintOf[protocol]]
      j == ClearHints(jar[b], {protocol})
  IN  /\ l # None /\ l <= old
      /\ parted' = parted \cup {l}
      /\ \/ jar' = [jar EXCEPT ![b] = j]
         \/ jar[b].session = l /\ jar' = [jar EXCEPT ![b] = EndSession(j)]
      /\ UNCHANGED <<env, clients, cache, old, logins, calls, redeemed, disturbed, renewals,
                     faults>>
--------------------------------------------------------------------------------
\* The answer of a callback or of a logout is lost.
AnswerLost(c) ==
  /\ calls[c].pc \in {"accepted", "refused", "leave"}
  /\ Fault
  /\ Finish(c)
  /\ UNCHANGED <<env, clients, cache, old, logins, jar, redeemed, disturbed, refreshVars>>

\* Five minutes pass since login l began: the transaction cookies up to it expire.
CookiesExpire(l) ==
  /\ Fault
  /\ \E b \in Browsers : \E q \in Protocols : jar[b][q] \in 1..l
  /\ jar' = [b \in Browsers |->
       [k \in DOMAIN jar[b] |-> IF k \in Protocols /\ jar[b][k] \in 1..l THEN None
                                ELSE jar[b][k]]]
  /\ Disturb(1..l)
  /\ UNCHANGED <<env, clients, cache, old, logins, calls, redeemed, refreshVars>>

\* Ten minutes pass since login l began.
IdsExpire(l) ==
  /\ Fault
  /\ old < l /\ old' = l
  /\ \A b \in Browsers, q \in Protocols : jar[b][q] \notin 1..l
  /\ Disturb(1..l)
  /\ UNCHANGED <<env, clients, cache, logins, calls, jar, redeemed, refreshVars>>

\* The gateway restarts, perhaps with another environment: what it had in memory
\* and the requests in progress are gone, the cookies are not. Starts that fail
\* before one that does not are part of the step: nothing is served meanwhile.
Restart(e) ==
  /\ Fault
  /\ env' = e
  /\ clients' = {}
  /\ cache' = [p \in ProviderIds |-> <<>>]
  /\ logins' = [l \in LoginIds |->
       [logins[l] EXCEPT !.saved = FALSE, !.step = IF @ = "asked" THEN @ ELSE "over"]]
  /\ calls' = [c \in DOMAIN calls |-> Finished(calls[c])]
  /\ Disturb(LoginIds)
  /\ UNCHANGED <<old, jar, redeemed, refreshVars>>

LoginStep ==
  \/ \E b \in Browsers, p \in ProviderIds : StartLogin(b, p)
  \/ \E l \in LoginIds : Discovered(l) \/ LoginAnswered(l) \/ LoginFails(l)

CallbackStep ==
  \/ \E b \in Browsers, l \in LoginIds, p \in ProviderIds, i \in Issuers :
       Callback(b, l, p, i)
  \/ \E c \in DOMAIN calls :
       \/ CallbackClient(c) \/ Exchange(c) \/ Validate(c) \/ Consume(c)
       \/ Resolve(c) \/ Record(c) \/ CallbackFails(c) \/ CallbackAnswered(c)

LogoutStep ==
  \/ \E b \in Browsers : Logout(b) \/ PlainLogout(b)
  \/ \E p \in ProviderIds, k \in 1..(MaxLogins + MaxCalls) : LogoutCallback(p, k)
  \/ \E c \in DOMAIN calls :
       LogoutRevoked(c) \/ LogoutClient(c) \/ LogoutNoClient(c) \/ LogoutAnswered(c)

SessionStep ==
  \/ \E b \in Browsers : Refresh(b)
  \/ \E r \in renewals : RefreshAnswered(r) \/ RefreshRejected(r)
  \/ \E b \in Browsers, q \in Protocols : HintExpires(b, q)

Adversity ==
  \/ \E c \in DOMAIN calls : AnswerLost(c)
  \/ \E l \in LoginIds : CookiesExpire(l) \/ IdsExpire(l)
  \/ \E e \in Bootable : Restart(e)

Next == LoginStep \/ CallbackStep \/ LogoutStep \/ SessionStep \/ Adversity

Spec == Init /\ [][Next]_vars
--------------------------------------------------------------------------------
\* Whoever is signed in finished a login it began itself, with an answer of the
\* provider that login was begun with: neither another browser's attempt, nor
\* another provider's callback, nor an issuer that shares a signing key gets a
\* session (sso.controller callback, saml.controller callback).
CompletesOwnLogin ==
  \A b \in Browsers : jar[b].session # None =>
    LET l == jar[b].session
    IN  logins[l].browser = b /\ logins[l].issuer = jar[b].via

\* An answer that comes once more after it led to a session never reaches the
\* api again: not in another tab before the first response arrives, not when
\* that response was lost and the cookie is still there, not after a restart.
ReplayRefused ==
  \A c \in DOMAIN calls :
    calls[c].replay => calls[c].pc \notin {"resolve", "record", "accepted"}

\* The limit of the request-id cache costs a login its id only when CacheMax later
\* logins and single logouts with the same provider came in between
\* (BoundedCacheProvider).
Newer(l) ==
  LET p == logins[l].provider
  IN  {k \in LoginIds : k > l /\ logins[k].provider = p}
        \cup {MaxLogins + c : c \in {c \in DOMAIN calls :
                 calls[c].kind = "logout" /\ calls[c].at = p /\ calls[c].saved >= l}}
RecentLoginsRemembered ==
  \A l \in LoginIds :
    (/\ logins[l].saved /\ ~logins[l].taken /\ l > old
     /\ Cardinality(Newer(l)) < CacheMax)
    => Contains(cache[CacheOf(logins[l].provider)], l)

\* A callback refuses an answer only for a reason outside its login: another
\* attempt or callback of this browser with the same protocol, CacheMax later
\* logins and logouts, elapsed time, a restart, a failure of the provider or the api, or an
\* answer brought twice or to the wrong place. Attempts of other browsers and of
\* the other protocol do no harm.
RefusedOnlyIfDisturbed ==
  \A c \in DOMAIN calls : calls[c].pc = "refused" =>
    LET l == calls[c].login
    IN  l \in disturbed \/ Cardinality(Newer(l)) >= CacheMax

\* A session has its own logout hint beside it, whatever hints of earlier sessions and
\* late callback answers left there, unless one of two things parted them: the hint
\* lived its eight hours and the session was renewed (sso-logout.service.ts:19,
\* saml-logout.service.ts:21), or a refresh answer that came after a logout or another
\* sign-in brought the session back (auth.middleware.ts:78).
HintMatchesSession ==
  \A b \in Browsers : jar[b].session # None =>
    LET l == jar[b].session
    IN  l \in parted \/ jar[b][HintOf[logins[l].protocol]] = l

\* Every provider the running gateway serves, holds a client for or sends a
\* browser to at logout is of this start's environment: its id belongs to one
\* protocol, none of its URLs has a metadata host, and without the dev switch
\* none is plain http or private; hints of an earlier environment change nothing.
Vetted(url, insecure) ==
  /\ url.scheme \in (IF insecure THEN {"http", "https"} ELSE {"https"})
  /\ url.host \notin {Ip(169, 254), Ip(0, 0)}
  /\ insecure \/ url.host \notin {Ip(127, 0), Ip(10, 0), Ip(192, 168), Ip(172, 16),
                                  Named("localhost")}
VettedEnvs == {e \in DOMAIN Envs :
  /\ \A r \in Entries : r.env = e =>
       /\ Vetted(r.config.url, Envs[e].insecure)
       /\ r.config.logout # <<>> => Vetted(r.config.logout[1], Envs[e].insecure)
  /\ \A r, s \in Entries : r.env = e /\ s.env = e /\ r.id = s.id => r.protocol = s.protocol}
OnlyVettedProvidersUsed ==
  /\ Up => env \in VettedEnvs /\ clients \subseteq Served("oidc")
  /\ \A c \in DOMAIN calls : At(c, "leave") => calls[c].at \in PublicProviders \cup {None}
=============================================================================
