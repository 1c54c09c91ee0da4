-------------------------- MODULE SignOnOutcomeProofs --------------------------
(***************************************************************************)
(* What becomes of a sign-on, proved for every instance of FederatedSignIn: *)
(* the gateway uses only vetted providers (VetOK); the caches of request    *)
(* ids are in saving order, so that an id goes only when CacheMax newer     *)
(* ones came in (OrderOK); and a login that nothing disturbed keeps its     *)
(* cookie, its id and its one callback (HarmlessOK), so that an answer is   *)
(* refused only for a reason outside its login. Each invariant is inductive *)
(* together with IInv of FederatedSignInProofs.                             *)
(***************************************************************************)
EXTENDS FederatedSignInProofs, WellFoundedInduction

--------------------------------------------------------------------------------
\* Smallest and largest.

\* A set of natural numbers has a smallest.
LEMMA MinExists ==
  ASSUME NEW T, T \subseteq Nat, T # {}
  PROVE  \E x \in T : \A y \in T : x <= y
<1> DEFINE R == {p \in Nat \X Nat : p[1] < p[2]}
<1>1. R = OpToRel(<, Nat)
  BY DEF OpToRel
<1>2. IsWellFoundedOn(R, Nat)
  BY <1>1, NatLessThanWellFounded
<1>3. \A x, y \in Nat : x < y => <<x, y>> \in R
  OBVIOUS
<1> HIDE DEF R
<1>4. PICK x \in T : \A y \in T : <<y, x>> \notin R
  BY <1>2, WFMin
<1>5. \A y \in T : ~(y < x)
  BY <1>3, <1>4
<1> QED
  BY <1>4, <1>5

\* A set of positions has a last.
LEMMA MaxExists ==
  ASSUME NEW n \in Nat, NEW T, T \subseteq 1..n, T # {}
  PROVE  \E x \in T : \A y \in T : y <= x
<1> DEFINE U == {k \in Nat : n - k \in T}
<1>1. \A x \in T : n - x \in U /\ n - (n - x) = x
  OBVIOUS
<1>2. U \subseteq Nat /\ U # {}
  BY <1>1
<1>3. \A u \in U : n - u \in T
  OBVIOUS
<1> HIDE DEF U
<1>4. PICK u \in U : \A v \in U : u <= v
  BY <1>2, MinExists
<1>5. \A y \in T : y <= n - u
  <2> TAKE y \in T
  <2>1. u <= n - y /\ u \in Nat /\ y \in Nat
    BY <1>1, <1>2, <1>4
  <2> QED
    BY <2>1
<1> QED
  BY <1>3, <1>4, <1>5

--------------------------------------------------------------------------------
\* The registries.

\* An entry of a registry is a declaration of its environment, which has survived the
\* validation of its protocol.
LEMMA EntryDeclared ==
  ASSUME NEW r \in Entries
  PROVE  /\ r.env \in DOMAIN Envs /\ Boots(Envs[r.env]) /\ r.protocol \in Protocols
         /\ \E i \in Declared(Envs[r.env], r.protocol) :
              r.config = Envs[r.env].declared[i] /\ IdOf(r.config) = r.id
<1>1. PICK x \in Declarations :
        r = [env |-> x[1], protocol |-> x[2], id |-> Lower[x[3]],
             config |-> Registry(Envs[x[1]], x[2])[Lower[x[3]]]]
  BY DEF Entries
<1> DEFINE e == Envs[r.env]
           D == Declared(e, r.protocol)
           mine == {i \in D : IdOf(e.declared[i]) = r.id}
           Final(i) == /\ IdOf(e.declared[i]) = r.id
                      /\ \A j \in D : IdOf(e.declared[j]) = r.id => j <= i
<1>2. r.env \in Bootable /\ r.protocol \in Protocols /\ r.id \in DOMAIN Registry(e, r.protocol)
      /\ r.config = Registry(e, r.protocol)[r.id]
  BY <1>1 DEF Declarations
<1>3. r.env \in DOMAIN Envs /\ Boots(e)
  BY <1>2 DEF Bootable
<1>4. \E i \in D : IdOf(e.declared[i]) = r.id
  BY <1>2 DEF Registry
<1>5. PICK n \in Nat : DOMAIN e.declared = 1..n
  BY <1>3, EnvironmentsAssumption
<1>6. mine \subseteq 1..n /\ mine # {}
  BY <1>4, <1>5 DEF Declared
<1>7. PICK i \in mine : \A j \in mine : j <= i
  <2> HIDE DEF mine
  <2> QED
    BY <1>6, MaxExists
<1>8. i \in D /\ Final(i)
  BY <1>7
<1>9. (CHOOSE k \in D : Final(k)) \in D /\ Final(CHOOSE k \in D : Final(k))
  BY <1>8
<1>10. Registry(e, r.protocol)[r.id] = e.declared[CHOOSE k \in D : Final(k)]
  BY <1>4 DEF Registry
<1> QED
  BY <1>2, <1>3, <1>9, <1>10

\* assertSafeFederationUrl lets nothing through that is not vetted.
LEMMA SafeIsVetted ==
  ASSUME NEW url, NEW insecure \in BOOLEAN, SafeUrl(url, insecure)
  PROVE  Vetted(url, insecure)
<1>0. /\ \A x, y : Ip(x, y).kind = "ip" /\ Ip(x, y).a = x /\ Ip(x, y).b = y
      /\ \A n : Named(n).kind = "name" /\ Named(n).name = n
  BY DEF Ip, Named
<1>1. url.host \notin {Ip(169, 254), Ip(0, 0)}
  BY <1>0 DEF SafeUrl, IsAlwaysBlockedHost
<1>2. insecure \/ ~IsPrivateHost(url.host)
  BY DEF SafeUrl
<1>3. ~IsPrivateHost(url.host) =>
        url.host \notin {Ip(127, 0), Ip(10, 0), Ip(192, 168), Ip(172, 16), Named("localhost")}
  <2>1. \A h \in {Ip(127, 0), Ip(10, 0), Ip(192, 168), Ip(172, 16)} : IsPrivateHost(h)
    BY <1>0 DEF IsPrivateHost
  <2>2. IsPrivateHost(Named("localhost"))
    BY <1>0 DEF IsPrivateHost
  <2> QED
    BY <2>1, <2>2
<1>4. url.scheme \in (IF insecure THEN {"http", "https"} ELSE {"https"})
  BY DEF SafeUrl
<1> QED
  BY <1>1, <1>2, <1>3, <1>4 DEF Vetted

\* An environment the gateway boots with is vetted.
LEMMA BootableIsVetted == Bootable \subseteq VettedEnvs
<1> SUFFICES ASSUME NEW e \in Bootable PROVE e \in VettedEnvs
  OBVIOUS
<1>1. e \in DOMAIN Envs /\ Boots(Envs[e]) /\ Envs[e].insecure \in BOOLEAN
  BY EnvironmentsAssumption DEF Bootable
<1>2. ASSUME NEW r \in Entries, r.env = e
      PROVE  /\ Vetted(r.config.url, Envs[e].insecure)
             /\ r.config.logout # <<>> => Vetted(r.config.logout[1], Envs[e].insecure)
  <2>1. PICK i \in Declared(Envs[e], r.protocol) : r.config = Envs[e].declared[i]
    BY <1>2, EntryDeclared
  <2>2. i \in DOMAIN Envs[e].declared /\ r.config.protocol = r.protocol
    BY <2>1 DEF Declared
  <2>3. CASE r.protocol = "oidc"
    <3>1. ValidOidc(r.config, Envs[e].insecure)
      BY <1>1, <2>1, <2>2, <2>3 DEF Boots
    <3>2. r.config.logout = <<>>
      BY <1>1, <2>1, <2>2, <2>3, EnvironmentsAssumption
    <3> QED
      BY <1>1, <3>1, <3>2, SafeIsVetted DEF ValidOidc
  <2>4. CASE r.protocol = "saml"
    <3>1. ValidSaml(r.config, Envs[e])
      BY <1>1, <2>1, <2>2, <2>4 DEF Boots
    <3> QED
      BY <1>1, <3>1, SafeIsVetted DEF ValidSaml
  <2>5. r.protocol \in Protocols
    BY EntryDeclared
  <2> QED
    BY <2>3, <2>4, <2>5 DEF Protocols
<1>3. ASSUME NEW r \in Entries, NEW s \in Entries, r.env = e, s.env = e, r.id = s.id,
             r.protocol = "oidc", s.protocol = "saml"
      PROVE  FALSE
  <2>1. PICK i \in Declared(Envs[e], "oidc") : IdOf(Envs[e].declared[i]) = r.id
    BY <1>3, EntryDeclared
  <2>2. PICK j \in Declared(Envs[e], "saml") :
          s.config = Envs[e].declared[j] /\ IdOf(s.config) = s.id
    BY <1>3, EntryDeclared
  <2>3. ValidSaml(s.config, Envs[e])
    BY <1>1, <2>2 DEF Boots, Declared
  <2>4. Collides(s.config, Envs[e])
    BY <1>3, <2>1, <2>2 DEF Collides
  <2> QED
    BY <2>3, <2>4 DEF ValidSaml
<1>4. \A r, s \in Entries : r.env = e /\ s.env = e /\ r.id = s.id => r.protocol = s.protocol
  <2> SUFFICES ASSUME NEW r \in Entries, NEW s \in Entries, r.env = e, s.env = e, r.id = s.id
               PROVE  r.protocol = s.protocol
    OBVIOUS
  <2>1. r.protocol \in {"oidc", "saml"} /\ s.protocol \in {"oidc", "saml"}
    BY EntryDeclared DEF Protocols
  <2> QED
    BY <1>3, <2>1
<1> QED
  BY <1>1, <1>2, <1>4 DEF VettedEnvs

--------------------------------------------------------------------------------
\* What the running gateway uses.

\* A login waits for discovery, and a logout asks for a client, only of a provider this
\* start serves with OIDC; a logout leaves for a provider it serves, or for none.
VetCall(c) ==
  LET pc == calls[c].pc
  IN  /\ pc = "client" => calls[c].at \in Served("oidc")
      /\ pc = "idp" => calls[c].login \in LoginIds
                       /\ logins[calls[c].login].provider \in Served("oidc")
      /\ pc = "leave" => calls[c].at \in PublicProviders \cup {None}
VetOK ==
  /\ clients \subseteq Served("oidc")
  /\ \A l \in LoginIds : logins[l].step = "discover" => logins[l].provider \in Served("oidc")
  /\ \A c \in DOMAIN calls : VetCall(c)

\* While the gateway runs it serves the same providers.
LEMMA ServedKept ==
  ASSUME env' = env
  PROVE  /\ \A q : Served(q)' = Served(q)
         /\ PublicProviders' = PublicProviders
  BY DEF Served, PublicProviders

\* What is served with a protocol is offered.
LEMMA ServedIsPublic == ASSUME NEW q PROVE Served(q) \subseteq PublicProviders
  BY DEF Served, PublicProviders

\* Only a login that begins with OIDC comes to wait for discovery, and no restart leaves
\* one waiting.
LEMMA DiscoverStep ==
  ASSUME IInv, [Next]_vars, NEW l \in LoginIds', logins'[l].step = "discover"
  PROVE  /\ env' = env
         /\ \/ l \in LoginIds /\ logins[l].step = "discover"
            \/ logins'[l].provider \in Served("oidc")
<1> DEFINE Fine == /\ env' = env
                   /\ \/ l \in LoginIds /\ logins[l].step = "discover"
                      \/ logins'[l].provider \in Served("oidc")
<1>0. logins \in Seq(Login) /\ LoginIds = DOMAIN logins /\ \A k \in LoginIds : logins[k] \in Login
  BY LoginTyped DEF IInv, TypeOK, LoginIds
<1>1. ASSUME logins' = logins, env' = env PROVE Fine
  BY <1>1 DEF LoginIds
<1>2. ASSUME NEW b \in Browsers, NEW p \in ProviderIds, StartLogin(b, p) PROVE Fine
  <2>1. CASE l \in LoginIds
    BY <1>0, <1>2, <2>1 DEF StartLogin, LoginIds
  <2>2. CASE l \notin LoginIds
    <3>1. logins'[l].provider = p /\ (ProtocolOf(p) = "saml" => logins'[l].step = "answer")
      BY <1>0, <1>2, <2>2 DEF StartLogin, LoginIds
    <3>2. p \in Served("oidc")
      BY <3>1 DEF ProtocolOf
    <3> QED
      BY <1>2, <3>1, <3>2 DEF StartLogin
  <2> QED
    BY <2>1, <2>2
<1>3. ASSUME NEW k, NEW r \in Login,
             k \in LoginIds => (r.step = "discover" => logins[k].step = "discover"),
             logins' = [logins EXCEPT ![k] = r], env' = env
      PROVE  Fine
  BY <1>0, <1>3 DEF LoginIds
<1>4. ASSUME NEW k, NEW x \in {"answer", "asked", "over"}, env' = env,
             logins' = [logins EXCEPT ![k].step = x]
      PROVE  Fine
  <2>1. CASE k \notin LoginIds
    BY <1>0, <1>1, <1>4, <2>1
  <2>2. CASE k \in LoginIds
    <3> DEFINE r == [logins[k] EXCEPT !.step = x]
    <3>1. r \in Login /\ r.step = x
      BY <1>0, <2>2 DEF Login
    <3>2. logins' = [logins EXCEPT ![k] = r]
      BY <1>4
    <3> HIDE DEF r, Fine
    <3> QED
      BY <1>4, <3>1, <3>2, <1>3
  <2> QED
    BY <2>1, <2>2
<1>5. ASSUME NEW k, env' = env,
             \/ logins' = [logins EXCEPT ![k].taken = TRUE]
             \/ logins' = [logins EXCEPT ![k].used = TRUE]
      PROVE  Fine
  <2>1. CASE k \notin LoginIds
    BY <1>0, <1>1, <1>5, <2>1
  <2>2. CASE k \in LoginIds
    <3>1. PICK r : /\ r = [logins[k] EXCEPT !.taken = TRUE] \/ r = [logins[k] EXCEPT !.used = TRUE]
                   /\ logins' = [logins EXCEPT ![k] = r]
      BY <1>5
    <3>2. r \in Login /\ r.step = logins[k].step
      BY <1>0, <2>2, <3>1 DEF Login
    <3> HIDE DEF Fine
    <3> QED
      BY <1>5, <3>1, <3>2, <1>3
  <2> QED
    BY <2>1, <2>2
<1>6. ASSUME NEW e \in Bootable, Restart(e) PROVE FALSE
  <2>1. l \in LoginIds /\ logins'[l] = [logins[l] EXCEPT !.saved = FALSE,
                                                      !.step = IF @ = "asked" THEN @ ELSE "over"]
    BY <1>0, <1>6 DEF Restart, LoginIds
  <2>2. logins[l] \in Login
    BY <1>0, <2>1
  <2>3. logins'[l].step \in {"asked", "over"}
    BY <2>1, <2>2 DEF Login
  <2> QED
    BY <2>3
<1> HIDE DEF Fine
<1>7. Fine
  <2>1. CASE LoginStep \/ UNCHANGED vars
    BY <2>1, <1>1, <1>2, <1>4 DEF LoginStep, Discovered, LoginAnswered, LoginFails, vars
  <2>2. CASE CallbackStep
    BY <2>2, <1>1, <1>5 DEF CallbackStep, Callback, CallbackClient, Exchange, Validate,
                            Consume, Resolve, Record, CallbackFails, CallbackAnswered
  <2>3. CASE LogoutStep
    BY <2>3, <1>1, <1>5 DEF LogoutStep, Logout, PlainLogout, LogoutCallback, LogoutRevoked,
                            LogoutClient, LogoutNoClient, LogoutAnswered
  <2>4. CASE Adversity
    BY <2>4, <1>1, <1>6 DEF Adversity, AnswerLost, CookiesExpire, IdsExpire
  <2>5. CASE SessionStep
    BY <2>5, <1>1, SessionQuiet
  <2> QED
    BY <2>1, <2>2, <2>3, <2>4, <2>5 DEF Next
<1> QED
  BY <1>7 DEF Fine

\* The clients are built for what is served.
LEMMA ClientsStep ==
  ASSUME IInv, VetOK, [Next]_vars
  PROVE  clients' \subseteq Served("oidc")'
<1>1. ASSUME env' = env, NEW p \in Served("oidc"), clients' = clients \cup {p}
      PROVE  clients' \subseteq Served("oidc")'
  BY <1>1, ServedKept DEF VetOK
<1>2. ASSUME NEW l \in LoginIds, Discovered(l) PROVE clients' \subseteq Served("oidc")'
  BY <1>1, <1>2 DEF Discovered, VetOK
<1>3. ASSUME NEW c \in DOMAIN calls, CallbackClient(c) PROVE clients' \subseteq Served("oidc")'
  BY <1>1, <1>3 DEF CallbackClient, At, VetOK, VetCall
<1>4. ASSUME NEW c \in DOMAIN calls, LogoutClient(c) PROVE clients' \subseteq Served("oidc")'
  BY <1>1, <1>4 DEF LogoutClient, At, VetOK, VetCall
<1>5. CASE clients' = {}
  BY <1>5
<1>6. CASE clients' = clients /\ env' = env
  BY <1>6, ServedKept DEF VetOK
<1> QED
  BY <1>2, <1>3, <1>4, <1>5, <1>6, SessionQuiet
  DEF Next, LoginStep, CallbackStep, LogoutStep, Adversity, vars, StartLogin, LoginAnswered,
      LoginFails, Callback, Exchange, Validate, Consume, Resolve, Record, CallbackFails,
      CallbackAnswered, Logout, PlainLogout, LogoutCallback, LogoutRevoked, LogoutNoClient,
      LogoutAnswered, AnswerLost, CookiesExpire, IdsExpire, Restart

\* Calls keep to what is served.
LEMMA VetCallStep ==
  ASSUME IInv, VetOK, [Next]_vars, NEW d \in DOMAIN calls'
  PROVE  VetCall(d)'
<1>0. calls \in Seq(Call) /\ LoginsGrow /\ LoginIds \subseteq LoginIds' /\ LoginIds = DOMAIN logins
  BY LoginsStep, CallMono DEF IInv, TypeOK, LoginIds
<1>1. CASE d \in DOMAIN calls
  <2>0. calls[d] \in Call /\ VetCall(d)
    BY <1>0, <1>1 DEF VetOK
  <2>1. CASE calls'[d] = Finished(calls[d])
    <3>1. calls'[d].pc = "done"
      BY <2>0, <2>1 DEF Finished, Call
    <3> QED
      BY <3>1 DEF VetCall
  <2>2. CASE calls'[d] = calls[d] /\ env' = env
    <3>1. \A l \in LoginIds : logins'[l].provider = logins[l].provider
      BY <1>0 DEF LoginsGrow, Fixed
    <3> QED
      BY <1>0, <2>0, <2>2, <3>1, ServedKept DEF VetCall
  <2>3. CASE \E e \in Bootable : Restart(e)
    BY <1>0, <1>1, <2>1, <2>3 DEF Restart
  <2>4. CASE Moved(d)
    <3>1. env' = env
      BY <2>4 DEF Moved, CallbackClient, Exchange, Validate, Consume, Resolve, Record,
                  CallbackFails, LogoutRevoked, LogoutClient, LogoutNoClient
    <3>2. CASE \E x \in {"exchange", "consume", "resolve", "record", "accepted", "refused"} :
                 Goto(d, x)
      <4>1. calls'[d].pc \notin {"client", "idp", "leave"}
        BY <1>0, <1>1, <2>0, <3>2 DEF Goto, Call
      <4> QED
        BY <4>1 DEF VetCall
    <3>3. CASE Goto(d, "idp") /\ Servable(calls[d].login, "oidc") /\ logins' = logins
      <4>1. calls'[d].pc = "idp" /\ calls'[d].login = calls[d].login
        BY <1>0, <1>1, <2>0, <3>3 DEF Goto, Call
      <4>2. calls[d].login \in LoginIds
        BY <2>0, <3>3 DEF Servable, Call
      <4> QED
        BY <1>0, <3>1, <3>3, <4>1, <4>2, ServedKept DEF VetCall, Servable
    <3>4. CASE SloRedirect(d)
      <4> DEFINE p == SloProvider(d)
                 n == IF p = None THEN 0 ELSE Len(logins)
      <4>1. calls'[d] = [calls[d] EXCEPT !.pc = "leave", !.at = p, !.saved = n]
        BY <1>0, <1>1, <3>4 DEF SloRedirect
      <4>2. p \in PublicProviders \cup {None}
        BY ServedIsPublic DEF SloProvider, Servable
      <4> HIDE DEF p, n
      <4>3. calls'[d].pc = "leave" /\ calls'[d].at = p
        BY <2>0, <4>1 DEF Call
      <4> QED
        BY <3>1, <4>2, <4>3, ServedKept DEF VetCall
    <3>5. CASE LogoutClient(d)
      <4> DEFINE p == logins[calls[d].login].provider
      <4>1. calls'[d] = [calls[d] EXCEPT !.pc = "leave", !.at = p]
        BY <1>0, <1>1, <3>5 DEF LogoutClient
      <4>2. p \in PublicProviders
        BY <2>0, <3>5, ServedIsPublic DEF LogoutClient, At, VetCall
      <4> HIDE DEF p
      <4>3. calls'[d].pc = "leave" /\ calls'[d].at = p
        BY <2>0, <4>1 DEF Call
      <4> QED
        BY <3>1, <4>2, <4>3, ServedKept DEF VetCall
    <3> QED
      BY <2>4, <3>2, <3>3, <3>4, <3>5
      DEF Moved, CallbackClient, Exchange, Validate, Consume, Resolve, Record, CallbackFails,
          LogoutRevoked, LogoutNoClient
  <2> QED
    BY <1>1, <2>1, <2>2, <2>3, <2>4, CallCases, EnvStep
<1>2. CASE d \notin DOMAIN calls
  <2>1. d = Len(calls) + 1
    BY <1>2, NewCall
  <2>2. ASSUME NEW b \in Browsers, Logout(b) PROVE calls'[d].pc = "revoke"
    BY <1>0, <2>1, <2>2 DEF Logout
  <2>3. ASSUME NEW b \in Browsers, NEW l \in LoginIds, NEW p \in ProviderIds, NEW i \in Issuers,
               Callback(b, l, p, i)
        PROVE  VetCall(d)'
    <3>1. /\ calls'[d].pc \in {"refused", "client", "validate"} /\ calls'[d].at = p
          /\ calls'[d].pc = "client" => logins[l].protocol = "oidc"
      BY <1>0, <2>1, <2>3 DEF Callback, CallbackFirstStep
    <3>2. p \in Served(logins[l].protocol) /\ env' = env
      BY <2>3 DEF Callback
    <3> QED
      BY <3>1, <3>2, ServedKept DEF VetCall
  <2>4. calls'[d].pc = "revoke" => VetCall(d)'
    BY DEF VetCall
  <2> QED
    BY <1>2, <2>2, <2>3, <2>4, NewCall
<1> QED
  BY <1>1, <1>2

\* OnlyVettedProvidersUsed: a gateway that runs was started with an environment none of
\* whose URLs its checks should have stopped, and it holds clients of, and sends browsers
\* at logout to, providers of that environment alone, whatever restarts came in between.
THEOREM VettedOnly == Spec => []OnlyVettedProvidersUsed
<1>1. Init => VetOK
  BY DEF Init, VetOK, LoginIds
<1>2. IInv /\ VetOK /\ [Next]_vars => VetOK'
  <2> SUFFICES ASSUME IInv, VetOK, [Next]_vars PROVE VetOK'
    OBVIOUS
  <2>1. ASSUME NEW l \in LoginIds', logins'[l].step = "discover"
        PROVE  logins'[l].provider \in Served("oidc")'
    <3>1. l \in LoginIds => logins'[l].provider = logins[l].provider
      BY LoginsStep DEF LoginsGrow, Fixed
    <3> QED
      BY <2>1, <3>1, DiscoverStep, ServedKept DEF VetOK
  <2> QED
    BY <2>1, ClientsStep, VetCallStep DEF VetOK
<1>3. VetOK => OnlyVettedProvidersUsed
  BY BootableIsVetted DEF VetOK, VetCall, OnlyVettedProvidersUsed, At, Up
<1> QED
  BY <1>1, <1>2, <1>3, Invariance, PTL DEF Spec

--------------------------------------------------------------------------------
\* The order of the caches.

\* Sequence r has nothing but elements of q, in the order q has them.
SubOrder(q, r) ==
  \A i, j \in DOMAIN r : i < j =>
    \E a, b \in DOMAIN q : a < b /\ r[i] = q[a] /\ r[j] = q[b]

\* Two sequences, one after the other.
LEMMA ConcatProps ==
  ASSUME NEW S, NEW a \in Seq(S), NEW b \in Seq(S)
  PROVE  /\ a \o b \in Seq(S) /\ Len(a \o b) = Len(a) + Len(b)
         /\ \A i \in 1..Len(a) : (a \o b)[i] = a[i]
         /\ \A i \in 1..Len(b) : (a \o b)[Len(a) + i] = b[i]
<1>1. a \o b \in Seq(S) /\ Len(a \o b) = Len(a) + Len(b)
  OBVIOUS
<1>2. \A i \in 1..Len(a) : (a \o b)[i] = a[i]
  OBVIOUS
<1>3. \A i \in 1..Len(b) : (a \o b)[Len(a) + i] = b[i]
  OBVIOUS
<1> QED
  BY <1>1, <1>2, <1>3

\* What Forget leaves is in order, and lacks only what was forgotten.
LEMMA ForgetOrder ==
  ASSUME NEW S, NEW q \in Seq(S), NEW l
  PROVE  /\ SubOrder(q, Forget(q, l))
         /\ \A k \in ToSet(q) : k # l => k \in ToSet(Forget(q, l))
<1>1. DOMAIN q = 1..Len(q) /\ Len(q) \in Nat
  OBVIOUS
<1>2. CASE ~Contains(q, l)
  BY <1>2 DEF Forget, SubOrder
<1>3. CASE Contains(q, l)
  <2> DEFINE n == CHOOSE i \in DOMAIN q : q[i] = l
             a == SubSeq(q, 1, n - 1)
             b == SubSeq(q, n + 1, Len(q))
             r == RemoveAt(q, n)
             at(i) == IF i < n THEN i ELSE i + 1
  <2>1. n \in 1..Len(q) /\ q[n] = l
    BY <1>1, <1>3 DEF Contains
  <2>2. Forget(q, l) = r /\ r = a \o b
    BY <1>3 DEF Forget, RemoveAt
  <2> HIDE DEF n, a, b, r
  <2>3. /\ a \in Seq(S) /\ Len(a) = n - 1
        /\ \A i \in 1..(n - 1) : a[i] = q[i]
    BY <2>1 DEF a
  <2>4. /\ b \in Seq(S) /\ Len(b) = Len(q) - n
        /\ \A i \in 1..(Len(q) - n) : b[i] = q[n + i]
    BY <2>1 DEF b
  <2>5. /\ r \in Seq(S) /\ Len(r) = Len(q) - 1
        /\ \A i \in 1..(n - 1) : r[i] = a[i]
        /\ \A i \in n..(Len(q) - 1) : r[i] = b[i - (n - 1)]
    <3>1. a \in Seq(S) /\ b \in Seq(S) /\ r = a \o b
      BY <2>2, <2>3, <2>4
    <3>2. /\ r \in Seq(S) /\ Len(r) = Len(a) + Len(b)
          /\ \A i \in 1..Len(a) : r[i] = a[i]
          /\ \A i \in 1..Len(b) : r[Len(a) + i] = b[i]
      BY <3>1, ConcatProps
    <3>3. Len(a) + Len(b) = Len(q) - 1 /\ Len(a) = n - 1
      BY <1>1, <2>1, <2>3, <2>4
    <3>4. \A i \in n..(Len(q) - 1) : r[i] = b[i - (n - 1)]
      <4> TAKE i \in n..(Len(q) - 1)
      <4>1. i - (n - 1) \in 1..Len(b) /\ (n - 1) + (i - (n - 1)) = i
        BY <1>1, <2>1, <2>4
      <4> QED
        BY <3>2, <3>3, <4>1
    <3> QED
      BY <3>2, <3>3, <3>4
  <2>6. DOMAIN r = 1..(Len(q) - 1)
    BY <1>1, <2>1, <2>5
  <2>7. \A i \in DOMAIN r : at(i) \in DOMAIN q /\ r[i] = q[at(i)]
    <3> TAKE i \in DOMAIN r
    <3>1. CASE i < n
      BY <1>1, <2>1, <2>3, <2>5, <2>6, <3>1
    <3>2. CASE i >= n
      <4>1. r[i] = b[i - (n - 1)] /\ i - (n - 1) \in 1..(Len(q) - n) /\ n + (i - (n - 1)) = i + 1
        BY <1>1, <2>1, <2>5, <2>6, <3>2
      <4> QED
        BY <1>1, <2>1, <2>4, <2>6, <3>2, <4>1
    <3> QED
      BY <1>1, <2>1, <2>6, <3>1, <3>2
  <2>8. SubOrder(q, r)
    <3> SUFFICES ASSUME NEW i \in DOMAIN r, NEW j \in DOMAIN r, i < j
                 PROVE  at(i) < at(j)
      BY <2>7 DEF SubOrder
    <3> QED
      BY <1>1, <2>1, <2>6
  <2>9. ASSUME NEW k \in ToSet(q), k # l PROVE k \in ToSet(r)
    <3>1. PICK i \in DOMAIN q : q[i] = k
      BY DEF ToSet
    <3>2. i # n
      BY <2>1, <2>9, <3>1
    <3>3. PICK j \in DOMAIN r : at(j) = i
      <4>1. CASE i < n
        BY <1>1, <2>1, <2>6, <4>1
      <4>2. CASE i > n
        <5>1. i - 1 \in DOMAIN r /\ at(i - 1) = i
          BY <1>1, <2>1, <2>6, <4>2
        <5> QED
          BY <5>1
      <4> QED
        BY <1>1, <2>1, <3>2, <4>1, <4>2
    <3>4. r[j] = k
      BY <2>7, <3>1, <3>3
    <3> QED
      BY <3>4 DEF ToSet
  <2> QED
    BY <2>2, <2>8, <2>9
<1> QED
  BY <1>2, <1>3

\* The ids that are too old come first.
OldFirst(q) == \A i, j \in DOMAIN q : i < j /\ IdTooOld(q[j]) => IdTooOld(q[i])

\* What is pruned is the beginning of the cache.
LEMMA PruneProps ==
  ASSUME NEW S, NEW q \in Seq(S), OldFirst(q)
  PROVE  LET n == Cardinality({i \in DOMAIN q : IdTooOld(q[i])})
         IN  /\ n \in 0..Len(q) /\ \A i \in DOMAIN q : i > n <=> ~IdTooOld(q[i])
             /\ Prune(q) \in Seq(S) /\ Len(Prune(q)) = Len(q) - n
             /\ \A i \in 1..(Len(q) - n) : Prune(q)[i] = q[n + i]
<1> DEFINE I == {i \in DOMAIN q : IdTooOld(q[i])}
           n == Cardinality(I)
<1>1. DOMAIN q = 1..Len(q) /\ Len(q) \in Nat
  OBVIOUS
<1>2. n \in 0..Len(q) /\ I = 1..n
  <2>1. CASE I = {}
    <3>1. n = 0
      BY <2>1, FS_EmptySet
    <3>2. 1..0 = {}
      OBVIOUS
    <3> HIDE DEF I
    <3> QED
      BY <1>1, <2>1, <3>1, <3>2
  <2>2. CASE I # {}
    <3>1. I \subseteq 1..Len(q)
      BY <1>1
    <3> HIDE DEF I
    <3>2. PICK m \in I : \A i \in I : i <= m
      BY <1>1, <2>2, <3>1, MaxExists
    <3>3. I = 1..m
      <4>1. \A i \in 1..Len(q) : i < m => i \in I
        BY <1>1, <3>2 DEF I, OldFirst
      <4>2. ASSUME NEW i \in 1..m PROVE i \in I
        BY <1>1, <3>1, <3>2, <4>1
      <4>3. ASSUME NEW i \in I PROVE i \in 1..m
        BY <1>1, <3>1, <3>2
      <4> QED
        BY <4>2, <4>3
    <3>4. Cardinality(1..m) = m
      <4>1. 1 \in Int /\ m \in Int /\ ~(1 > m) /\ m - 1 + 1 = m
        BY <1>1, <3>1, <3>2
      <4> QED
        BY <4>1, FS_Interval
    <3> QED
      BY <1>1, <3>1, <3>2, <3>3, <3>4
  <2> QED
    BY <2>1, <2>2
<1>3. \A i \in DOMAIN q : i > n <=> ~IdTooOld(q[i])
  <2> TAKE i \in DOMAIN q
  <2>1. IdTooOld(q[i]) <=> i \in I
    OBVIOUS
  <2> HIDE DEF I
  <2> QED
    BY <1>1, <1>2, <2>1
<1>4. Prune(q) = SubSeq(q, 1 + n, Len(q))
  BY DEF Prune
<1> HIDE DEF I, n
<1>5. /\ Prune(q) \in Seq(S) /\ Len(Prune(q)) = Len(q) - n
      /\ \A i \in 1..(Len(q) - n) : Prune(q)[i] = q[n + i]
  <2>1. /\ SubSeq(q, 1 + n, Len(q)) \in Seq(S) /\ Len(SubSeq(q, 1 + n, Len(q))) = Len(q) - n
        /\ \A i \in 1..(Len(q) - n) : SubSeq(q, 1 + n, Len(q))[i] = q[n + i]
    BY <1>1, <1>2
  <2> QED
    BY <1>4, <2>1
<1> QED
  BY <1>2, <1>3, <1>5 DEF n, I

\* What Save keeps is the end of the cache, without its first m ids, and the new id l; all
\* of what is not too old unless the cache is full.
KeepsEnd(q, l, m, r) ==
  /\ Len(r) = Len(q) - m + 1 /\ r[Len(r)] = l /\ DOMAIN r = 1..(Len(q) - m + 1)
  /\ \A i \in 1..(Len(q) - m) : r[i] = q[m + i]
  /\ \A i \in 1..m : IdTooOld(q[i]) \/ (i = m /\ Len(r) = CacheMax)
\* That is what saving an id does, to a cache that is in order.
LEMMA SaveOrder ==
  ASSUME NEW S, NEW q \in Seq(S), OldFirst(q), Len(q) <= CacheMax, NEW l
  PROVE  \E m \in 0..Len(q) : KeepsEnd(q, l, m, Save(q, l))
<1> DEFINE n == Cardinality({i \in DOMAIN q : IdTooOld(q[i])})
           live == Prune(q)
           kept == IF Len(live) >= CacheMax THEN Tail(live) ELSE live
<1>1. /\ n \in 0..Len(q) /\ \A i \in DOMAIN q : i > n <=> ~IdTooOld(q[i])
      /\ live \in Seq(S) /\ Len(live) = Len(q) - n
      /\ \A i \in 1..(Len(q) - n) : live[i] = q[n + i]
  BY PruneProps
<1>2. Save(q, l) = Append(kept, l)
  BY DEF Save
<1>3. DOMAIN q = 1..Len(q) /\ Len(q) \in Nat /\ CacheMax \in Nat \ {0}
  BY BoundsAssumption
<1> HIDE DEF n, live
<1>4. ASSUME NEW m \in 0..Len(q), kept \in Seq(S), Len(kept) = Len(q) - m,
             \A i \in 1..(Len(q) - m) : kept[i] = q[m + i]
      PROVE  LET r == Save(q, l)
             IN  /\ Len(r) = Len(q) - m + 1 /\ r[Len(r)] = l
                 /\ DOMAIN r = 1..(Len(q) - m + 1)
                 /\ \A i \in 1..(Len(q) - m) : r[i] = q[m + i]
  <2> HIDE DEF kept
  <2>1. /\ Append(kept, l) \in Seq(S \cup {l}) /\ Len(Append(kept, l)) = Len(kept) + 1
        /\ Append(kept, l)[Len(kept) + 1] = l
        /\ \A i \in 1..Len(kept) : Append(kept, l)[i] = kept[i]
    BY <1>4
  <2> QED
    BY <1>2, <1>3, <1>4, <2>1
<1>5. CASE Len(live) >= CacheMax
  <2>1. Len(live) = CacheMax /\ n + 1 \in 0..Len(q)
    BY <1>1, <1>3, <1>5
  <2>2. /\ kept \in Seq(S) /\ Len(kept) = Len(q) - (n + 1)
        /\ \A i \in 1..(Len(q) - (n + 1)) : kept[i] = q[n + 1 + i]
    <3>1. kept = Tail(live) /\ Len(live) \in Nat \ {0}
      BY <1>3, <1>5, <2>1
    <3>2. Tail(live) \in Seq(S) /\ Len(Tail(live)) = Len(live) - 1
          /\ \A i \in 1..(Len(live) - 1) : Tail(live)[i] = live[i + 1]
      BY <1>1, <3>1
    <3>3. \A i \in 1..(Len(q) - (n + 1)) : live[i + 1] = q[n + (i + 1)] /\ i \in 1..(Len(live) - 1)
      BY <1>1, <1>3
    <3>4. \A i \in 1..(Len(q) - (n + 1)) : kept[i] = q[n + 1 + i]
      <4> TAKE i \in 1..(Len(q) - (n + 1))
      <4>1. n + (i + 1) = n + 1 + i
        BY <1>1, <1>3
      <4> QED
        BY <3>1, <3>2, <3>3, <4>1
    <3>5. Len(kept) = Len(q) - (n + 1)
      BY <1>1, <1>3, <3>1, <3>2
    <3> QED
      BY <3>1, <3>2, <3>4, <3>5
  <2>3. \A i \in 1..(n + 1) : IdTooOld(q[i]) \/ (i = n + 1 /\ Len(q) - (n + 1) + 1 = CacheMax)
    BY <1>1, <1>3, <2>1
  <2> HIDE DEF kept
  <2> QED
    BY <1>4, <2>1, <2>2, <2>3 DEF KeepsEnd
<1>6. CASE ~(Len(live) >= CacheMax)
  <2>1. kept = live
    BY <1>6
  <2>2. \A i \in 1..n : IdTooOld(q[i])
    BY <1>1, <1>3
  <2> HIDE DEF kept
  <2> QED
    BY <1>1, <1>4, <2>1, <2>2 DEF KeepsEnd
<1> QED
  BY <1>5, <1>6

--------------------------------------------------------------------------------
\* How long a login is remembered.

\* When an id was saved: how many logins had begun. A login's comes before those of the
\* logouts that follow it.
Stamp(k) == IF k <= MaxLogins THEN k ELSE calls[k - MaxLogins].saved
Before(k, m) == IF m <= MaxLogins THEN Stamp(k) < m ELSE Stamp(k) <= Stamp(m)
Ordered(q) == \A i, j \in DOMAIN q : i < j => Before(q[i], q[j])

\* An id of a logout is in the cache of the provider that the logout went to.
InItsCache(p, k) ==
  k > MaxLogins => calls[k - MaxLogins].kind = "logout" /\ calls[k - MaxLogins].at = p

SavedOK ==
  \A c \in DOMAIN calls : /\ calls[c].saved \in 0..Len(logins)
                          /\ calls[c].pc \in {"revoke", "idp"} => calls[c].saved = 0
OrderOK ==
  /\ \A p \in ProviderIds : Ordered(cache[p]) /\ \A k \in ToSet(cache[p]) : InItsCache(p, k)
  /\ SavedOK

\* A call goes on to the provider it went to, and has saved no other id.
Settled(d) ==
  calls'[d].at = calls[d].at /\ calls'[d].saved = calls[d].saved

\* What a call is never changes; where it goes and when its id was saved only when a
\* logout redirects.
LEMMA CallKeeps ==
  ASSUME IInv, [Next]_vars, NEW d \in DOMAIN calls
  PROVE  /\ calls'[d].kind = calls[d].kind /\ calls'[d].login = calls[d].login
         /\ calls'[d].browser = calls[d].browser
         /\ \/ Settled(d) /\ (calls'[d].pc \in {"revoke", "idp"} => calls[d].pc = "revoke"
                                                                   \/ calls[d].pc = "idp")
            \/ LogoutClient(d) /\ calls'[d].saved = calls[d].saved /\ calls'[d].pc = "leave"
            \/ /\ SloRedirect(d) /\ calls[d].pc \in {"revoke", "idp"} /\ logins' = logins
               /\ calls'[d].saved \in {0, Len(logins)} /\ calls'[d].pc = "leave"
<1>0. calls[d] \in Call /\ calls \in Seq(Call)
  BY DEF IInv, TypeOK
<1>1. CASE calls'[d] = calls[d]
  BY <1>1 DEF Settled
<1>2. CASE calls'[d] = Finished(calls[d])
  BY <1>0, <1>2 DEF Settled, Finished, Call
<1>3. CASE \E x \in {"exchange", "consume", "resolve", "record", "accepted", "refused"} : Goto(d, x)
  BY <1>0, <1>3 DEF Goto, Call, Settled
<1>4. CASE Goto(d, "idp") /\ At(d, "revoke")
  BY <1>0, <1>4 DEF Goto, Call, Settled, At
<1>5. CASE SloRedirect(d) /\ calls[d].pc \in {"revoke", "idp"} /\ logins' = logins
  <2> DEFINE p == SloProvider(d)
             n == IF p = None THEN 0 ELSE Len(logins)
  <2>1. calls'[d] = [calls[d] EXCEPT !.pc = "leave", !.at = p, !.saved = n]
    BY <1>0, <1>5 DEF SloRedirect
  <2>2. n \in {0, Len(logins)}
    OBVIOUS
  <2> HIDE DEF p, n
  <2>3. calls'[d].pc = "leave" /\ calls'[d].saved = n /\ calls'[d].kind = calls[d].kind
        /\ calls'[d].login = calls[d].login /\ calls'[d].browser = calls[d].browser
    BY <1>0, <2>1 DEF Call
  <2> QED
    BY <1>5, <2>2, <2>3
<1>6. CASE LogoutClient(d)
  <2> DEFINE p == logins[calls[d].login].provider
  <2>1. calls'[d] = [calls[d] EXCEPT !.pc = "leave", !.at = p]
    BY <1>0, <1>6 DEF LogoutClient
  <2> HIDE DEF p
  <2>2. calls'[d].pc = "leave" /\ calls'[d].saved = calls[d].saved /\ calls'[d].kind = calls[d].kind
        /\ calls'[d].login = calls[d].login /\ calls'[d].browser = calls[d].browser
    BY <1>0, <2>1 DEF Call
  <2> QED
    BY <1>6, <2>2
<1>7. Moved(d) =>
        \/ \E x \in {"exchange", "consume", "resolve", "record", "accepted", "refused"} : Goto(d, x)
        \/ Goto(d, "idp") /\ At(d, "revoke")
        \/ SloRedirect(d) /\ calls[d].pc \in {"revoke", "idp"} /\ logins' = logins
        \/ LogoutClient(d)
  BY DEF Moved, CallbackClient, Exchange, Validate, Consume, Resolve, Record, CallbackFails,
         LogoutRevoked, LogoutNoClient, At
<1> QED
  BY <1>1, <1>2, <1>3, <1>4, <1>5, <1>6, <1>7, CallCases

\* A new call has saved no id.
LEMMA NewCallSaves ==
  ASSUME IInv, [Next]_vars, NEW d \in DOMAIN calls', d \notin DOMAIN calls
  PROVE  calls'[d].saved = 0
<1>0. calls \in Seq(Call) /\ d = Len(calls) + 1
  BY NewCall DEF IInv, TypeOK
<1>1. ASSUME NEW b \in Browsers, Logout(b) PROVE calls'[d].saved = 0
  BY <1>0, <1>1 DEF Logout
<1>2. ASSUME NEW b \in Browsers, NEW l \in LoginIds, NEW p \in ProviderIds, NEW i \in Issuers,
             Callback(b, l, p, i)
      PROVE  calls'[d].saved = 0
  BY <1>0, <1>2 DEF Callback
<1> QED
  BY <1>1, <1>2, NewCall

\* No call saved its id after more logins had begun than there are.
LEMMA SavedStep ==
  ASSUME IInv, OrderOK, [Next]_vars
  PROVE  SavedOK'
<1>0. Len(logins) \in Nat /\ Len(logins') \in Nat /\ Len(logins) <= Len(logins')
      /\ (logins' = logins => Len(logins') = Len(logins))
  BY LoginsStep DEF IInv, TypeOK, LoginsGrow
<1> SUFFICES ASSUME NEW d \in DOMAIN calls'
             PROVE  /\ calls'[d].saved \in 0..Len(logins')
                    /\ calls'[d].pc \in {"revoke", "idp"} => calls'[d].saved = 0
  BY DEF SavedOK
<1>1. CASE d \in DOMAIN calls
  <2>1. calls[d].saved \in 0..Len(logins)
        /\ (calls[d].pc \in {"revoke", "idp"} => calls[d].saved = 0)
    BY <1>1 DEF OrderOK, SavedOK
  <2> QED
    BY <1>0, <1>1, <2>1, CallKeeps DEF Settled
<1>2. CASE d \notin DOMAIN calls
  BY <1>0, <1>2, NewCallSaves
<1> QED
  BY <1>1, <1>2

\* A step forgets an id (a login's that is taken), or saves the id of a new login or of a
\* logout that leaves for the provider.
Forgets(p) ==
  \E k : /\ cache'[p] = Forget(cache[p], k)
         /\ k \in LoginIds => logins'[k].taken
Saves(p) ==
  /\ env' = env
  /\ \E k : /\ cache'[p] = Save(cache[p], k) /\ NewItem(p, k)
            /\ \/ k = Len(logins) + 1 /\ k <= MaxLogins
               \/ \E c \in DOMAIN calls :
                    /\ k = MaxLogins + c /\ calls'[c].kind = "logout"
                    /\ calls'[c].at = p /\ calls'[c].saved = Len(logins)

\* Nothing else happens to the cache of a provider, but a restart.
LEMMA CacheChanges ==
  ASSUME IInv, [Next]_vars, NEW p \in ProviderIds
  PROVE  \/ cache'[p] = cache[p]
         \/ Forgets(p)
         \/ Saves(p)
         \/ cache'[p] = <<>> /\ \E e \in Bootable : Restart(e)
<1> DEFINE Fine == \/ cache'[p] = cache[p]
                   \/ Forgets(p)
                   \/ Saves(p)
                   \/ cache'[p] = <<>> /\ \E e \in Bootable : Restart(e)
<1>0. /\ cache \in [ProviderIds -> Seq(1..(MaxLogins + Len(calls)))]
      /\ calls \in Seq(Call) /\ logins \in Seq(Login)
      /\ LoginIds = DOMAIN logins
  BY DEF IInv, TypeOK, LoginIds
<1>1. ASSUME cache' = cache PROVE Fine
  BY <1>1
<1>2. ASSUME NEW q, NEW k, cache' = [cache EXCEPT ![q] = Forget(@, k)],
             logins' = [logins EXCEPT ![k].taken = TRUE] \/ k \notin LoginIds
      PROVE  Fine
  <2>1. CASE p # q
    BY <1>0, <1>2, <2>1
  <2>2. CASE p = q
    <3>1. cache'[p] = Forget(cache[p], k)
      BY <1>0, <1>2, <2>2
    <3>2. k \in LoginIds => logins'[k].taken
      <4> SUFFICES ASSUME k \in LoginIds PROVE logins'[k].taken
        OBVIOUS
      <4>1. logins' = [logins EXCEPT ![k].taken = TRUE]
        BY <1>2
      <4>2. k \in DOMAIN logins /\ logins[k] \in Login
        BY <1>0
      <4> HIDE DEF Fine
      <4>3. logins'[k] = [logins[k] EXCEPT !.taken = TRUE]
        BY <1>0, <4>1, <4>2
      <4> QED
        BY <4>2, <4>3 DEF Login
    <3> QED
      BY <3>1, <3>2 DEF Forgets
  <2> QED
    BY <2>1, <2>2
<1>3. ASSUME NEW b \in Browsers, NEW q \in ProviderIds, StartLogin(b, q) PROVE Fine
  <2>1. CASE ProtocolOf(q) = "saml" /\ q = p
    <3> DEFINE k == Len(logins) + 1
    <3>1. cache' = [cache EXCEPT ![p] = Save(@, k)] /\ env' = env /\ k <= MaxLogins
      BY <1>3, <2>1 DEF StartLogin, CacheOf
    <3>2. NewItem(p, k)
      BY <1>3, <2>1 DEF NewItem
    <3> HIDE DEF k
    <3>3. cache'[p] = Save(cache[p], k)
      BY <1>0, <3>1
    <3> QED
      BY <3>1, <3>2, <3>3 DEF Saves, k
  <2>2. CASE ~(ProtocolOf(q) = "saml" /\ q = p)
    BY <1>0, <1>3, <2>2 DEF StartLogin, CacheOf
  <2> QED
    BY <2>1, <2>2
<1>4. ASSUME NEW c \in DOMAIN calls, LogoutRevoked(c) \/ LogoutNoClient(c) PROVE Fine
  <2>1. CASE SloRedirect(c) /\ SloProvider(c) = p /\ p # None
    <3> DEFINE k == MaxLogins + c
    <3>1. cache'[p] = Save(cache[p], k)
      BY <1>0, <2>1 DEF SloRedirect, CacheOf
    <3>2. calls[c].pc \in {"revoke", "idp"} /\ env' = env
      BY <1>4 DEF LogoutRevoked, LogoutNoClient, At
    <3>3. NewItem(p, k)
      BY <2>1, <3>2 DEF NewItem
    <3>4. calls[c] \in Call /\ calls[c].kind = "logout"
      BY <1>0, <3>2 DEF IInv, CallbackOK, CallOK
    <3>5. calls'[c] = [calls[c] EXCEPT !.pc = "leave", !.at = p, !.saved = Len(logins)]
      BY <1>0, <2>1 DEF SloRedirect
    <3>6. calls'[c].kind = "logout" /\ calls'[c].at = p /\ calls'[c].saved = Len(logins)
      BY <3>4, <3>5 DEF Call
    <3> QED
      BY <3>1, <3>2, <3>3, <3>6 DEF Saves
  <2>2. CASE ~(SloRedirect(c) /\ SloProvider(c) = p /\ p # None)
    <3>1. CASE cache' = cache
      BY <3>1
    <3>2. CASE SloRedirect(c) /\ SloProvider(c) # None
      BY <1>0, <2>2, <3>2 DEF SloRedirect, CacheOf
    <3>3. CASE SloRedirect(c) /\ SloProvider(c) = None
      BY <3>3 DEF SloRedirect
    <3> QED
      BY <1>4, <3>1, <3>2, <3>3 DEF LogoutRevoked, LogoutNoClient
  <2> QED
    BY <2>1, <2>2
<1>5. ASSUME NEW e \in Bootable, Restart(e) PROVE Fine
  BY <1>5 DEF Restart
<1>6. ASSUME NEW c \in DOMAIN calls, Consume(c) \/ CallbackFails(c) PROVE Fine
  <2>1. CASE calls[c].pc = "consume"
    <3>1. /\ cache' = [cache EXCEPT ![calls[c].at] = Forget(@, calls[c].login)]
          /\ logins' = [logins EXCEPT ![calls[c].login].taken = TRUE]
      BY <1>6, <2>1 DEF Consume, CallbackFails, CacheOf, At
    <3> HIDE DEF Fine
    <3> QED
      BY <1>2, <3>1
  <2>2. CASE calls[c].pc # "consume"
    BY <1>1, <1>6, <2>2 DEF Consume, CallbackFails, At
  <2> QED
    BY <2>1, <2>2
<1>7. ASSUME NEW q \in ProviderIds, NEW k \in 1..(MaxLogins + MaxCalls), LogoutCallback(q, k)
      PROVE  Fine
  <2> HIDE DEF Fine
  <2> QED
    BY <1>2, <1>7 DEF LogoutCallback, CacheOf
<1> HIDE DEF Fine
<1>8. Fine
  <2>1. CASE LoginStep \/ UNCHANGED vars
    BY <2>1, <1>1, <1>3 DEF LoginStep, Discovered, LoginAnswered, LoginFails, vars
  <2>2. CASE CallbackStep
    BY <2>2, <1>1, <1>6 DEF CallbackStep, Callback, CallbackClient, Exchange, Validate, Resolve,
                            Record, CallbackAnswered
  <2>3. CASE LogoutStep
    BY <2>3, <1>1, <1>4, <1>7 DEF LogoutStep, Logout, PlainLogout, LogoutClient, LogoutAnswered
  <2>4. CASE Adversity
    BY <2>4, <1>1, <1>5 DEF Adversity, AnswerLost, CookiesExpire, IdsExpire
  <2>5. CASE SessionStep
    BY <2>5, <1>1, SessionQuiet
  <2> QED
    BY <2>1, <2>2, <2>3, <2>4, <2>5 DEF Next
<1> QED
  BY <1>8 DEF Fine

\* In a cache that is in order, what is too old comes first.
LEMMA OrderedOldFirst ==
  ASSUME IInv, OrderOK, NEW p \in ProviderIds
  PROVE  OldFirst(cache[p])
<1>1. /\ cache[p] \in Seq(1..(MaxLogins + Len(calls))) /\ Ordered(cache[p])
      /\ MaxLogins \in Nat /\ Len(calls) \in Nat /\ old \in Nat /\ DOMAIN calls = 1..Len(calls)
  BY BoundsAssumption DEF IInv, TypeOK, OrderOK
<1>2. \A k \in 1..(MaxLogins + Len(calls)) :
        /\ k \in Nat
        /\ k > MaxLogins => calls[k - MaxLogins].saved \in Nat
  <2> SUFFICES ASSUME NEW k \in 1..(MaxLogins + Len(calls)), k > MaxLogins
               PROVE  calls[k - MaxLogins].saved \in Nat
    OBVIOUS
  <2>1. k - MaxLogins \in DOMAIN calls
    BY <1>1
  <2> QED
    BY <2>1 DEF OrderOK, SavedOK
<1> SUFFICES ASSUME NEW i \in DOMAIN cache[p], NEW j \in DOMAIN cache[p], i < j,
                    IdTooOld(cache[p][j])
             PROVE  IdTooOld(cache[p][i])
  BY DEF OldFirst
<1> DEFINE k == cache[p][i]
           m == cache[p][j]
<1>3. k \in 1..(MaxLogins + Len(calls)) /\ m \in 1..(MaxLogins + Len(calls)) /\ Before(k, m)
      /\ IdTooOld(m)
  BY <1>1 DEF Ordered
<1> HIDE DEF k, m
<1>4. IdTooOld(k)
  BY <1>1, <1>2, <1>3 DEF Before, Stamp, IdTooOld
<1> QED
  BY <1>4 DEF k

\* An id that is in a cache keeps its place in the order.
LEMMA StampKept ==
  ASSUME IInv, OrderOK, [Next]_vars, NEW p \in ProviderIds, NEW k \in ToSet(cache[p])
  PROVE  /\ k \in Nat /\ Stamp(k) \in 0..Len(logins) /\ Stamp(k)' = Stamp(k)
         /\ InItsCache(p, k)'
<1>0. /\ logins \in Seq(Login) /\ calls \in Seq(Call) /\ Len(logins) <= MaxLogins
      /\ LoginIds = 1..Len(logins) /\ DOMAIN calls = 1..Len(calls)
      /\ Len(logins) \in Nat /\ Len(calls) \in Nat /\ MaxLogins \in Nat
  <2>1. logins \in Seq(Login) /\ calls \in Seq(Call) /\ Len(logins) <= MaxLogins
    BY DEF IInv, TypeOK, CacheOK
  <2> QED
    BY <2>1, BoundsAssumption DEF LoginIds
<1>1. Item(p, k)
  BY DEF IInv, CacheOK
<1>2. CASE k \in LoginIds
  <2>1. k \in Nat /\ k <= MaxLogins /\ k \in 0..Len(logins)
    BY <1>0, <1>2
  <2> QED
    BY <2>1, <1>0 DEF Stamp, InItsCache
<1>3. CASE k \notin LoginIds
  <2> DEFINE c == k - MaxLogins
  <2>1. c \in DOMAIN calls /\ calls[c].pc \in {"leave", "done"}
    BY <1>1, <1>3 DEF Item
  <2>2. k \in Nat /\ k > MaxLogins /\ ~(k <= MaxLogins)
    <3>0. k \in Nat
      <4>1. cache[p] \in Seq(1..(MaxLogins + Len(calls)))
        BY DEF IInv, TypeOK
      <4>2. DOMAIN cache[p] = 1..Len(cache[p]) /\ \A i \in 1..Len(cache[p]) : cache[p][i] \in Nat
        BY <1>0, <4>1
      <4> QED
        BY <4>2 DEF ToSet
    <3> QED
      BY <1>0, <2>1, <3>0
  <2>3. calls[c].kind = "logout" /\ calls[c].at = p
    BY <2>2 DEF OrderOK, InItsCache
  <2>4. calls[c].saved \in 0..Len(logins)
    BY <2>1 DEF OrderOK, SavedOK
  <2> HIDE DEF c
  <2>5. Settled(c) /\ calls'[c].kind = calls[c].kind
    BY <2>1, CallKeeps DEF LogoutClient, At
  <2>6. calls'[c].kind = "logout" /\ calls'[c].at = p /\ calls'[c].saved = calls[c].saved
    BY <2>3, <2>5 DEF Settled
  <2> USE DEF c
  <2> QED
    BY <2>2, <2>4, <2>6 DEF Stamp, InItsCache
<1> QED
  BY <1>2, <1>3

\* The caches stay in order.
LEMMA OrderStep ==
  ASSUME IInv, OrderOK, [Next]_vars
  PROVE  OrderOK'
<1> SUFFICES ASSUME NEW p \in ProviderIds
             PROVE  Ordered(cache[p])' /\ \A k \in ToSet(cache'[p]) : InItsCache(p, k)'
  BY SavedStep DEF OrderOK
<1> DEFINE q == cache[p]
           N == MaxLogins + Len(calls)
<1>0. q \in Seq(1..N) /\ Len(q) <= CacheMax /\ Ordered(q) /\ OldFirst(q)
      /\ Len(logins) \in Nat /\ MaxLogins \in Nat /\ DOMAIN q = 1..Len(q) /\ Len(q) \in Nat
      /\ Len(logins) <= MaxLogins
  <2>1. q \in Seq(1..N) /\ Len(q) <= CacheMax /\ logins \in Seq(Login) /\ Ordered(q)
        /\ Len(logins) <= MaxLogins
    BY DEF IInv, TypeOK, CacheOK, OrderOK
  <2> QED
    BY <2>1, BoundsAssumption, OrderedOldFirst
<1>1. \A i \in DOMAIN q : q[i] \in ToSet(q)
  BY DEF ToSet
<1>2. \A k \in ToSet(q) : /\ k \in Nat /\ Stamp(k) \in 0..Len(logins) /\ Stamp(k)' = Stamp(k)
                          /\ InItsCache(p, k)'
  BY StampKept
<1> HIDE DEF q
<1>3. \A k, m \in ToSet(q) : Before(k, m) => Before(k, m)'
  BY <1>2 DEF Before
<1>4. PICK r : r = cache'[p]
  OBVIOUS
<1>5. CASE SubOrder(q, r) /\ ToSet(r) \subseteq ToSet(q)
  <2>1. ASSUME NEW i \in DOMAIN r, NEW j \in DOMAIN r, i < j PROVE Before(r[i], r[j])'
    <3>1. PICK a, b \in DOMAIN q : a < b /\ r[i] = q[a] /\ r[j] = q[b]
      BY <1>5, <2>1 DEF SubOrder
    <3>2. Before(q[a], q[b])
      BY <1>0, <3>1 DEF Ordered
    <3> QED
      BY <1>1, <1>3, <3>1, <3>2
  <2> QED
    BY <1>2, <1>4, <1>5, <2>1 DEF Ordered
<1>6. CASE r = q
  <2>1. SubOrder(q, r)
    BY <1>6 DEF SubOrder
  <2> QED
    BY <1>5, <1>6, <2>1
<1>7. CASE Forgets(p)
  <2>1. PICK k : r = Forget(q, k)
    BY <1>4, <1>7 DEF Forgets, q
  <2>2. SubOrder(q, r) /\ ToSet(r) \subseteq ToSet(q)
    <3>1. IsInjective(q)
      BY DEF IInv, CacheOK, q
    <3>2. SubOrder(q, Forget(q, k))
      BY <1>0, ForgetOrder
    <3>3. ToSet(Forget(q, k)) \subseteq ToSet(q) \ {k}
      BY <1>0, <3>1, ForgetProps
    <3> QED
      BY <2>1, <3>2, <3>3
  <2> QED
    BY <1>5, <2>2
<1>8. CASE Saves(p)
  <2>1. PICK k : /\ r = Save(q, k)
                 /\ \/ k = Len(logins) + 1 /\ k <= MaxLogins
                    \/ \E c \in DOMAIN calls :
                         /\ k = MaxLogins + c /\ calls'[c].kind = "logout"
                         /\ calls'[c].at = p /\ calls'[c].saved = Len(logins)
    BY <1>4, <1>8 DEF Saves, q
  <2>2. InItsCache(p, k)' /\ \A x \in ToSet(q) : Before(x, k)'
    <3>1. CASE k = Len(logins) + 1 /\ k <= MaxLogins
      BY <1>0, <1>2, <3>1 DEF InItsCache, Before
    <3>2. ASSUME NEW c \in DOMAIN calls, k = MaxLogins + c, calls'[c].kind = "logout",
                 calls'[c].at = p, calls'[c].saved = Len(logins)
          PROVE  InItsCache(p, k)' /\ \A x \in ToSet(q) : Before(x, k)'
      <4>1. k - MaxLogins = c /\ ~(k <= MaxLogins)
        <5>1. calls \in Seq(Call)
          BY DEF IInv, TypeOK
        <5> QED
          BY <1>0, <3>2, <5>1
      <4>2. Stamp(k)' = Len(logins)
        BY <3>2, <4>1 DEF Stamp
      <4> QED
        BY <1>0, <1>2, <3>2, <4>1, <4>2 DEF InItsCache, Before
    <3> QED
      BY <2>1, <3>1, <3>2
  <2>3. PICK m \in 0..Len(q) : KeepsEnd(q, k, m, r)
    <3>1. \E m \in 0..Len(q) : KeepsEnd(q, k, m, Save(q, k))
      BY <1>0, SaveOrder
    <3> QED
      BY <2>1, <3>1
  <2> DEFINE n == Len(q) - m
  <2>6. /\ m \in Nat /\ n \in Nat /\ DOMAIN r = 1..(n + 1) /\ Len(r) = n + 1 /\ r[n + 1] = k
        /\ \A i \in 1..n : m + i \in DOMAIN q /\ r[i] = q[m + i]
    <3>1. m \in Nat /\ n \in Nat /\ m + n = Len(q) /\ \A i \in 1..n : m + i \in DOMAIN q
      BY <1>0
    <3> QED
      BY <2>3, <3>1 DEF KeepsEnd
  <2> HIDE DEF n
  <2>4. ASSUME NEW i \in DOMAIN r, NEW j \in DOMAIN r, i < j PROVE Before(r[i], r[j])'
    <3>0. i \in 1..n
      BY <2>4, <2>6
    <3>1. r[i] = q[m + i] /\ m + i \in DOMAIN q
      BY <2>6, <3>0
    <3>2. CASE j = n + 1
      BY <1>1, <2>2, <2>6, <3>1, <3>2
    <3>3. CASE j # n + 1
      <4>0. j \in 1..n
        BY <2>6, <3>3
      <4>2. m + i < m + j
        <5>1. m \in Nat /\ n \in Nat
          BY <2>6
        <5> QED
          BY <2>4, <3>0, <4>0, <5>1
      <4>1. r[j] = q[m + j] /\ m + j \in DOMAIN q /\ m + i < m + j
        BY <2>6, <4>0, <4>2
      <4>3. Before(q[m + i], q[m + j])
        BY <1>0, <3>1, <4>1 DEF Ordered
      <4> QED
        BY <1>1, <1>3, <3>1, <4>1, <4>3
    <3> QED
      BY <3>2, <3>3
  <2>5. ASSUME NEW x \in ToSet(r) PROVE InItsCache(p, x)'
    <3>1. PICK i \in DOMAIN r : x = r[i]
      BY DEF ToSet
    <3>2. CASE i = n + 1
      BY <2>2, <2>6, <3>1, <3>2
    <3>3. CASE i # n + 1
      <4>0. i \in 1..n
        BY <2>6, <3>3
      <4>1. r[i] = q[m + i] /\ m + i \in DOMAIN q
        BY <2>6, <4>0
      <4> QED
        BY <1>1, <1>2, <3>1, <4>1
    <3> QED
      BY <3>2, <3>3
  <2> QED
    BY <1>4, <2>4, <2>5 DEF Ordered
<1>9. CASE r = <<>>
  BY <1>4, <1>9 DEF Ordered, ToSet
<1> QED
  BY <1>4, <1>6, <1>7, <1>8, <1>9, CacheChanges DEF q

\* Only a restart forgets that the id of a login was saved, only a callback or a logout
\* callback takes the id, only its answer brings the browser to the provider.
LoginPast(l) ==
  /\ logins'[l].saved => logins[l].saved /\ \A e \in Bootable : ~Restart(e)
  /\ logins[l].saved => logins'[l].saved \/ \E e \in Bootable : Restart(e)
  /\ logins[l].taken => logins'[l].taken
  /\ logins'[l].taken =>
       \/ logins[l].taken
       \/ \E c \in DOMAIN calls : /\ calls[c].pc = "consume" /\ calls[c].login = l
                                  /\ Consume(c) \/ CallbackFails(c)
       \/ \E p \in ProviderIds : LogoutCallback(p, l)
  /\ logins'[l].step = "asked" => logins[l].step = "asked" \/ LoginAnswered(l)

\* A step begins a login, or lets it go on like that.
LEMMA LoginProgress ==
  ASSUME IInv, [Next]_vars, NEW l \in LoginIds'
  PROVE  \/ l \in LoginIds /\ LoginPast(l)
         \/ /\ l \notin LoginIds /\ l = Len(logins) + 1
            /\ \E b \in Browsers, p \in ProviderIds : StartLogin(b, p)
<1> DEFINE Fine == \/ l \in LoginIds /\ LoginPast(l)
                   \/ /\ l \notin LoginIds /\ l = Len(logins) + 1
                      /\ \E b \in Browsers, p \in ProviderIds : StartLogin(b, p)
<1>0. logins \in Seq(Login) /\ LoginIds = DOMAIN logins /\ LoginIds' = DOMAIN logins'
      /\ \A k \in LoginIds : logins[k] \in Login
  BY LoginTyped DEF IInv, TypeOK, LoginIds
<1>1. ASSUME l \in LoginIds, logins'[l] = logins[l], \A e \in Bootable : ~Restart(e) PROVE Fine
  BY <1>1 DEF LoginPast
<1>2. ASSUME NEW b \in Browsers, NEW p \in ProviderIds, StartLogin(b, p) PROVE Fine
  <2>0. /\ \A k \in DOMAIN logins : logins'[k] = logins[k]
        /\ \A k \in DOMAIN logins' : k \in DOMAIN logins \/ k = Len(logins) + 1
    <3>1. PICK r : logins' = Append(logins, r)
      BY <1>2 DEF StartLogin
    <3> QED
      BY <1>0, <3>1
  <2>1. CASE l \in LoginIds
    <3>1. logins'[l] = logins[l]
      BY <1>0, <2>0, <2>1
    <3>2. \A e \in Bootable : ~Restart(e)
      <4>1. faults \in Nat
        BY BoundsAssumption DEF IInv, TypeOK
      <4>2. faults' = faults
        BY <1>2 DEF StartLogin
      <4>3. ASSUME NEW e \in Bootable, Restart(e) PROVE faults' = faults + 1
        BY <4>3 DEF Restart, Fault
      <4> QED
        BY <4>1, <4>2, <4>3
    <3> HIDE DEF Fine
    <3> QED
      BY <1>1, <2>1, <3>1, <3>2
  <2>2. CASE l \notin LoginIds
    BY <1>0, <1>2, <2>0, <2>2
  <2> QED
    BY <2>1, <2>2
<1>3. ASSUME \E e \in Bootable : Restart(e) PROVE Fine
  <2>1. PICK e \in Bootable : Restart(e)
    BY <1>3
  <2>2. l \in LoginIds /\ logins'[l] = [logins[l] EXCEPT !.saved = FALSE,
                                                      !.step = IF @ = "asked" THEN @ ELSE "over"]
    BY <1>0, <2>1 DEF Restart
  <2>3. logins[l] \in Login
    BY <1>0, <2>2
  <2>4. ~logins'[l].saved /\ logins'[l].taken = logins[l].taken
        /\ (logins'[l].step = "asked" => logins[l].step = "asked")
    BY <2>2, <2>3 DEF Login
  <2> QED
    BY <1>3, <2>2, <2>4 DEF LoginPast
<1>4. ASSUME \A e \in Bootable : ~Restart(e), NEW k \in LoginIds, NEW r,
             logins' = [logins EXCEPT ![k] = r],
             r.saved = logins[k].saved, logins[k].taken => r.taken,
             r.taken => \/ logins[k].taken
                        \/ \E c \in DOMAIN calls : /\ calls[c].pc = "consume" /\ calls[c].login = k
                                                   /\ Consume(c) \/ CallbackFails(c)
                        \/ \E p \in ProviderIds : LogoutCallback(p, k),
             r.step = "asked" => logins[k].step = "asked" \/ LoginAnswered(k)
      PROVE  Fine
  <2>0. l \in LoginIds
    BY <1>0, <1>4
  <2>1. CASE l = k
    <3>1. logins'[l] = r
      BY <1>0, <1>4, <2>0, <2>1
    <3> QED
      BY <1>4, <2>0, <2>1, <3>1 DEF LoginPast
  <2>2. CASE l # k
    <3>1. logins'[l] = logins[l]
      BY <1>0, <1>4, <2>0, <2>2
    <3> QED
      BY <1>1, <1>4, <2>0, <3>1
  <2> QED
    BY <2>1, <2>2
<1>5. ASSUME \A e \in Bootable : ~Restart(e) PROVE Fine
  <2>1. ASSUME logins' = logins PROVE Fine
    <3>1. l \in LoginIds /\ logins'[l] = logins[l]
      BY <1>0, <2>1
    <3> HIDE DEF Fine
    <3> QED
      BY <1>1, <1>5, <3>1
  <2>2. ASSUME NEW k \in LoginIds, NEW x \in {"answer", "over"},
               logins' = [logins EXCEPT ![k].step = x]
        PROVE  Fine
    <3> DEFINE r == [logins[k] EXCEPT !.step = x]
    <3>1. logins' = [logins EXCEPT ![k] = r]
      BY <2>2
    <3>2. r.saved = logins[k].saved /\ r.taken = logins[k].taken /\ r.step # "asked"
      BY <1>0 DEF Login
    <3> HIDE DEF r, Fine
    <3> QED
      BY <1>4, <1>5, <3>1, <3>2
  <2>3. ASSUME NEW k \in LoginIds, LoginAnswered(k) PROVE Fine
    <3> DEFINE r == [logins[k] EXCEPT !.step = "asked"]
    <3>1. logins' = [logins EXCEPT ![k] = r]
      BY <2>3 DEF LoginAnswered
    <3>2. r.saved = logins[k].saved /\ r.taken = logins[k].taken
      BY <1>0 DEF Login
    <3> HIDE DEF r, Fine
    <3> QED
      BY <1>4, <1>5, <2>3, <3>1, <3>2
  <2>4. ASSUME NEW c \in DOMAIN calls, Record(c) PROVE Fine
    <3> DEFINE k == calls[c].login
               r == [logins[k] EXCEPT !.used = TRUE]
    <3>1. logins' = [logins EXCEPT ![k] = r]
      BY <2>4 DEF Record
    <3>2. CASE k \in LoginIds
      <4>1. r.saved = logins[k].saved /\ r.taken = logins[k].taken /\ r.step = logins[k].step
        BY <1>0, <3>2 DEF Login
      <4> HIDE DEF r, k, Fine
      <4> QED
        BY <1>4, <1>5, <3>1, <3>2, <4>1
    <3>3. CASE k \notin LoginIds
      <4>1. logins' = logins
        BY <1>0, <3>1, <3>3
      <4> HIDE DEF r, k, Fine
      <4> QED
        BY <2>1, <4>1
    <3> QED
      BY <3>2, <3>3
  <2>5. ASSUME NEW k, logins' = [logins EXCEPT ![k].taken = TRUE],
               k \in LoginIds =>
                 \/ \E c \in DOMAIN calls : /\ calls[c].pc = "consume" /\ calls[c].login = k
                                            /\ Consume(c) \/ CallbackFails(c)
                 \/ \E p \in ProviderIds : LogoutCallback(p, k)
        PROVE  Fine
    <3> DEFINE r == [logins[k] EXCEPT !.taken = TRUE]
    <3>1. logins' = [logins EXCEPT ![k] = r]
      BY <2>5
    <3>2. CASE k \in LoginIds
      <4>1. r.saved = logins[k].saved /\ r.taken /\ r.step = logins[k].step
        BY <1>0, <3>2 DEF Login
      <4> HIDE DEF r, Fine
      <4> QED
        BY <1>4, <1>5, <2>5, <3>1, <3>2, <4>1
    <3>3. CASE k \notin LoginIds
      <4>1. logins' = logins
        BY <1>0, <3>1, <3>3
      <4> HIDE DEF r, Fine
      <4> QED
        BY <2>1, <4>1
    <3> QED
      BY <3>2, <3>3
  <2>6. ASSUME NEW c \in DOMAIN calls, Consume(c) \/ CallbackFails(c) PROVE Fine
    <3>1. CASE calls[c].pc = "consume"
      <4>1. logins' = [logins EXCEPT ![calls[c].login].taken = TRUE]
        BY <2>6, <3>1 DEF Consume, CallbackFails, At
      <4> HIDE DEF Fine
      <4> QED
        BY <2>5, <2>6, <3>1, <4>1
    <3>2. CASE calls[c].pc # "consume"
      <4> HIDE DEF Fine
      <4> QED
        BY <2>1, <2>6, <3>2 DEF Consume, CallbackFails, At
    <3> QED
      BY <3>1, <3>2
  <2>7. ASSUME NEW p \in ProviderIds, NEW k, LogoutCallback(p, k) PROVE Fine
    <3> HIDE DEF Fine
    <3>1. CASE k \in LoginIds
      <4>1. logins' = [logins EXCEPT ![k].taken = TRUE]
        BY <2>7, <3>1 DEF LogoutCallback
      <4> QED
        BY <2>5, <2>7, <4>1
    <3>2. CASE k \notin LoginIds
      BY <2>1, <2>7, <3>2 DEF LogoutCallback
    <3> QED
      BY <3>1, <3>2
  <2> HIDE DEF Fine
  <2>8. CASE LoginStep \/ UNCHANGED vars
    BY <2>8, <2>1, <1>2, <2>2, <2>3 DEF LoginStep, Discovered, LoginFails, vars
  <2>9. CASE CallbackStep
    BY <2>9, <2>1, <2>4, <2>6 DEF CallbackStep, Callback, CallbackClient, Exchange, Validate,
                                  Resolve, CallbackAnswered
  <2>10. CASE LogoutStep
    BY <2>10, <2>1, <2>7 DEF LogoutStep, Logout, PlainLogout, LogoutRevoked, LogoutClient,
                             LogoutNoClient, LogoutAnswered
  <2>11. CASE Adversity
    BY <2>11, <2>1, <1>5 DEF Adversity, AnswerLost, CookiesExpire, IdsExpire
  <2>12. CASE SessionStep
    BY <2>12, <2>1, SessionQuiet
  <2> QED
    BY <2>8, <2>9, <2>10, <2>11, <2>12 DEF Next
<1> QED
  BY <1>3, <1>5

\* The invariant of FederatedSignInProofs, step by step.
LEMMA Inductive == IInv /\ [Next]_vars => IInv'
  BY TypeStep, JarStep, RenewalsStep, CacheOKStep, CallbackOKStep, LogoutOKStep DEF IInv

\* What is newer than a login stays newer, and is never more than the bounds allow.
LEMMA NewerGrows ==
  ASSUME IInv, OrderOK, [Next]_vars, NEW l \in LoginIds
  PROVE  /\ Newer(l) \subseteq Newer(l)' /\ IsFiniteSet(Newer(l)')
         /\ Cardinality(Newer(l)) \in Nat /\ Cardinality(Newer(l)') \in Nat
         /\ Cardinality(Newer(l)) <= Cardinality(Newer(l)')
<1>0. /\ logins \in Seq(Login) /\ calls \in Seq(Call) /\ LoginsGrow /\ CallsGrow
      /\ logins' \in Seq(Login) /\ calls' \in Seq(Call')
      /\ LoginIds = 1..Len(logins) /\ DOMAIN calls = 1..Len(calls)
      /\ LoginIds' = 1..Len(logins') /\ DOMAIN calls' = 1..Len(calls')
      /\ Len(logins) \in Nat /\ Len(calls) \in Nat /\ MaxLogins \in Nat
      /\ Len(logins') \in Nat /\ Len(calls') \in Nat
      /\ Len(logins) <= Len(logins') /\ Len(calls) <= Len(calls') /\ Len(logins') <= MaxLogins
  <2>1. logins \in Seq(Login) /\ calls \in Seq(Call) /\ LoginsGrow /\ CallsGrow
    BY LoginsStep, CallsStep DEF IInv, TypeOK
  <2> QED
    BY <2>1, BoundsAssumption DEF LoginIds, LoginsGrow, CallsGrow
<1>1. l \in LoginIds' /\ logins'[l].provider = logins[l].provider
  BY <1>0 DEF LoginsGrow, Fixed
<1>2. ASSUME NEW k \in LoginIds, k > l, logins[k].provider = logins[l].provider
      PROVE  k \in Newer(l)'
  <2>1. k \in LoginIds' /\ logins'[k].provider = logins'[l].provider
    BY <1>0, <1>1, <1>2 DEF LoginsGrow, Fixed
  <2> QED
    BY <1>2, <2>1 DEF Newer
<1>3. ASSUME NEW c \in DOMAIN calls, calls[c].kind = "logout", calls[c].at = logins[l].provider,
             calls[c].saved >= l
      PROVE  MaxLogins + c \in Newer(l)'
  <2>1. calls[c].pc \notin {"revoke", "idp"}
    <3>1. calls[c].pc \in {"revoke", "idp"} => calls[c].saved = 0
      BY DEF OrderOK, SavedOK
    <3>2. l > 0
      BY <1>0
    <3> QED
      BY <1>0, <1>3, <3>1, <3>2
  <2>2. Settled(c) /\ calls'[c].kind = calls[c].kind
    BY <2>1, CallKeeps DEF LogoutClient, At
  <2>3. /\ calls'[c].kind = "logout" /\ calls'[c].at = logins'[l].provider
        /\ calls'[c].saved >= l /\ c \in DOMAIN calls'
    BY <1>0, <1>1, <1>3, <2>2 DEF Settled
  <2> QED
    BY <2>3 DEF Newer
<1>4. Newer(l) \subseteq Newer(l)'
  BY <1>2, <1>3 DEF Newer
<1>5. Newer(l)' \subseteq 1..(MaxLogins + Len(calls'))
  <2>1. LoginIds' \subseteq 1..(MaxLogins + Len(calls'))
    BY <1>0
  <2>2. \A c \in DOMAIN calls' : MaxLogins + c \in 1..(MaxLogins + Len(calls'))
    BY <1>0
  <2> QED
    BY <2>1, <2>2 DEF Newer
<1>6. IsFiniteSet(1..(MaxLogins + Len(calls')))
  <2>1. 1 \in Int /\ MaxLogins + Len(calls') \in Int
    BY <1>0
  <2> QED
    BY <2>1, FS_Interval
<1>7. PICK N, M : N = Newer(l) /\ M = Newer(l)'
  OBVIOUS
<1>8. IsFiniteSet(M)
  BY <1>5, <1>6, <1>7, FS_Subset
<1>9. IsFiniteSet(N) /\ Cardinality(N) <= Cardinality(M)
  BY <1>4, <1>7, <1>8, FS_Subset
<1>10. Cardinality(N) \in Nat /\ Cardinality(M) \in Nat
  BY <1>8, <1>9, FS_CardinalityType
<1> QED
  BY <1>4, <1>7, <1>8, <1>9, <1>10

\* An id that a cache holds after that of login l is newer than l.
LEMMA LaterIsNewer ==
  ASSUME IInv, OrderOK, NEW l \in LoginIds, NEW k \in ToSet(cache[logins[l].provider]),
         Before(l, k)
  PROVE  k \in Newer(l)
<1> DEFINE p == logins[l].provider
<1>0. /\ Len(logins) <= MaxLogins /\ LoginIds = 1..Len(logins) /\ DOMAIN calls = 1..Len(calls)
      /\ Len(logins) \in Nat /\ Len(calls) \in Nat /\ MaxLogins \in Nat /\ p \in ProviderIds
  <2>1. logins \in Seq(Login) /\ calls \in Seq(Call) /\ Len(logins) <= MaxLogins
    BY DEF IInv, TypeOK, CacheOK
  <2> QED
    BY <2>1, BoundsAssumption, LoginTyped DEF LoginIds
<1>1. Item(p, k) /\ InItsCache(p, k)
  BY <1>0 DEF IInv, CacheOK, OrderOK
<1>2. Stamp(l) = l
  BY <1>0 DEF Stamp
<1>3. CASE k \in LoginIds
  <2>1. k <= MaxLogins /\ ~(k - MaxLogins \in DOMAIN calls)
    BY <1>0, <1>3
  <2>2. l < k
    BY <1>2, <2>1 DEF Before
  <2>3. logins[k].provider = p
    BY <1>1, <2>1 DEF Item
  <2> QED
    BY <1>0, <1>3, <2>2, <2>3 DEF Newer
<1>4. CASE k \notin LoginIds
  <2> DEFINE c == k - MaxLogins
  <2>1. c \in DOMAIN calls
    BY <1>1, <1>4 DEF Item
  <2>2. k \in Nat
    <3>1. cache[p] \in Seq(1..(MaxLogins + Len(calls)))
      BY <1>0 DEF IInv, TypeOK
    <3>2. DOMAIN cache[p] = 1..Len(cache[p]) /\ \A i \in 1..Len(cache[p]) : cache[p][i] \in Nat
      BY <1>0, <3>1
    <3> QED
      BY <3>2 DEF ToSet
  <2>3. k > MaxLogins /\ ~(k <= MaxLogins) /\ k = MaxLogins + c
    BY <1>0, <2>1, <2>2
  <2>4. calls[c].kind = "logout" /\ calls[c].at = p
    BY <1>1, <2>3 DEF InItsCache
  <2>5. calls[c].saved >= l
    <3>1. l <= calls[c].saved
      BY <1>2, <2>3 DEF Before, Stamp
    <3>2. calls[c].saved \in 0..Len(logins)
      BY <2>1 DEF OrderOK, SavedOK
    <3> QED
      BY <1>0, <3>1, <3>2
  <2> QED
    BY <2>1, <2>3, <2>4, <2>5 DEF Newer
<1> QED
  BY <1>3, <1>4

\* So is the id that pushes the login's out of the cache.
LEMMA SavedIsNewer ==
  ASSUME IInv, [Next]_vars, NEW l \in LoginIds, NEW p, p = logins[l].provider, NEW k,
         \/ k = Len(logins) + 1 /\ k <= MaxLogins /\ NewItem(p, k)
         \/ \E c \in DOMAIN calls :
              /\ k = MaxLogins + c /\ calls'[c].kind = "logout"
              /\ calls'[c].at = p /\ calls'[c].saved = Len(logins)
  PROVE  k \in Newer(l)'
<1>0. /\ logins \in Seq(Login) /\ calls \in Seq(Call) /\ LoginsGrow /\ CallsGrow
      /\ logins' \in Seq(Login) /\ calls' \in Seq(Call')
      /\ LoginIds = 1..Len(logins) /\ DOMAIN calls = 1..Len(calls)
      /\ LoginIds' = 1..Len(logins') /\ DOMAIN calls' = 1..Len(calls')
      /\ Len(logins) \in Nat /\ Len(calls) \in Nat /\ MaxLogins \in Nat
      /\ Len(logins') \in Nat /\ Len(calls') \in Nat
      /\ Len(logins) <= Len(logins') /\ Len(calls) <= Len(calls') /\ Len(logins) <= MaxLogins
  <2>1. logins \in Seq(Login) /\ calls \in Seq(Call) /\ LoginsGrow /\ CallsGrow
        /\ Len(logins) <= MaxLogins
    BY LoginsStep, CallsStep DEF IInv, TypeOK, CacheOK
  <2> QED
    BY <2>1, BoundsAssumption DEF LoginIds, LoginsGrow, CallsGrow
<1>1. l \in LoginIds' /\ logins'[l].provider = p
  BY <1>0 DEF LoginsGrow, Fixed
<1>2. CASE k = Len(logins) + 1 /\ k <= MaxLogins /\ NewItem(p, k)
  <2>1. PICK b \in Browsers : StartLogin(b, p)
    BY <1>0, <1>2 DEF NewItem
  <2>2. PICK x : logins' = Append(logins, x) /\ x.provider = p
    BY <2>1 DEF StartLogin
  <2>3. k \in LoginIds' /\ k > l /\ logins'[k].provider = p
    BY <1>0, <1>2, <2>2
  <2> QED
    BY <1>1, <2>3 DEF Newer
<1>3. ASSUME NEW c \in DOMAIN calls, k = MaxLogins + c, calls'[c].kind = "logout",
             calls'[c].at = p, calls'[c].saved = Len(logins)
      PROVE  k \in Newer(l)'
  <2>1. c \in DOMAIN calls' /\ calls'[c].saved >= l
    BY <1>0, <1>3
  <2> QED
    BY <1>1, <1>3, <2>1 DEF Newer
<1> QED
  BY <1>2, <1>3

\* The limit of a cache costs a login its id only when CacheMax newer ones came in.
LEMMA SaveKeeps ==
  ASSUME IInv, OrderOK, [Next]_vars, NEW l \in LoginIds, l > old,
         NEW p, p = logins[l].provider, Saves(p), l \in ToSet(cache[p]), l \notin ToSet(cache'[p])
  PROVE  Cardinality(Newer(l)') >= CacheMax
<1> DEFINE q == cache[p]
<1>0. /\ q \in Seq(1..(MaxLogins + Len(calls))) /\ Len(q) <= CacheMax /\ OldFirst(q) /\ Ordered(q)
      /\ p \in ProviderIds /\ DOMAIN q = 1..Len(q) /\ Len(q) \in Nat /\ CacheMax \in Nat \ {0}
      /\ ~IdTooOld(l)
  <2>1. logins \in Seq(Login) /\ Len(logins) <= MaxLogins /\ old \in 0..Len(logins)
    BY DEF IInv, TypeOK, CacheOK
  <2>2. p \in ProviderIds
    BY <2>1, LoginTyped
  <2>3. q \in Seq(1..(MaxLogins + Len(calls))) /\ Len(q) <= CacheMax /\ OldFirst(q) /\ Ordered(q)
    BY <2>2, OrderedOldFirst DEF IInv, TypeOK, OrderOK
  <2>4. ~IdTooOld(l)
    BY <2>1, BoundsAssumption DEF LoginIds, IdTooOld
  <2> QED
    BY <2>2, <2>3, <2>4, BoundsAssumption
<1>1. PICK r : r = cache'[p]
  OBVIOUS
<1>2. PICK k : /\ r = Save(q, k)
               /\ \/ k = Len(logins) + 1 /\ k <= MaxLogins /\ NewItem(p, k)
                  \/ \E c \in DOMAIN calls :
                       /\ k = MaxLogins + c /\ calls'[c].kind = "logout"
                       /\ calls'[c].at = p /\ calls'[c].saved = Len(logins)
  BY <1>1 DEF Saves
<1>3. k \in Newer(l)'
  BY <1>2, SavedIsNewer
<1> HIDE DEF q
<1>4. PICK m \in 0..Len(q) : KeepsEnd(q, k, m, r)
  <2>1. \E m \in 0..Len(q) : KeepsEnd(q, k, m, Save(q, k))
    BY <1>0, SaveOrder
  <2> QED
    BY <1>2, <2>1
<1> DEFINE n == Len(q) - m
<1>5. /\ m \in Nat /\ n \in Nat /\ DOMAIN r = 1..(n + 1) /\ Len(r) = n + 1 /\ r[n + 1] = k
      /\ \A i \in 1..n : m + i \in DOMAIN q /\ r[i] = q[m + i]
      /\ \A i \in 1..m : IdTooOld(q[i]) \/ (i = m /\ Len(r) = CacheMax)
  <2>1. m \in Nat /\ n \in Nat /\ m + n = Len(q) /\ \A i \in 1..n : m + i \in DOMAIN q
    BY <1>0
  <2> QED
    BY <1>4, <2>1 DEF KeepsEnd
<1>6. PICK i \in DOMAIN q : q[i] = l
  BY DEF ToSet, q
<1>7. i \in 1..m
  <2>1. CASE i > m
    <3>1. i - m \in 1..n /\ m + (i - m) = i
      BY <1>0, <1>5, <2>1
    <3>2. r[i - m] = l /\ i - m \in DOMAIN r
      BY <1>5, <1>6, <3>1
    <3> QED
      BY <1>1, <3>2 DEF ToSet
  <2> QED
    BY <1>0, <1>5, <2>1
<1>8. i = m /\ Len(r) = CacheMax
  BY <1>0, <1>5, <1>6, <1>7
<1>9. \A j \in DOMAIN r : r[j] \in Newer(l)'
  <2> TAKE j \in DOMAIN r
  <2>1. CASE j \in 1..n
    <3>1. m + j \in DOMAIN q /\ r[j] = q[m + j] /\ i < m + j
      BY <1>5, <1>8, <2>1
    <3>2. Before(l, q[m + j]) /\ q[m + j] \in ToSet(q)
      BY <1>0, <1>6, <3>1 DEF Ordered, ToSet
    <3>3. q[m + j] \in Newer(l)
      BY <3>2, LaterIsNewer DEF q
    <3> QED
      BY <3>1, <3>3, NewerGrows
  <2>2. CASE j = n + 1
    BY <1>3, <1>5, <2>2
  <2> QED
    BY <1>5, <2>1, <2>2
<1>10. IsInjective(r)
  BY <1>0, <1>1, CacheStep DEF Holds
<1>11. PICK M : M = Newer(l)'
  OBVIOUS
<1>12. IsFiniteSet(M) /\ Cardinality(M) \in Nat
  BY <1>11, NewerGrows
<1>13. DOMAIN r = 1..CacheMax
  BY <1>5, <1>8
<1>14. r \in Injection(1..CacheMax, M)
  <2>1. r \in [1..CacheMax -> M]
    <3>1. r = [j \in DOMAIN r |-> r[j]]
      <4>1. r \in Seq(1..(MaxLogins + Len(calls')))
        BY <1>0, <1>1, CacheStep DEF Holds
      <4> QED
        BY <4>1
    <3> QED
      BY <1>9, <1>11, <1>13, <3>1
  <2>2. \A a, b \in 1..CacheMax : r[a] = r[b] => a = b
    BY <1>10, <1>13 DEF IsInjective
  <2> QED
    BY <2>1, <2>2 DEF Injection, IsInjective
<1>15. Cardinality(1..CacheMax) <= Cardinality(M)
  BY <1>12, <1>14, FS_Injection
<1>16. Cardinality(1..CacheMax) = CacheMax
  <2>1. 1 \in Int /\ CacheMax \in Int /\ ~(1 > CacheMax) /\ CacheMax - 1 + 1 = CacheMax
    BY <1>0
  <2> QED
    BY <2>1, FS_Interval
<1> QED
  BY <1>0, <1>11, <1>12, <1>15, <1>16

\* A step leaves what is remembered remembered.
LEMMA RememberedStep ==
  ASSUME IInv, OrderOK, RecentLoginsRemembered, [Next]_vars
  PROVE  RecentLoginsRemembered'
<1> SUFFICES ASSUME NEW l \in LoginIds', logins'[l].saved, ~logins'[l].taken, l > old',
                    Cardinality(Newer(l)') < CacheMax
             PROVE  Contains(cache'[logins'[l].provider], l)
  BY DEF RecentLoginsRemembered, CacheOf
<1>0. /\ cache \in [ProviderIds -> Seq(1..(MaxLogins + Len(calls)))]
      /\ cache' \in [ProviderIds -> Seq(1..(MaxLogins + Len(calls')))]
      /\ logins \in Seq(Login) /\ LoginsGrow
  BY CacheStep, LoginsStep DEF IInv, TypeOK
<1>1. PICK p : p = logins'[l].provider
  OBVIOUS
<1>2. CASE l \notin LoginIds
  <2>1. l = Len(logins) + 1 /\ \E b \in Browsers, q \in ProviderIds : StartLogin(b, q)
    BY <1>2, LoginProgress
  <2>2. PICK b \in Browsers, q \in ProviderIds : StartLogin(b, q)
    BY <2>1
  <2> DEFINE s == ProtocolOf(q) = "saml"
             r == [browser |-> b, provider |-> q, protocol |-> ProtocolOf(q),
                   issuer |-> Config(q).issuer, step |-> IF s THEN "answer" ELSE "discover",
                   saved |-> s, taken |-> FALSE, used |-> FALSE]
  <2>3. PICK x : logins' = Append(logins, x) /\ x.provider = q /\ (x.saved => s)
    <3>1. logins' = Append(logins, r)
      BY <2>2 DEF StartLogin
    <3>2. r.provider = q /\ (r.saved => s)
      <4> HIDE DEF s
      <4> QED
        OBVIOUS
    <3> HIDE DEF r
    <3> QED
      BY <3>1, <3>2
  <2>4. p = q /\ ProtocolOf(q) = "saml"
    BY <1>0, <1>1, <2>1, <2>3
  <2>5. cache' = [cache EXCEPT ![p] = Save(@, l)]
    BY <2>1, <2>2, <2>4 DEF StartLogin, CacheOf
  <2>6. cache'[p] = Save(cache[p], l)
    BY <1>0, <2>4, <2>5
  <2>7. PICK n \in 0..Len(cache[p]) : KeepsEnd(cache[p], l, n, cache'[p])
    <3>1. /\ cache[p] \in Seq(1..(MaxLogins + Len(calls))) /\ Len(cache[p]) <= CacheMax
          /\ OldFirst(cache[p])
      BY <2>4, OrderedOldFirst DEF IInv, TypeOK
    <3> QED
      BY <2>6, <3>1, SaveOrder
  <2>8. Len(cache'[p]) \in Nat \ {0} /\ cache'[p][Len(cache'[p])] = l
    <3>1. Len(cache[p]) \in Nat
      BY <1>0, <2>4
    <3> QED
      BY <2>7, <3>1 DEF KeepsEnd
  <2> QED
    BY <1>1, <2>8 DEF Contains
<1>3. CASE l \in LoginIds
  <2>1. LoginPast(l)
    BY <1>3, LoginProgress
  <2>2. /\ logins[l].saved /\ ~logins[l].taken /\ \A e \in Bootable : ~Restart(e)
        /\ p = logins[l].provider /\ p \in ProviderIds
    BY <1>0, <1>1, <1>3, <2>1, LoginTyped DEF LoginPast, LoginsGrow, Fixed
  <2>3. old \in Nat /\ l \in Nat /\ old' \in Nat /\ l > old
    <3>1. old' = old \/ old < old'
      BY <2>2, SessionQuiet
      DEF Next, LoginStep, CallbackStep, LogoutStep, Adversity, vars, StartLogin, Discovered,
          LoginAnswered, LoginFails, Callback, CallbackClient, Exchange, Validate, Consume, Resolve,
          Record, CallbackFails, CallbackAnswered, Logout, PlainLogout, LogoutCallback,
          LogoutRevoked, LogoutClient, LogoutNoClient, LogoutAnswered, AnswerLost, CookiesExpire,
          IdsExpire
    <3>2. old \in Nat /\ l \in Nat /\ old' \in Nat
      <4>1. old \in 0..Len(logins) /\ Len(logins) \in Nat /\ LoginIds = 1..Len(logins)
        BY <1>0 DEF IInv, TypeOK, LoginIds
      <4>2. old' \in 0..Len(logins') /\ Len(logins') \in Nat
        BY TypeStep, <1>0 DEF TypeOK, LoginsGrow
      <4> QED
        BY <1>3, <4>1, <4>2
    <3> QED
      BY <3>1, <3>2
  <2>4. Cardinality(Newer(l)) < CacheMax
    <3>1. PICK n, m : n = Cardinality(Newer(l)) /\ m = Cardinality(Newer(l)')
      OBVIOUS
    <3>2. n \in Nat /\ m \in Nat /\ n <= m
      BY <1>3, <3>1, NewerGrows
    <3> QED
      BY <3>1, <3>2, BoundsAssumption
  <2>5. l \in ToSet(cache[p])
    <3>1. Contains(cache[p], l)
      BY <1>3, <2>2, <2>3, <2>4 DEF RecentLoginsRemembered, CacheOf
    <3>2. DOMAIN cache[p] = 1..Len(cache[p])
      BY <1>0, <2>2
    <3> QED
      BY <3>1, <3>2 DEF Contains, ToSet
  <2>6. l \in ToSet(cache'[p])
    <3>1. CASE cache'[p] = cache[p]
      BY <2>5, <3>1
    <3>2. CASE Forgets(p)
      <4>1. PICK k : cache'[p] = Forget(cache[p], k) /\ (k \in LoginIds => logins'[k].taken)
        BY <3>2 DEF Forgets
      <4>2. l # k
        BY <1>3, <4>1
      <4>3. cache[p] \in Seq(1..(MaxLogins + Len(calls)))
        BY <1>0, <2>2
      <4> QED
        BY <2>5, <4>1, <4>2, <4>3, ForgetOrder
    <3>3. CASE Saves(p)
      <4>1. ASSUME l \notin ToSet(cache'[p]) PROVE FALSE
        <5>1. PICK m : m = Cardinality(Newer(l)')
          OBVIOUS
        <5>2. m >= CacheMax
          BY <1>3, <2>2, <2>3, <2>5, <3>3, <4>1, <5>1, SaveKeeps
        <5>3. m \in Nat /\ m < CacheMax
          BY <1>3, <5>1, NewerGrows
        <5> QED
          BY <5>2, <5>3, BoundsAssumption
      <4> QED
        BY <4>1
    <3> QED
      BY <2>2, <3>1, <3>2, <3>3, CacheChanges
  <2>7. DOMAIN cache'[p] = 1..Len(cache'[p])
    BY <1>0, <2>2
  <2> QED
    BY <1>1, <2>6, <2>7 DEF Contains, ToSet
<1> QED
  BY <1>2, <1>3

\* The caches are in saving order, in every reachable state.
THEOREM CachesInOrder == Spec => [](IInv /\ OrderOK)
<1>1. Init => IInv /\ OrderOK
  <2>1. Init => OrderOK
    BY DEF Init, OrderOK, Ordered, SavedOK, ToSet
  <2> QED
    BY <2>1, InitIInv
<1>2. IInv /\ OrderOK /\ [Next]_vars => (IInv /\ OrderOK)'
  BY Inductive, OrderStep
<1> QED
  BY <1>1, <1>2, PTL DEF Spec

\* The limit of the request-id cache costs a login its id only when CacheMax later logins and
\* single logouts with its provider came in between: no other provider's, no expiry of another
\* id and no answer to another login.
THEOREM Remembered == Spec => []RecentLoginsRemembered
<1>1. Init => RecentLoginsRemembered
  BY DEF Init, RecentLoginsRemembered, LoginIds
<1>2. IInv /\ OrderOK /\ RecentLoginsRemembered /\ [Next]_vars => RecentLoginsRemembered'
  BY RememberedStep
<1> QED
  BY <1>1, <1>2, CachesInOrder, PTL DEF Spec

--------------------------------------------------------------------------------
\* Who is disturbed, and what nobody disturbs.

CallbackOf(c, l) == calls[c].kind # "logout" /\ calls[c].login = l
Early == {"client", "exchange", "validate", "consume"}

\* A login that nothing happened to: it is neither too old nor of another start, the cookie
\* is its own as long as its answer is awaited, its answer is brought once and to the right
\* place, and its code or its id is used by no one else.
Undisturbed(l) ==
  /\ l > old /\ logins[l].issuer = Config(logins[l].provider).issuer
  /\ logins[l].protocol = "saml" => logins[l].saved
  /\ logins[l].step = "asked" => jar[logins[l].browser][logins[l].protocol] = l
  /\ \A c, d \in DOMAIN calls : CallbackOf(c, l) /\ CallbackOf(d, l) => c = d
  /\ l \in redeemed \/ logins[l].taken =>
       \E c \in DOMAIN calls : CallbackOf(c, l) /\ calls[c].pc \notin Early
  /\ \A c \in DOMAIN calls : CallbackOf(c, l) /\ calls[c].pc # "done" =>
       calls[c].tx = l /\ calls[c].at = logins[l].provider /\ calls[c].issuer = logins[l].issuer

HarmlessOK ==
  /\ \A c \in DOMAIN calls : calls[c].kind # "logout" => calls[c].login \in LoginIds
  /\ \A l \in LoginIds : l \notin disturbed => Undisturbed(l)

\* What disturbed a login stays known.
LEMMA DisturbedGrows ==
  ASSUME [Next]_vars
  PROVE  disturbed \subseteq disturbed'
<1>1. \A L : Disturb(L) => disturbed \subseteq disturbed'
  BY DEF Disturb
<1> QED
  BY <1>1, SessionQuiet
  DEF Next, LoginStep, CallbackStep, LogoutStep, Adversity, vars, StartLogin, Discovered,
      LoginAnswered, LoginFails, Callback, CallbackClient, Exchange, Validate, Consume, Resolve,
      Record, CallbackFails, CallbackAnswered, Logout, PlainLogout, LogoutCallback, LogoutRevoked,
      LogoutClient, LogoutNoClient, LogoutAnswered, AnswerLost, CookiesExpire, IdsExpire, Restart

\* The transaction cookies, of one protocol and of the other.
LEMMA CookieKept ==
  ASSUME NEW j \in Jar, NEW q \in Protocols
  PROVE  /\ \A x \in Protocols : x # q => \A l : SetTransaction(j, x, l)[q] = j[q]
         /\ \A l : SetTransaction(j, q, l)[q] = l
         /\ \A x \in Protocols : x # q => ClearTransaction(j, x)[q] = j[q]
         /\ \A c : calls[c].kind \in Protocols => Granted(j, c)[q] = j[q]
         /\ \A P \in SUBSET Protocols : ClearHints(EndSession(j), P)[q] = j[q]
<1>1. /\ DOMAIN j = {"oidc", "saml", "session", "via", "oidcHint", "samlHint"}
      /\ q \in DOMAIN j /\ q \notin {"session", "via", "oidcHint", "samlHint"}
      /\ j = [k \in DOMAIN j |-> j[k]]
  <2>1. j = [k \in DOMAIN j |-> j[k]]
    BY DEF Jar
  <2> QED
    BY <2>1, JarDomain DEF Protocols
<1>2. \A x, l : /\ DOMAIN [j EXCEPT ![x] = l] = DOMAIN j
                /\ [j EXCEPT ![x] = l][q] = IF x = q THEN l ELSE j[q]
  BY <1>1
<1>3. \A x \in Protocols : HintOf[x] \in {"oidcHint", "samlHint"}
  BY DEF HintOf, Protocols
<1>4. \A x \in Protocols : x # q => \A l : SetTransaction(j, x, l)[q] = j[q]
  BY <1>2 DEF SetTransaction
<1>5. \A l : SetTransaction(j, q, l)[q] = l
  BY <1>2 DEF SetTransaction
<1>6. \A x \in Protocols : x # q => ClearTransaction(j, x)[q] = j[q]
  BY <1>2 DEF ClearTransaction
<1>7. ASSUME NEW c, calls[c].kind \in Protocols PROVE Granted(j, c)[q] = j[q]
  <2> DEFINE e == [j EXCEPT !.session = calls[c].login, !.via = calls[c].issuer]
             h == HintOf[calls[c].kind]
  <2>1. Granted(j, c) = [e EXCEPT ![h] = calls[c].login]
    BY DEF Granted, SetHint
  <2>2. DOMAIN e = DOMAIN j /\ e[q] = j[q] /\ e = [k \in DOMAIN j |-> e[k]]
    BY <1>1
  <2>3. h # q
    BY <1>1, <1>3, <1>7
  <2> HIDE DEF e, h
  <2> QED
    BY <1>1, <2>1, <2>2, <2>3
<1>8. ASSUME NEW P \in SUBSET Protocols PROVE ClearHints(EndSession(j), P)[q] = j[q]
  <2> DEFINE e == EndSession(j)
             K == {HintOf[x] : x \in P}
  <2>1. DOMAIN e = DOMAIN j /\ e[q] = j[q]
    BY <1>1 DEF EndSession
  <2>2. q \notin K
    BY <1>1, <1>3
  <2>3. ClearHints(e, P) = [k \in DOMAIN e |-> IF k \in K THEN None ELSE e[k]]
    BY DEF ClearHints
  <2> HIDE DEF e, K
  <2>4. ClearHints(e, P)[q] = j[q]
    BY <1>1, <2>1, <2>2, <2>3
  <2> QED
    BY <2>4 DEF e
<1> QED
  BY <1>4, <1>5, <1>6, <1>7, <1>8

\* A renewal or the end of a hint leaves the transaction cookies alone.
LEMMA SessionKeepsCookies ==
  ASSUME IInv, SessionStep, NEW b \in Browsers, NEW q \in Protocols
  PROVE  jar'[b][q] = jar[b][q]
<1>0. /\ jar \in [Browsers -> Jar] /\ jar[b] \in Jar
      /\ DOMAIN jar[b] = {"oidc", "saml", "session", "via", "oidcHint", "samlHint"}
      /\ q \in {"oidc", "saml"}
  BY JarDomain DEF IInv, TypeOK, Protocols
<1>1. ASSUME NEW a \in Browsers, NEW x, jar' = [jar EXCEPT ![a] = x], a = b => x[q] = jar[b][q]
      PROVE  jar'[b][q] = jar[b][q]
  BY <1>0, <1>1
<1>2. \A r : Renewed(jar[b], r)[q] = jar[b][q]
  BY <1>0 DEF Renewed
<1>6. EndSession(jar[b])[q] = jar[b][q]
  BY <1>0 DEF EndSession
<1>3. \A p \in Protocols : /\ ClearHints(jar[b], {p})[q] = jar[b][q]
                          /\ EndSession(ClearHints(jar[b], {p}))[q] = jar[b][q]
  <2> TAKE p \in Protocols
  <2> DEFINE j == ClearHints(jar[b], {p})
  <2>1. q \notin {HintOf[k] : k \in {p}}
    BY <1>0 DEF HintOf, Protocols
  <2>2. j[q] = jar[b][q] /\ DOMAIN j = DOMAIN jar[b]
    BY <1>0, <2>1 DEF ClearHints
  <2> HIDE DEF j
  <2>3. EndSession(j)[q] = jar[b][q]
    BY <1>0, <2>2 DEF EndSession
  <2> QED
    BY <2>2, <2>3 DEF j
<1>4. ASSUME NEW r \in renewals, RefreshAnswered(r) \/ RefreshRejected(r)
      PROVE  jar'[b][q] = jar[b][q]
  <2>1. r.browser \in Browsers
    BY DEF IInv, RenewalsOK, Renewal
  <2>2. CASE RefreshAnswered(r)
    BY <1>1, <1>2, <2>1, <2>2 DEF RefreshAnswered
  <2>3. CASE RefreshRejected(r)
    BY <1>1, <1>6, <2>1, <2>3 DEF RefreshRejected
  <2> QED
    BY <1>4, <2>2, <2>3
<1>5. ASSUME NEW a \in Browsers, NEW p \in Protocols, HintExpires(a, p)
      PROVE  jar'[b][q] = jar[b][q]
  <2> DEFINE j == ClearHints(jar[a], {p})
             e == EndSession(j)
  <2>1. jar' = [jar EXCEPT ![a] = j] \/ jar' = [jar EXCEPT ![a] = e]
    BY <1>5 DEF HintExpires
  <2>2. a = b => j[q] = jar[b][q] /\ e[q] = jar[b][q]
    BY <1>3
  <2> HIDE DEF j, e
  <2> QED
    BY <1>1, <2>1, <2>2
<1> QED
  BY <1>4, <1>5 DEF SessionStep, Refresh

\* The cookie of a login goes only when something disturbs the login.
LEMMA CookieStep ==
  ASSUME IInv, [Next]_vars, NEW l \in LoginIds, l \notin disturbed', NEW b, b = logins[l].browser,
         NEW q, q = logins[l].protocol, jar[b][q] = l
  PROVE  jar'[b][q] = l
<1> DEFINE Fine == jar'[b][q] = l
<1>0. /\ jar \in [Browsers -> Jar] /\ b \in Browsers /\ q \in Protocols /\ jar[b] \in Jar
      /\ DOMAIN jar[b] = {"oidc", "saml", "session", "via", "oidcHint", "samlHint"}
      /\ calls \in Seq(Call) /\ q \in DOMAIN jar[b]
  <2>1. logins \in Seq(Login) /\ jar \in [Browsers -> Jar] /\ calls \in Seq(Call)
    BY DEF IInv, TypeOK
  <2>2. b \in Browsers /\ q \in Protocols
    BY <2>1, LoginTyped
  <2> QED
    BY <2>1, <2>2, JarDomain DEF Protocols
<1>10. \A c \in DOMAIN calls : calls[c].browser \in Browsers
                               /\ calls[c].kind \in Protocols \cup {"logout"}
  <2> TAKE c \in DOMAIN calls
  <2>1. calls[c] \in Call
    BY <1>0
  <2> QED
    BY <2>1 DEF Call
<1>1. ASSUME jar' = jar PROVE Fine
  BY <1>1
<1>2. ASSUME NEW a \in Browsers, NEW x, jar' = [jar EXCEPT ![a] = x], a = b => x[q] = l PROVE Fine
  BY <1>0, <1>2
<1>3. ASSUME NEW L, Disturb(L) PROVE l \notin L
  BY <1>3 DEF Disturb
<1>4. ASSUME NEW k \in LoginIds, LoginAnswered(k) PROVE Fine
  <2> DEFINE a == logins[k].browser
             y == logins[k].protocol
  <2>1. /\ jar' = [jar EXCEPT ![a] = SetTransaction(jar[a], y, k)]
        /\ l \notin SameCookie(a, y) \ {k}
    BY <1>3, <1>4 DEF LoginAnswered
  <2>2. a \in Browsers /\ y \in Protocols
    BY LoginTyped DEF IInv, TypeOK
  <2>3. a = b => SetTransaction(jar[a], y, k)[q] = l
    <3>1. CASE l = k
      BY <1>0, <3>1, CookieKept
    <3>2. CASE a = b /\ y = q /\ l # k
      BY <2>1, <3>2 DEF SameCookie
    <3>3. CASE a = b /\ y # q
      BY <1>0, <2>2, <3>3, CookieKept
    <3> QED
      BY <3>1, <3>2, <3>3
  <2> HIDE DEF a, y, Fine
  <2> QED
    BY <1>2, <2>1, <2>2, <2>3
<1>5. ASSUME NEW c \in DOMAIN calls, CallbackAnswered(c) PROVE Fine
  <2> DEFINE a == calls[c].browser
             j == ClearTransaction(jar[a], calls[c].kind)
             r == IF At(c, "accepted") THEN Granted(j, c) ELSE j
  <2>1. jar' = [jar EXCEPT ![a] = r] /\ l \notin SameCookie(a, calls[c].kind)
    BY <1>3, <1>5 DEF CallbackAnswered
  <2>2. a \in Browsers
    BY <1>10
  <2>3. a = b => r[q] = l
    <3> SUFFICES ASSUME a = b PROVE r[q] = l
      OBVIOUS
    <3>1. calls[c].kind # q /\ calls[c].kind \in Protocols
      <4>1. calls[c].kind # q
        BY <2>1 DEF SameCookie
      <4>2. calls[c].kind # "logout"
        BY <1>5 DEF CallbackAnswered, IInv, LogoutOK
      <4> QED
        BY <1>10, <4>1, <4>2
    <3>2. j[q] = l
      BY <1>0, <3>1, CookieKept
    <3>3. j \in Jar
      BY <1>0, <3>1, ClearTransactionProps DEF IInv, JarOK, TypeOK
    <3> HIDE DEF j
    <3>4. Granted(j, c)[q] = l
      BY <1>0, <3>1, <3>2, <3>3, CookieKept
    <3> QED
      BY <3>2, <3>4
  <2> HIDE DEF r, a, Fine
  <2> QED
    BY <1>2, <2>1, <2>2, <2>3
<1>6. ASSUME NEW a \in Browsers, NEW P \in SUBSET Protocols,
             jar' = [jar EXCEPT ![a] = ClearHints(EndSession(@), P)]
      PROVE  Fine
  BY <1>0, <1>2, <1>6, CookieKept
<1>7. ASSUME NEW c \in DOMAIN calls, LogoutAnswered(c) PROVE Fine
  <2>1. calls[c].browser \in Browsers
    BY <1>10
  <2> HIDE DEF Fine
  <2> QED
    BY <1>6, <1>7, <2>1 DEF LogoutAnswered
<1>8. ASSUME NEW a \in Browsers, PlainLogout(a) PROVE Fine
  <2> HIDE DEF Fine
  <2> QED
    BY <1>6, <1>8 DEF PlainLogout, Protocols
<1>9. ASSUME NEW k \in LoginIds, CookiesExpire(k) PROVE Fine
  <2>1. l \notin 1..k
    BY <1>3, <1>9 DEF CookiesExpire
  <2> QED
    BY <1>0, <1>9, <2>1 DEF CookiesExpire
<1> HIDE DEF Fine
<1>11. Fine
  <2>1. CASE LoginStep \/ UNCHANGED vars
    BY <2>1, <1>1, <1>4 DEF LoginStep, StartLogin, Discovered, LoginFails, vars
  <2>2. CASE CallbackStep
    BY <2>2, <1>1, <1>5 DEF CallbackStep, Callback, CallbackClient, Exchange, Validate, Consume,
                            Resolve, Record, CallbackFails
  <2>3. CASE LogoutStep
    BY <2>3, <1>1, <1>7, <1>8 DEF LogoutStep, Logout, LogoutCallback, LogoutRevoked, LogoutClient,
                                  LogoutNoClient
  <2>4. CASE Adversity
    BY <2>4, <1>1, <1>9 DEF Adversity, AnswerLost, IdsExpire, Restart
  <2>5. CASE SessionStep
    BY <1>0, <2>5, SessionKeepsCookies DEF Fine
  <2> QED
    BY <2>1, <2>2, <2>3, <2>4, <2>5 DEF Next
<1> QED
  BY <1>11 DEF Fine

\* What a callback answers, and with what, it keeps until it is done; it never comes back to
\* its first steps.
LEMMA CallbackKeeps ==
  ASSUME IInv, [Next]_vars, NEW d \in DOMAIN calls, calls[d].kind # "logout"
  PROVE  /\ calls'[d].kind = calls[d].kind /\ calls'[d].login = calls[d].login
         /\ calls[d].pc \notin Early => calls'[d].pc \notin Early
         /\ calls'[d].pc # "done" =>
              /\ calls[d].pc # "done" /\ calls'[d].tx = calls[d].tx
              /\ calls'[d].at = calls[d].at /\ calls'[d].issuer = calls[d].issuer
<1>0. calls[d] \in Call /\ calls \in Seq(Call)
  BY DEF IInv, TypeOK
<1>1. CASE calls'[d] = calls[d]
  BY <1>1
<1>2. CASE calls'[d] = Finished(calls[d])
  <2>1. Finished(calls[d]).pc = "done" /\ Finished(calls[d]).kind = calls[d].kind
        /\ Finished(calls[d]).login = calls[d].login
    BY <1>0 DEF Finished, Call
  <2> QED
    BY <1>2, <2>1 DEF Early
<1>3. CASE Moved(d)
  <2>1. calls[d].pc # "done" => calls[d].pc \notin {"revoke", "idp", "leave"}
    BY DEF IInv, CallbackOK, CallOK
  <2>2. /\ calls[d].pc # "done"
        /\ \E x \in {"exchange", "consume", "resolve", "record", "accepted", "refused"} :
             /\ Goto(d, x)
             /\ calls[d].pc \notin Early => x \notin Early
    BY <1>3, <2>1 DEF Moved, CallbackClient, Exchange, Validate, Consume, Resolve, Record,
                      CallbackFails, LogoutRevoked, LogoutClient, LogoutNoClient, At, Early
  <2>3. PICK x : Goto(d, x) /\ (calls[d].pc \notin Early => x \notin Early)
    BY <2>2
  <2>4. calls'[d] = [calls[d] EXCEPT !.pc = x]
    BY <1>0, <2>3 DEF Goto
  <2>5. /\ calls'[d].pc = x /\ calls'[d].kind = calls[d].kind /\ calls'[d].login = calls[d].login
        /\ calls'[d].tx = calls[d].tx /\ calls'[d].at = calls[d].at
        /\ calls'[d].issuer = calls[d].issuer
    BY <1>0, <2>4 DEF Call
  <2> QED
    BY <2>2, <2>3, <2>5
<1> QED
  BY <1>1, <1>2, <1>3, CallCases

\* A callback that does not disturb its login is the first one, in the login's browser, at
\* the login's provider, with the transaction of the login.
LEMMA UndisturbedCallback ==
  ASSUME IInv, HarmlessOK, NEW b \in Browsers, NEW l \in LoginIds, NEW p \in ProviderIds,
         NEW i \in Issuers, Callback(b, l, p, i), l \notin disturbed',
         disturbed \subseteq disturbed'
  PROVE  /\ Undisturbed(l) /\ \A c \in DOMAIN calls : ~CallbackOf(c, l)
         /\ \E r : /\ calls' = Append(calls, r) /\ r.kind = logins[l].protocol /\ r.login = l
                   /\ r.at = logins[l].provider /\ r.issuer = logins[l].issuer /\ r.tx = l
                   /\ r.pc \in {"client", "validate"}
<1> DEFINE q == logins[l].protocol
           tx == ReadTransaction(b, q)
           strange == \/ b # logins[l].browser \/ p # logins[l].provider
                      \/ i # logins[l].issuer
                      \/ \E c \in DOMAIN calls : calls[c].kind # "logout" /\ calls[c].login = l
           x == CallbackFirstStep(q, tx, p)
           r == [browser |-> b, kind |-> q, login |-> l, at |-> p, issuer |-> i,
                 tx |-> tx, replay |-> logins[l].used, saved |-> 0, pc |-> x]
<1>1. Undisturbed(l)
  BY DEF HarmlessOK
<1>2. ~strange
  <2>1. strange => Disturb({l})
    BY DEF Callback
  <2> HIDE DEF strange
  <2> QED
    BY <2>1 DEF Disturb
<1>3. tx = l
  <2>1. logins[l].step = "asked"
    BY DEF Callback
  <2> QED
    BY <1>1, <1>2, <2>1 DEF Undisturbed, ReadTransaction
<1>4. calls' = Append(calls, r)
  BY DEF Callback
<1>5. x \in {"client", "validate"}
  <2>1. logins \in Seq(Login) /\ jar[b] \in Jar /\ q \in Protocols /\ LoginIds = DOMAIN logins
    BY LoginTyped DEF IInv, TypeOK, LoginIds
  <2>2. p = logins[l].provider
    BY <1>2
  <2>3. tx # None
    <3>1. Len(logins) <= MaxLogins /\ MaxLogins \in Nat /\ l \in 1..Len(logins)
      BY <2>1, BoundsAssumption DEF IInv, CacheOK
    <3> QED
      BY <1>3, <3>1, BoundsAssumption
  <2> QED
    BY <1>3, <2>2, <2>3 DEF CallbackFirstStep
<1>6. p = logins[l].provider /\ i = logins[l].issuer /\ \A c \in DOMAIN calls : ~CallbackOf(c, l)
  BY <1>2 DEF CallbackOf
<1> HIDE DEF x, tx
<1>7. /\ r.kind = q /\ r.login = l /\ r.at = p /\ r.issuer = i /\ r.tx = tx /\ r.pc = x
  OBVIOUS
<1> QED
  BY <1>1, <1>3, <1>4, <1>5, <1>6, <1>7

\* After a step, a callback of login l is one that was there, or the step begins it.
LEMMA CallbacksOf ==
  ASSUME IInv, [Next]_vars, NEW l \in LoginIds', NEW c \in DOMAIN calls', CallbackOf(c, l)'
  PROVE  \/ c \in DOMAIN calls /\ CallbackOf(c, l)
         \/ /\ c \notin DOMAIN calls /\ c = Len(calls) + 1 /\ l \in LoginIds
            /\ \E b \in Browsers, p \in ProviderIds, i \in Issuers : Callback(b, l, p, i)
<1>0. calls \in Seq(Call)
  BY DEF IInv, TypeOK
<1>1. CASE c \in DOMAIN calls
  BY <1>1, CallKeeps DEF CallbackOf
<1>2. CASE c \notin DOMAIN calls
  <2>1. c = Len(calls) + 1
    BY <1>2, NewCall
  <2>2. ASSUME NEW b \in Browsers, Logout(b) PROVE FALSE
    <3>1. PICK r : calls' = Append(calls, r) /\ r.kind = "logout"
      BY <2>2 DEF Logout
    <3> QED
      BY <1>0, <2>1, <3>1 DEF CallbackOf
  <2>3. ASSUME NEW b \in Browsers, NEW k \in LoginIds, NEW p \in ProviderIds, NEW i \in Issuers,
               Callback(b, k, p, i)
        PROVE  k = l
    <3>1. PICK r : calls' = Append(calls, r) /\ r.login = k
      BY <2>3 DEF Callback
    <3> QED
      BY <1>0, <2>1, <3>1 DEF CallbackOf
  <2> QED
    BY <1>2, <2>1, <2>2, <2>3, NewCall
<1> QED
  BY <1>1, <1>2

\* A callback answers a login that was begun, also when it is done.
LEMMA CallbackLoginsStep ==
  ASSUME IInv, HarmlessOK, [Next]_vars, NEW c \in DOMAIN calls', calls'[c].kind # "logout"
  PROVE  calls'[c].login \in LoginIds'
<1>0. calls \in Seq(Call) /\ LoginIds \subseteq LoginIds'
  BY LoginsStep, CallMono DEF IInv, TypeOK
<1>1. CASE c \in DOMAIN calls
  BY <1>0, <1>1, CallKeeps DEF HarmlessOK
<1>2. CASE c \notin DOMAIN calls
  <2>1. c = Len(calls) + 1
    BY <1>2, NewCall
  <2>2. ASSUME NEW b \in Browsers, Logout(b) PROVE FALSE
    <3>1. PICK r : calls' = Append(calls, r) /\ r.kind = "logout"
      BY <2>2 DEF Logout
    <3> QED
      BY <1>0, <2>1, <3>1
  <2>3. ASSUME NEW b \in Browsers, NEW k \in LoginIds, NEW p \in ProviderIds, NEW i \in Issuers,
               Callback(b, k, p, i)
        PROVE  calls'[c].login \in LoginIds
    <3>1. PICK r : calls' = Append(calls, r) /\ r.login = k
      BY <2>3 DEF Callback
    <3> QED
      BY <1>0, <2>1, <3>1
  <2> QED
    BY <1>0, <1>2, <2>2, <2>3, NewCall
<1> QED
  BY <1>1, <1>2

\* A login that begins is undisturbed.
LEMMA NewUndisturbed ==
  ASSUME IInv, HarmlessOK, [Next]_vars, NEW l \in LoginIds', l \notin LoginIds
  PROVE  Undisturbed(l)'
<1>0. /\ logins \in Seq(Login) /\ calls \in Seq(Call) /\ Len(logins) \in Nat
      /\ LoginIds = 1..Len(logins) /\ old \in 0..Len(logins) /\ redeemed \subseteq LoginIds
  <2>1. logins \in Seq(Login) /\ calls \in Seq(Call) /\ old \in 0..Len(logins)
        /\ redeemed \subseteq LoginIds
    BY DEF IInv, TypeOK
  <2> QED
    BY <2>1 DEF LoginIds
<1>1. l = Len(logins) + 1 /\ \E b \in Browsers, p \in ProviderIds : StartLogin(b, p)
  BY LoginProgress
<1>2. PICK b \in Browsers, p \in ProviderIds : StartLogin(b, p)
  BY <1>1
<1> DEFINE saml == ProtocolOf(p) = "saml"
           r == [browser |-> b, provider |-> p, protocol |-> ProtocolOf(p),
                 issuer |-> Config(p).issuer, step |-> IF saml THEN "answer" ELSE "discover",
                 saved |-> saml, taken |-> FALSE, used |-> FALSE]
<1>3. /\ logins' = Append(logins, r) /\ env' = env /\ old' = old /\ calls' = calls
      /\ redeemed' = redeemed
  BY <1>2 DEF StartLogin
<1>4. /\ r.provider = p /\ r.issuer = Config(p).issuer /\ r.step # "asked" /\ ~r.taken
      /\ (r.protocol = "saml" => r.saved)
  <2>1. r.protocol = "saml" => saml
    OBVIOUS
  <2>2. r.saved = saml
    OBVIOUS
  <2>3. r.provider = p /\ r.issuer = Config(p).issuer /\ r.step # "asked" /\ ~r.taken
    OBVIOUS
  <2> QED
    BY <2>1, <2>2, <2>3
<1> HIDE DEF r
<1>5. logins'[l] = r
  BY <1>0, <1>1, <1>3
<1>6. ASSUME NEW c \in DOMAIN calls', CallbackOf(c, l)' PROVE FALSE
  BY <1>3, <1>6 DEF CallbackOf, HarmlessOK
<1>7. l > old' /\ l \notin redeemed'
  BY <1>0, <1>1, <1>3
<1>8. Config(p)' = Config(p)
  BY <1>3, ConfigKept
<1> QED
  BY <1>4, <1>5, <1>6, <1>7, <1>8 DEF Undisturbed

\* A login is not too old, and of this start, unless time or a restart disturbs it.
LEMMA StillYoung ==
  ASSUME IInv, [Next]_vars, NEW l \in LoginIds, l \notin disturbed', l > old
  PROVE  l > old' /\ env' = env /\ \A e \in Bootable : ~Restart(e)
<1>1. \A e \in Bootable : ~Restart(e)
  BY DEF Restart, Disturb
<1>2. ASSUME NEW k \in LoginIds, IdsExpire(k) PROVE l > old'
  <2>1. old' = k /\ l \notin 1..k
    BY <1>2 DEF IdsExpire, Disturb
  <2>2. k \in Nat /\ l \in Nat \ {0}
    <3>1. LoginIds = 1..Len(logins) /\ Len(logins) \in Nat
      BY DEF IInv, TypeOK, LoginIds
    <3> QED
      BY <3>1
  <2> QED
    BY <2>1, <2>2
<1>3. old' = old \/ \E k \in LoginIds : IdsExpire(k)
  BY SessionQuiet
     DEF Next, LoginStep, CallbackStep, LogoutStep, Adversity, vars, StartLogin, Discovered,
         LoginAnswered, LoginFails, Callback, CallbackClient, Exchange, Validate, Consume, Resolve,
         Record, CallbackFails, CallbackAnswered, Logout, PlainLogout, LogoutCallback,
         LogoutRevoked, LogoutClient, LogoutNoClient, LogoutAnswered, AnswerLost, CookiesExpire,
         Restart
<1> QED
  BY <1>1, <1>2, <1>3, EnvStep

\* Only the exchange redeems a code, and it goes on.
LEMMA RedeemedStep ==
  ASSUME IInv, [Next]_vars, NEW l \in redeemed'
  PROVE  l \in redeemed \/ \E c \in DOMAIN calls : /\ Exchange(c) /\ calls[c].login = l
                                                   /\ Goto(c, "resolve")
<1>1. ASSUME NEW c \in DOMAIN calls, Exchange(c)
      PROVE  l \in redeemed \/ (calls[c].login = l /\ Goto(c, "resolve"))
  BY <1>1 DEF Exchange
<1> QED
  BY <1>1, SessionQuiet
  DEF Next, LoginStep, CallbackStep, LogoutStep, Adversity, vars, StartLogin, Discovered,
      LoginAnswered, LoginFails, Callback, CallbackClient, Validate, Consume, Resolve, Record,
      CallbackFails, CallbackAnswered, Logout, PlainLogout, LogoutCallback, LogoutRevoked,
      LogoutClient, LogoutNoClient, LogoutAnswered, AnswerLost, CookiesExpire, IdsExpire, Restart

\* What was undisturbed and is not disturbed by a step stays undisturbed.
LEMMA UndisturbedStays ==
  ASSUME IInv, HarmlessOK, [Next]_vars, NEW l \in LoginIds, l \notin disturbed'
  PROVE  Undisturbed(l)'
<1>0. /\ logins \in Seq(Login) /\ calls \in Seq(Call) /\ LoginIds \subseteq LoginIds'
      /\ Fixed(l) /\ disturbed \subseteq disturbed' /\ l \in LoginIds'
  BY LoginsStep, CallMono, DisturbedGrows DEF IInv, TypeOK, LoginsGrow
<1>1. Undisturbed(l)
  BY <1>0 DEF HarmlessOK
<1>2. l > old' /\ env' = env /\ \A e \in Bootable : ~Restart(e)
  BY <1>1, StillYoung DEF Undisturbed
<1>3. LoginPast(l)
  BY <1>0, LoginProgress
<1>4. (logins[l].issuer = Config(logins[l].provider).issuer)'
  <2>1. \A p : Config(p)' = Config(p)
    BY <1>2, ConfigKept
  <2>2. PICK p : p = logins'[l].provider
    OBVIOUS
  <2>3. logins'[l].issuer = Config(p).issuer
    BY <1>0, <1>1, <2>2 DEF Fixed, Undisturbed
  <2>4. Config(p)' = Config(p)
    BY <2>1
  <2> QED
    BY <2>2, <2>3, <2>4
<1>5. logins'[l].protocol = "saml" => logins'[l].saved
  BY <1>0, <1>1, <1>2, <1>3 DEF Fixed, LoginPast, Undisturbed
<1>6. ASSUME logins'[l].step = "asked" PROVE jar'[logins'[l].browser][logins'[l].protocol] = l
  <2> DEFINE b == logins[l].browser
             q == logins[l].protocol
  <2>0. logins'[l].browser = b /\ logins'[l].protocol = q
    BY <1>0 DEF Fixed
  <2>1. CASE logins[l].step = "asked"
    <3>1. jar[b][q] = l
      BY <1>1, <2>1 DEF Undisturbed
    <3>2. jar'[b][q] = l
      BY <3>1, CookieStep
    <3> QED
      BY <2>0, <3>2
  <2>2. CASE LoginAnswered(l)
    <3>1. jar' = [jar EXCEPT ![b] = SetTransaction(@, q, l)]
      BY <2>2 DEF LoginAnswered
    <3>2. jar \in [Browsers -> Jar] /\ b \in Browsers /\ q \in Protocols
      BY <1>0, LoginTyped DEF IInv, TypeOK
    <3> HIDE DEF b, q
    <3>3. jar'[b][q] = l
      BY <3>1, <3>2, CookieKept
    <3> QED
      BY <2>0, <3>3
  <2> QED
    BY <1>3, <1>6, <2>1, <2>2 DEF LoginPast
<1>7. ASSUME NEW c \in DOMAIN calls', c \notin DOMAIN calls, CallbackOf(c, l)'
      PROVE  /\ \A d \in DOMAIN calls : ~CallbackOf(d, l)
             /\ calls'[c].tx = l /\ calls'[c].at = logins[l].provider
             /\ calls'[c].issuer = logins[l].issuer
  <2>1. c = Len(calls) + 1
        /\ \E b \in Browsers, p \in ProviderIds, i \in Issuers : Callback(b, l, p, i)
    BY <1>0, <1>7, CallbacksOf
  <2>2. PICK b \in Browsers, p \in ProviderIds, i \in Issuers : Callback(b, l, p, i)
    BY <2>1
  <2>3. /\ \A d \in DOMAIN calls : ~CallbackOf(d, l)
        /\ \E r : /\ calls' = Append(calls, r) /\ r.kind = logins[l].protocol /\ r.login = l
                  /\ r.at = logins[l].provider /\ r.issuer = logins[l].issuer /\ r.tx = l
                  /\ r.pc \in {"client", "validate"}
    BY <1>0, <2>2, UndisturbedCallback
  <2> QED
    BY <1>0, <2>1, <2>3
<1>8. ASSUME NEW c \in DOMAIN calls', NEW d \in DOMAIN calls', CallbackOf(c, l)', CallbackOf(d, l)'
      PROVE  c = d
  <2>1. \A x \in DOMAIN calls' : CallbackOf(x, l)' =>
          \/ x \in DOMAIN calls /\ CallbackOf(x, l)
          \/ x = Len(calls) + 1 /\ x \notin DOMAIN calls
    BY <1>0, CallbacksOf
  <2>2. CASE c \in DOMAIN calls /\ d \in DOMAIN calls
    BY <1>1, <1>8, <2>1, <2>2 DEF Undisturbed
  <2>3. CASE c \notin DOMAIN calls
    BY <1>7, <1>8, <2>1, <2>3
  <2>4. CASE d \notin DOMAIN calls
    BY <1>7, <1>8, <2>1, <2>4
  <2> QED
    BY <2>2, <2>3, <2>4
<1>9. ASSUME l \in redeemed' \/ logins'[l].taken
      PROVE  \E c \in DOMAIN calls' : CallbackOf(c, l)' /\ calls'[c].pc \notin Early
  <2>0. DOMAIN calls \subseteq DOMAIN calls'
    BY <1>0, CallsStep DEF CallsGrow
  <2>1. ASSUME NEW c \in DOMAIN calls, CallbackOf(c, l), calls'[c].pc \notin Early
        PROVE  \E d \in DOMAIN calls' : CallbackOf(d, l)' /\ calls'[d].pc \notin Early
    BY <2>0, <2>1, CallbackKeeps DEF CallbackOf
  <2>2. CASE l \in redeemed \/ logins[l].taken
    <3>1. PICK c \in DOMAIN calls : CallbackOf(c, l) /\ calls[c].pc \notin Early
      BY <1>1, <2>2 DEF Undisturbed
    <3> QED
      BY <2>1, <3>1, CallbackKeeps DEF CallbackOf
  <2>3. ASSUME NEW c \in DOMAIN calls, NEW x \in {"resolve", "refused"}, Goto(c, x),
               calls[c].login = l, calls[c].pc \in {"exchange", "consume"}
        PROVE  \E d \in DOMAIN calls' : CallbackOf(d, l)' /\ calls'[d].pc \notin Early
    <3>0. calls[c] \in Call
      BY <1>0
    <3>1. calls'[c].pc = x
      BY <1>0, <2>3, <3>0 DEF Goto, Call
    <3>2. calls[c].kind # "logout"
      BY <2>3 DEF IInv, LogoutOK
    <3> QED
      BY <2>1, <2>3, <3>1, <3>2 DEF CallbackOf, Early
  <2>4. ASSUME NEW c \in DOMAIN calls, Exchange(c), calls[c].login = l, Goto(c, "resolve")
        PROVE  \E d \in DOMAIN calls' : CallbackOf(d, l)' /\ calls'[d].pc \notin Early
    BY <2>3, <2>4 DEF Exchange, At
  <2>5. ASSUME NEW c \in DOMAIN calls, calls[c].pc = "consume", calls[c].login = l,
               Consume(c) \/ CallbackFails(c)
        PROVE  \E d \in DOMAIN calls' : CallbackOf(d, l)' /\ calls'[d].pc \notin Early
    BY <2>3, <2>5 DEF Consume, CallbackFails
  <2>6. ASSUME NEW p \in ProviderIds, LogoutCallback(p, l) PROVE FALSE
    BY <2>6 DEF LogoutCallback, Disturb
  <2>7. CASE l \in redeemed'
    BY <2>2, <2>4, <2>7, RedeemedStep
  <2>8. CASE logins'[l].taken
    BY <1>3, <2>2, <2>5, <2>6, <2>8 DEF LoginPast
  <2> QED
    BY <1>9, <2>7, <2>8
<1>10. ASSUME NEW c \in DOMAIN calls', CallbackOf(c, l)', calls'[c].pc # "done"
       PROVE  /\ calls'[c].tx = l /\ calls'[c].at = logins'[l].provider
              /\ calls'[c].issuer = logins'[l].issuer
  <2>0. logins'[l].provider = logins[l].provider /\ logins'[l].issuer = logins[l].issuer
    BY <1>0 DEF Fixed
  <2>1. CASE c \notin DOMAIN calls
    BY <1>7, <1>10, <2>0, <2>1
  <2>2. CASE c \in DOMAIN calls
    <3>1. CallbackOf(c, l)
      BY <1>0, <1>10, <2>2, CallbacksOf
    <3>2. calls[c].pc # "done" /\ calls'[c].tx = calls[c].tx /\ calls'[c].at = calls[c].at
          /\ calls'[c].issuer = calls[c].issuer
      BY <1>10, <2>2, <3>1, CallbackKeeps DEF CallbackOf
    <3> QED
      BY <1>1, <2>0, <2>2, <3>1, <3>2 DEF Undisturbed
  <2> QED
    BY <2>1, <2>2
<1> QED
  BY <1>2, <1>4, <1>5, <1>6, <1>8, <1>9, <1>10 DEF Undisturbed

--------------------------------------------------------------------------------
\* Why a callback refuses.

\* A callback that is refused by a step answers a login that is disturbed or whose id the
\* limit of the cache may have cost it.
LEMMA RefusedStep ==
  ASSUME IInv, OrderOK, RecentLoginsRemembered, HarmlessOK, RefusedOnlyIfDisturbed, [Next]_vars,
         NEW c \in DOMAIN calls', calls'[c].pc = "refused", NEW l, l = calls'[c].login,
         l \notin disturbed'
  PROVE  Cardinality(Newer(l)') >= CacheMax
<1>0. calls \in Seq(Call) /\ disturbed \subseteq disturbed' /\ logins \in Seq(Login)
      /\ (c \in DOMAIN calls => calls[c] \in Call)
  BY DisturbedGrows DEF IInv, TypeOK
<1>1. CASE c \notin DOMAIN calls
  <2>1. c = Len(calls) + 1
    BY <1>1, NewCall
  <2>2. ASSUME NEW b \in Browsers, Logout(b) PROVE FALSE
    <3>1. PICK r : calls' = Append(calls, r) /\ r.pc = "revoke"
      BY <2>2 DEF Logout
    <3> QED
      BY <1>0, <2>1, <3>1
  <2>3. ASSUME NEW b \in Browsers, NEW k \in LoginIds, NEW p \in ProviderIds, NEW i \in Issuers,
               Callback(b, k, p, i)
        PROVE  FALSE
    <3>1. l = k
      <4>1. PICK r : calls' = Append(calls, r) /\ r.login = k
        BY <2>3 DEF Callback
      <4> QED
        BY <1>0, <2>1, <4>1
    <3>2. PICK r : calls' = Append(calls, r) /\ r.pc \in {"client", "validate"}
      BY <1>0, <2>3, <3>1, UndisturbedCallback
    <3> QED
      BY <1>0, <2>1, <3>2
  <2> QED
    BY <1>1, <2>2, <2>3, NewCall
<1>2. CASE c \in DOMAIN calls /\ calls[c].pc = "refused"
  <2>1. calls[c].login = l /\ calls[c].kind # "logout"
    BY <1>2, CallKeeps DEF IInv, LogoutOK
  <2>2. l \in LoginIds /\ l \notin disturbed
    BY <1>0, <1>2, <2>1 DEF HarmlessOK
  <2>3. Cardinality(Newer(l)) >= CacheMax
    BY <1>2, <2>1, <2>2 DEF RefusedOnlyIfDisturbed
  <2>4. PICK n, m : n = Cardinality(Newer(l)) /\ m = Cardinality(Newer(l)')
    OBVIOUS
  <2>5. n \in Nat /\ m \in Nat /\ n <= m /\ n >= CacheMax
    BY <2>2, <2>3, <2>4, NewerGrows
  <2> QED
    BY <2>4, <2>5, BoundsAssumption
<1>3. CASE c \in DOMAIN calls /\ calls[c].pc # "refused"
  <2>0. Moved(c)
    <3>1. Finished(calls[c]).pc = "done"
      BY <1>0, <1>3 DEF Finished, Call
    <3> QED
      BY <1>3, <3>1, CallCases
  <2>1. \A x : Goto(c, x) => calls'[c].pc = x
    BY <1>0, <1>3 DEF Goto, Call
  <2>2. calls[c].kind # "logout" /\ calls[c].pc # "done" /\ calls[c].login = l /\ CallOK(c)
    <3>1. calls[c].kind # "logout"
      <4>1. calls'[c].kind # "logout"
        BY Inductive DEF IInv, LogoutOK
      <4> QED
        BY <1>3, <4>1, CallKeeps
    <3> QED
      BY <1>3, <3>1, CallbackKeeps, CallKeeps DEF IInv, CallbackOK
  <2>3. l \in LoginIds /\ l \notin disturbed /\ Undisturbed(l) /\ CallbackOf(c, l)
    BY <1>0, <1>3, <2>2 DEF HarmlessOK, CallbackOf
  <2>4. /\ calls[c].tx = l /\ calls[c].at = logins[l].provider
        /\ calls[c].issuer = logins[l].issuer
        /\ logins[l].issuer = Config(calls[c].at).issuer
        /\ calls[c].pc \in Early => l \notin redeemed /\ ~logins[l].taken
    BY <1>3, <2>2, <2>3 DEF Undisturbed
  <2>5. ~Exchange(c)
    BY <2>1, <2>2, <2>4 DEF Exchange, StateMatches, At, Early
  <2>6. ASSUME Validate(c) PROVE Cardinality(Newer(l)) >= CacheMax
    <3>1. calls[c].pc = "validate" /\ ~Knows(cache[calls[c].at], l)
      BY <2>1, <2>2, <2>6 DEF Validate, At, CacheOf
    <3>2. logins[l].saved /\ ~logins[l].taken /\ l > old
      BY <2>2, <2>3, <2>4, <3>1 DEF CallOK, Undisturbed, Early
    <3>3. ~IdTooOld(l)
      <4>1. LoginIds = 1..Len(logins) /\ Len(logins) <= MaxLogins /\ Len(logins) \in Nat
            /\ old \in 0..Len(logins)
        BY <1>0 DEF IInv, TypeOK, CacheOK, LoginIds
      <4> QED
        BY <2>3, <3>2, <4>1, BoundsAssumption DEF IdTooOld
    <3>4. ~Contains(cache[logins[l].provider], l)
      BY <2>4, <3>1, <3>3 DEF Knows
    <3>5. ~(Cardinality(Newer(l)) < CacheMax)
      BY <2>3, <3>2, <3>4 DEF RecentLoginsRemembered, CacheOf
    <3>6. PICK n : n = Cardinality(Newer(l))
      OBVIOUS
    <3>7. n \in Nat
      BY <2>3, <3>6, NewerGrows
    <3> QED
      BY <3>5, <3>6, <3>7, BoundsAssumption
  <2>7. ~Consume(c)
    BY <2>1, <2>2, <2>4 DEF Consume, IssuerPinned
  <2>8. ~CallbackFails(c)
    BY <2>2 DEF CallbackFails, Disturb
  <2>9. ~CallbackClient(c) /\ ~Resolve(c) /\ ~Record(c)
    BY <2>1 DEF CallbackClient, Resolve, Record
  <2>10. ~LogoutRevoked(c) /\ ~LogoutClient(c) /\ ~LogoutNoClient(c)
    BY <2>2 DEF LogoutRevoked, LogoutClient, LogoutNoClient, At, CallOK
  <2>11. Cardinality(Newer(l)) >= CacheMax
    BY <2>0, <2>5, <2>6, <2>7, <2>8, <2>9, <2>10 DEF Moved
  <2>12. PICK n, m : n = Cardinality(Newer(l)) /\ m = Cardinality(Newer(l)')
    OBVIOUS
  <2>13. n \in Nat /\ m \in Nat /\ n <= m /\ n >= CacheMax
    BY <2>3, <2>11, <2>12, NewerGrows
  <2> QED
    BY <2>12, <2>13, BoundsAssumption
<1> QED
  BY <1>1, <1>2, <1>3

\* A login that no step disturbed is as it should be.
LEMMA HarmlessStep ==
  ASSUME IInv, HarmlessOK, [Next]_vars
  PROVE  HarmlessOK'
<1>1. ASSUME NEW l \in LoginIds', l \notin disturbed' PROVE Undisturbed(l)'
  BY <1>1, NewUndisturbed, UndisturbedStays
<1>2. \A c \in DOMAIN calls' : calls'[c].kind # "logout" => calls'[c].login \in LoginIds'
  BY CallbackLoginsStep
<1> QED
  BY <1>1, <1>2 DEF HarmlessOK

\* A login that nothing disturbed keeps its cookie, its id and its one callback.
THEOREM Harmless == Spec => []HarmlessOK
<1>1. Init => HarmlessOK
  BY DEF Init, HarmlessOK, LoginIds
<1>2. IInv /\ HarmlessOK /\ [Next]_vars => HarmlessOK'
  BY HarmlessStep
<1> QED
  BY <1>1, <1>2, Invariance, PTL DEF Spec

\* A callback refuses an answer only for a reason outside its login: whoever signs in
\* without disturbance, whatever other browsers and the other protocol do, is let in.
THEOREM RefusedForAReason == Spec => []RefusedOnlyIfDisturbed
<1>1. Init => RefusedOnlyIfDisturbed
  BY DEF Init, RefusedOnlyIfDisturbed
<1>2. IInv /\ OrderOK /\ RecentLoginsRemembered /\ HarmlessOK /\ RefusedOnlyIfDisturbed
      /\ [Next]_vars => RefusedOnlyIfDisturbed'
  <2> SUFFICES ASSUME IInv, OrderOK, RecentLoginsRemembered, HarmlessOK, RefusedOnlyIfDisturbed,
                      [Next]_vars, NEW c \in DOMAIN calls', calls'[c].pc = "refused"
               PROVE  \/ calls'[c].login \in disturbed'
                      \/ Cardinality(Newer(calls[c].login)') >= CacheMax
    BY DEF RefusedOnlyIfDisturbed
  <2> QED
    BY RefusedStep
<1> QED
  BY <1>1, <1>2, CachesInOrder, Remembered, Harmless, PTL DEF Spec
==============================================================================
