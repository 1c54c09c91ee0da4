------------------------------ MODULE FrontAuth ------------------------------
(***************************************************************************)
(* The browser's side of a session: AuthService, its interceptor, the route *)
(* guards and the pages that call them, against a server that keeps what     *)
(* SessionLineage promises: a refresh token is exchanged once, presenting it *)
(* again revokes its family, logout revokes the family.                      *)
(*                                                                           *)
(* The access token lives in memory, the refresh token in a cookie. Every    *)
(* request leaves with the token and the cookie of that moment; the server   *)
(* serves requests, and their answers arrive, in any order. A refresh cookie *)
(* is <<family, generation>>, an access token is named after the cookie      *)
(* issued with it, and None stands for the absence of either.                *)
(***************************************************************************)
EXTENDS Integers, Sequences, SequencesExt

CONSTANTS MaxSends, MaxInFlight, MaxLogins, MaxFaults  \* bounds of the exploration

ASSUME BoundsAssumption ==
  MaxSends \in Nat \ {0} /\ MaxInFlight \in Nat /\ MaxLogins \in Nat /\ MaxFaults \in Nat

VARIABLES
  token, initialized,  \* AuthService: token (None for '') and isInitialized
  page,                \* the page shown, or "loading", or "landing" after single sign-on
  jar,                 \* the refresh cookie of the browser
  reqs,                \* requests whose answer has not arrived, in sending order
  gen, revoked,        \* the server: current generation per family, revoked families
  expired,             \* access tokens past their exp
  sends, faults,
  disturbed            \* history: this page saw a fault or overlapping session changes
vars == <<token, initialized, page, jar, reqs, gen, revoked, expired, sends, faults, disturbed>>

None == <<>>
Orphan == <<0, 0>>  \* an access token written before its login failed
Families == 1..Len(gen)
Cookies == {<<f, n>> : f \in Families, n \in 0..MaxSends}
Live(c) == c # None /\ c[1] \notin revoked /\ c[2] = gen[c[1]]

\* Who waits for the answer. The interceptor signs out as "rejected" after a failed
\* login and as "expelled" after any other 401; "signout" is the user's own.
Initializing == {"app", "guard", "callback"}
Redirected == {"rejected", "expelled"}
LogoutKinds == Redirected \cup {"signout"}
Request ==
  [kind : Initializing \cup LogoutKinds \cup {"call", "login"}, heard : BOOLEAN,
   token : Cookies \cup {None}, cookie : Cookies \cup {None}, fresh : BOOLEAN,
   status : {"sent", "ok", "unauthorized", "failed"},
   header : Cookies \cup {None, Orphan}, setCookie : {"keep", "set", "clear"}]

\* The state is well typed; a token is never one of a login that failed, and what an
\* answer puts into the jar is the cookie its header goes with.
TypeOK ==
  /\ token \in Cookies \cup {None}
  /\ initialized \in BOOLEAN
  /\ page \in {"loading", "landing", "callback", "home", "login", "profile"}
  /\ jar \in Cookies \cup {None}
  /\ reqs \in Seq(Request)
  /\ \A i \in DOMAIN reqs : reqs[i].setCookie = "set" => reqs[i].header \in Cookies
  /\ gen \in Seq(0..MaxSends)
  /\ revoked \subseteq Families
  /\ expired \subseteq Cookies
  /\ sends \in 0..MaxSends
  /\ faults \in 0..MaxFaults
  /\ disturbed \in BOOLEAN
--------------------------------------------------------------------------------
\* mutant of CookieSent: initialize() asks without credentials.
CookieNotSent(kind, c) == IF kind \in Initializing THEN None ELSE c

\* Every request of the app carries the cookie.
CookieSent(kind, c) == c

\* A request with access token t and cookie c, of which f says whether it is live.
New(kind, t, c, f) ==
  [kind |-> kind, heard |-> TRUE, token |-> t, cookie |-> CookieSent(kind, c), fresh |-> f,
   status |-> "sent", header |-> None, setCookie |-> "keep"]

\* A navigation cancels the request of the guard it replaces, a reload all of them.
Cancelled(rs, kinds) ==
  [i \in DOMAIN rs |-> [rs[i] EXCEPT !.heard = rs[i].heard /\ rs[i].kind \notin kinds]]

\* An answer that changes the cookie is under way beside another request, or to
\* nobody.
Overlap(rs) == \E i \in DOMAIN rs : rs[i].setCookie # "keep" /\ (Len(rs) > 1 \/ ~rs[i].heard)

Note(fault) ==
  /\ fault => faults < MaxFaults
  /\ faults' = faults + (IF fault THEN 1 ELSE 0)
  /\ disturbed' = (disturbed \/ fault \/ Overlap(reqs'))

\* A user acts with at most MaxInFlight requests on their way.
CanSend == sends < MaxSends /\ Len(reqs) < MaxInFlight

Send(kinds, rs) ==
  /\ CanSend /\ sends' = sends + 1
  /\ reqs' = rs \o SetToSeq({New(k, token, jar, Live(jar)) : k \in kinds})
  /\ Note(FALSE)
--------------------------------------------------------------------------------
\* A page is loaded: the app, and the guard of its route, ask for an access token.
\* Requests of the page before it may still reach the server.
Load(path, c, f) ==
  LET asking == {"app"} \cup IF path = "profile" THEN {"guard"} ELSE {}
  IN  /\ token' = None
      /\ initialized' = FALSE
      /\ page' = IF path = "profile" THEN "loading" ELSE path
      /\ reqs' = [i \in DOMAIN reqs |-> [reqs[i] EXCEPT !.heard = FALSE]]
                   \o SetToSeq({New(k, None, c, f) : k \in asking})
      /\ disturbed' = ((disturbed /\ reqs # <<>>) \/ Overlap(reqs'))

Init ==
  /\ gen = <<0>> /\ revoked = {} /\ expired = {}
  /\ jar \in {None, <<1, 0>>}
  /\ token = None /\ initialized = FALSE /\ page = "home"
  /\ reqs = <<New("app", None, jar, jar # None)>>
  /\ sends = 1 /\ faults = 0 /\ disturbed = FALSE

Reload ==
  /\ CanSend /\ sends' = sends + 1
  /\ \E path \in {"home", "login", "profile"} : Load(path, jar, Live(jar))
  /\ UNCHANGED <<jar, gen, revoked, expired, faults>>

\* The browser left for single sign-on and lands on the callback route with the
\* refresh cookie of a new family.
SsoReturn ==
  /\ page = "login" /\ Len(gen) < MaxLogins
  /\ CanSend /\ sends' = sends + 1
  /\ gen' = Append(gen, 0)
  /\ jar' = <<Len(gen'), 0>>
  /\ Load("landing", jar', TRUE)
  /\ UNCHANGED <<revoked, expired, faults>>

\* Its component is loaded later, and asks again unless the app has been answered.
OpenCallback ==
  /\ page = "landing"
  /\ IF initialized
     THEN page' = "home" /\ UNCHANGED <<reqs, sends, faults, disturbed>>
     ELSE page' = "callback" /\ Send({"callback"}, reqs)
  /\ UNCHANGED <<token, initialized, jar, gen, revoked, expired>>

\* A guarded route inside the app: an initialized service decides at once.
OpenProfile ==
  /\ page = "home"
  /\ IF initialized
     THEN /\ page' = IF token # None THEN "profile" ELSE "login"
          /\ UNCHANGED <<reqs, sends, faults, disturbed>>
     ELSE /\ Send({"guard"}, Cancelled(reqs, {"guard"}))
          /\ UNCHANGED page
  /\ UNCHANGED <<token, initialized, jar, gen, revoked, expired>>

\* The button of a visitor who is not signed in.
GoToLogin ==
  /\ page = "home" /\ token = None
  /\ page' = "login"
  /\ reqs' = Cancelled(reqs, {"guard"})
  /\ Note(FALSE)
  /\ UNCHANGED <<token, initialized, jar, gen, revoked, expired, sends>>

\* The link of the profile page.
GoHome ==
  /\ page = "profile" /\ page' = "home"
  /\ UNCHANGED <<token, initialized, jar, reqs, gen, revoked, expired, sends, faults, disturbed>>

CallApi ==
  /\ page = "profile"
  /\ Send({"call"}, reqs)
  /\ UNCHANGED <<token, initialized, page, jar, gen, revoked, expired>>

\* The button of the form is disabled while a login is under way.
SubmitLogin ==
  /\ page = "login"
  /\ \A i \in DOMAIN reqs : reqs[i].heard => reqs[i].kind # "login"
  /\ Send({"login"}, reqs)
  /\ UNCHANGED <<token, initialized, page, jar, gen, revoked, expired>>

SignOut ==
  /\ page = "home" /\ token # None
  /\ Send({"signout"}, Cancelled(reqs, {"guard"}))
  /\ UNCHANGED <<token, initialized, page, jar, gen, revoked, expired>>
--------------------------------------------------------------------------------
\* The server answers request i; a fault may be behind the answer.
Answer(i, status, header, cookie, fault) ==
  /\ reqs' = [reqs EXCEPT ![i].status = status, ![i].header = header, ![i].setCookie = cookie]
  /\ Note(fault)
  /\ UNCHANGED <<token, initialized, page, jar, expired, sends>>

Guarded(q) == q.kind \in Initializing \cup {"call"}

ServeWithoutCookie(i) ==
  /\ Guarded(reqs[i]) /\ reqs[i].cookie = None
  /\ Answer(i, "unauthorized", None, "keep", FALSE)
  /\ UNCHANGED <<gen, revoked>>

Accepted(q) == q.token # None /\ q.token \notin expired

ServeWithToken(i) ==
  /\ Guarded(reqs[i]) /\ reqs[i].cookie # None /\ Accepted(reqs[i])
  /\ Answer(i, "ok", None, "keep", FALSE)
  /\ UNCHANGED <<gen, revoked>>

\* The cookie is exchanged. What the api answers to the call behind the guard may be
\* an error whose headers still carry the new pair.
ServeRotated(i) ==
  LET c == reqs[i].cookie IN
  /\ Guarded(reqs[i]) /\ Live(c) /\ ~Accepted(reqs[i])
  /\ gen' = [gen EXCEPT ![c[1]] = @ + 1]
  /\ \E status \in {"ok"} \cup (IF reqs[i].kind = "call" THEN {"failed"} ELSE {}) :
       Answer(i, status, <<c[1], c[2] + 1>>, "set", FALSE)
  /\ UNCHANGED revoked

ServeReused(i) ==
  LET c == reqs[i].cookie IN
  /\ Guarded(reqs[i]) /\ c # None /\ ~Live(c) /\ ~Accepted(reqs[i])
  /\ revoked' = revoked \cup {c[1]}
  /\ Answer(i, "unauthorized", None, "clear", FALSE)
  /\ UNCHANGED gen

\* The rotation or the record of its successor fails: whatever the reason, the cookie
\* is cleared. Without an answer of the api the status is 401, and the header may
\* have been written already.
ServeBroken(i) ==
  LET c == reqs[i].cookie IN
  /\ Guarded(reqs[i]) /\ c # None /\ ~Accepted(reqs[i])
  /\ \E rotated \in IF Live(c) THEN BOOLEAN ELSE {FALSE}, status \in {"unauthorized", "failed"} :
       /\ Answer(i, status, IF rotated THEN Orphan ELSE None, "clear", TRUE)
       /\ gen' = IF rotated THEN [gen EXCEPT ![c[1]] = @ + 1] ELSE gen
  /\ UNCHANGED revoked

ServeLogin(i) ==
  /\ reqs[i].kind = "login" /\ Len(gen) < MaxLogins
  /\ gen' = Append(gen, 0)
  /\ Answer(i, "ok", <<Len(gen'), 0>>, "set", FALSE)
  /\ UNCHANGED revoked

\* Wrong credentials, or a failure after the access token was written.
RefuseLogin(i) ==
  /\ reqs[i].kind = "login"
  /\ \E header \in {None, Orphan} : Answer(i, "unauthorized", header, "keep", FALSE)
  /\ UNCHANGED <<gen, revoked>>

\* Logout clears the cookie whether or not the family could be revoked.
ServeLogout(i) ==
  LET c == reqs[i].cookie IN
  /\ reqs[i].kind \in LogoutKinds
  /\ \E fault \in BOOLEAN :
       /\ revoked' = IF c = None \/ fault THEN revoked ELSE revoked \cup {c[1]}
       /\ Answer(i, "ok", None, "clear", fault)
  /\ UNCHANGED gen

Serve(i) ==
  /\ reqs[i].status = "sent"
  /\ \/ ServeWithoutCookie(i) \/ ServeWithToken(i) \/ ServeRotated(i) \/ ServeReused(i)
     \/ ServeBroken(i) \/ ServeLogin(i) \/ RefuseLogin(i) \/ ServeLogout(i)

\* The request or its answer is lost, or a rate limiter refuses it.
Lost(i) ==
  /\ Answer(i, "failed", None, "keep", TRUE)
  /\ reqs[i].status # "failed"
  /\ UNCHANGED <<gen, revoked>>
--------------------------------------------------------------------------------
JarAfter(q) == CASE q.setCookie = "keep" -> jar
                 [] q.setCookie = "set" -> q.header
                 [] q.setCookie = "clear" -> None

\* mutant of TokenOf: an error's header is taken as well.
TokenOfAny(q) == IF q.header # None THEN q.header ELSE token

\* The interceptor takes the access token of any successful answer.
TokenOf(q) == IF q.status = "ok" /\ q.header # None THEN q.header ELSE token

Refreshed(q) == q.status = "ok" /\ q.header # None

\* The interceptor sends a logout of its own after a 401.
Rest(i) ==
  LET q == reqs[i]
      others == RemoveAt(reqs, i)
      j == JarAfter(q)
  IN  IF q.status = "unauthorized"
      THEN Append(others, New(IF q.kind = "login" THEN "rejected" ELSE "expelled",
                              token, j, Live(j)))
      ELSE others

Received(i) ==
  /\ reqs[i].heard /\ reqs[i].status # "sent"
  /\ jar' = JarAfter(reqs[i])
  /\ UNCHANGED <<gen, revoked, expired, sends>>

\* The guard reads isLoggedIn$, an observable that still replays what the token was
\* before the answer it has just waited for.
GuardDecides(q) == IF token # None THEN "profile" ELSE "login"

PingAnswered(i) ==
  LET q == reqs[i] IN
  /\ q.kind \in Initializing
  /\ Received(i)
  /\ token' = TokenOf(q)
  /\ initialized' = (Refreshed(q) \/ (q.status = "ok" /\ initialized))
  /\ page' = CASE q.kind = "app" -> page
               [] q.kind = "guard" -> GuardDecides(q)
               [] q.kind = "callback" -> IF Refreshed(q) THEN "home" ELSE "login"
  /\ reqs' = Rest(i) /\ Note(FALSE)

CallAnswered(i) ==
  /\ reqs[i].kind = "call"
  /\ Received(i)
  /\ token' = TokenOf(reqs[i])
  /\ reqs' = Rest(i) /\ Note(FALSE)
  /\ UNCHANGED <<initialized, page>>

LoginAnswered(i) ==
  LET q == reqs[i] IN
  /\ q.kind = "login"
  /\ Received(i)
  /\ token' = TokenOf(q)
  /\ initialized' = (initialized \/ q.status = "ok")
  /\ page' = IF q.status = "ok" THEN "home" ELSE page
  /\ reqs' = Rest(i) /\ Note(FALSE)

\* mutant of CleanTokens: only a logout that succeeded cleans.
CleanTokensIfOk(q) ==
  IF q.status = "ok" THEN token' = None /\ initialized' = FALSE
  ELSE UNCHANGED <<token, initialized>>

\* mutant of CleanTokens: the flag survives the token.
CleanTokensOnly(q) == token' = None /\ UNCHANGED initialized

\* Whatever the answer, the service forgets the session.
CleanTokens(q) == token' = None /\ initialized' = FALSE

LogoutAnswered(i) ==
  LET q == reqs[i] IN
  /\ q.kind \in LogoutKinds
  /\ Received(i)
  /\ CleanTokens(q)
  /\ IF q.kind \in Redirected
     THEN page' = "login" /\ reqs' = Cancelled(RemoveAt(reqs, i), {"guard"})
     ELSE page' = page /\ reqs' = RemoveAt(reqs, i)
  /\ Note(FALSE)

\* The answer to a cancelled request: the browser may or may not have read its headers.
Unheard(i) ==
  /\ ~reqs[i].heard /\ reqs[i].status # "sent"
  /\ jar' \in {jar, JarAfter(reqs[i])}
  /\ reqs' = RemoveAt(reqs, i)
  /\ Note(FALSE)
  /\ UNCHANGED <<token, initialized, page, gen, revoked, expired, sends>>

Arrive(i) == PingAnswered(i) \/ CallAnswered(i) \/ LoginAnswered(i) \/ LogoutAnswered(i) \/ Unheard(i)

ExpireToken ==
  /\ token # None /\ token \notin expired
  /\ expired' = expired \cup {token}
  /\ UNCHANGED <<token, initialized, page, jar, reqs, gen, revoked, sends, faults, disturbed>>

User ==
  \/ Reload \/ SsoReturn \/ OpenCallback \/ OpenProfile \/ GoToLogin \/ GoHome
  \/ CallApi \/ SubmitLogin \/ SignOut
Next ==
  \/ User
  \/ \E i \in DOMAIN reqs : Serve(i) \/ Lost(i) \/ Arrive(i)
  \/ ExpireToken

Spec == Init /\ [][Next]_vars

\* A browser ends every request, with an answer or an error; the oldest is enough to
\* ask for, since requests leave the sequence when they end.
ServeFirst == reqs # <<>> /\ Serve(1)
ArriveFirst == reqs # <<>> /\ Arrive(1)
FairSpec == Spec /\ WF_vars(ServeFirst) /\ WF_vars(ArriveFirst)
--------------------------------------------------------------------------------
\* A page that saw neither a fault nor two requests around a change of its session has,
\* once nothing is in flight, an access token exactly when its refresh cookie is good,
\* and shows a page.
FrontInStep ==
  ~disturbed /\ reqs = <<>> =>
    /\ token # None <=> Live(jar)
    /\ initialized => token # None
    /\ page # "loading"

\* The interceptor ends a session that is good only after such a disturbance: the 401
\* it reacts to is that of a session that is over. (A failed login is the exception.)
ExpelledOnlyIfDisturbed ==
  \A i \in DOMAIN reqs : reqs[i].kind = "expelled" /\ reqs[i].fresh => disturbed

\* A logout, also one that fails or is lost, leaves no access token in memory.
LogoutCleans ==
  (\E i \in DOMAIN reqs : reqs[i].kind \in LogoutKinds /\ reqs[i].heard) ~> (token = None)
=============================================================================
