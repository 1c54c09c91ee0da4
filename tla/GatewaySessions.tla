--------------------------- MODULE GatewaySessions ---------------------------
(***************************************************************************)
(* One browser's session across the gateway and the api: the cookie jar,   *)
(* the gateway handlers of POST /login, POST /logout and of every guarded  *)
(* route (hasPermission and refreshAndContinue), and the api's handlers of *)
(* RefreshTokenFamily, which the gateway calls over HTTP.                  *)
(*                                                                         *)
(* The gateway keeps no state of its own.  What can go wrong is time: the  *)
(* browser sends requests in parallel with one cookie, responses arrive in *)
(* any order or not at all, a call to the api fails before it is sent or   *)
(* after the api acted on it, and either process restarts in between.      *)
(***************************************************************************)
EXTENDS Naturals, FiniteSets

CONSTANTS Users, Families, Jtis, None,
          Requests,     \* HTTP requests of the browser, each one sent once
          MaxFaults     \* bound: calls, responses and processes lost in a behaviour

VARIABLES
    familyOf, userOf, parentOf, used, revoked, deleted, pc, call, answer,
    stale, orphan, kin, late,   \* the api, as in RefreshTokenFamily
    jar,        \* the refreshToken cookie of the browser, None when absent
    expired,    \* refresh JWTs past their exp
    stage,      \* where the gateway's handler of a request is
    cookie,     \* the refresh cookie the request carried
    account,    \* the user a login's credentials are those of, None if of nobody
    status,     \* the outcome of the response
    setCookie,  \* what the response does to the jar
    faults,     \* how many faults there have been
    \* History: read by properties only.
    disturbed,  \* requests have overlapped, or a call or a response was lost
    signedOut,  \* families whose revocation by a logout took effect
    raced,      \* those among them a rotation was in progress for at that moment
    doomed      \* guarded requests received with a cookie of a signedOut family

api == <<familyOf, userOf, parentOf, used, revoked, deleted, pc, call, answer,
         stale, orphan, kin, late>>
past == <<disturbed, signedOut, raced, doomed>>
vars == <<familyOf, userOf, parentOf, used, revoked, deleted, pc, call, answer,
          stale, orphan, kin, late, jar, expired, stage, cookie, account, status,
          setCookie, faults, disturbed, signedOut, raced, doomed>>

\* A request costs at most two calls to the api: <<g, 1>> rotates or revokes,
\* <<g, 2>> records.
Calls == Requests \X {1, 2}
Api == INSTANCE RefreshTokenFamily WITH Reqs <- Calls

Keep == "keep"      \* no Set-Cookie header
Clear == "clear"    \* clearRefreshCookie

ASSUME BoundsAssumption == MaxFaults \in Nat
\* None is no id, call or answer; a token is not one of the two markers above.
ASSUME NoneAssumption == None \notin Users \cup Families \cup Jtis \cup Calls \cup Api!Answers
ASSUME MarkersAssumption == Jtis \cap {Keep, Clear} = {}

InGateway == {"validating", "recordingLogin", "rotating", "recording", "revoking"}
Stages == InGateway \cup {"unsent", "responded", "closed"}
Statuses == {"pending", "passed", "refreshed", "loggedIn", "loggedOut", "400", "401", "500"}

TypeOK ==
    /\ Api!TypeOK
    /\ jar \in Jtis \cup {None}
    /\ expired \subseteq Jtis
    /\ stage \in [Requests -> Stages]
    /\ cookie \in [Requests -> Jtis \cup {None}]
    /\ account \in [Requests -> Users \cup {None}]
    /\ \A g \in Requests : stage[g] = "recordingLogin" => account[g] \in Users
    /\ status \in [Requests -> Statuses]
    /\ setCookie \in [Requests -> Jtis \cup {Keep, Clear}]
    /\ \A g \in Requests : setCookie[g] \in Jtis =>
          status[g] \in {"refreshed", "loggedIn"}
    /\ faults \in 0..MaxFaults
    /\ disturbed \in BOOLEAN
    /\ signedOut \subseteq Families
    /\ raced \subseteq Families
    /\ doomed \subseteq Requests

Init ==
    /\ Api!Init
    /\ jar = None
    /\ expired = {}
    /\ stage = [g \in Requests |-> "unsent"]
    /\ cookie = [g \in Requests |-> None]
    /\ account = [g \in Requests |-> None]
    /\ status = [g \in Requests |-> "pending"]
    /\ setCookie = [g \in Requests |-> Keep]
    /\ faults = 0
    /\ disturbed = FALSE
    /\ signedOut = {}
    /\ raced = {}
    /\ doomed = {}

-----------------------------------------------------------------------------
(* Helpers *)

Open(g) == stage[g] \notin {"unsent", "closed"}

\* verifyRefreshToken
Verifies(j) == j # None /\ j \notin expired

\* A rotation of the family is between its call to the api and its response.
Rotating(f) ==
    \E g \in Requests :
        stage[g] \in {"rotating", "recording"} /\ familyOf[cookie[g]] = f

Enter(g, to) ==
    /\ stage' = [stage EXCEPT ![g] = to]
    /\ UNCHANGED <<status, setCookie>>

Respond(g, s, c) ==
    /\ stage' = [stage EXCEPT ![g] = "responded"]
    /\ status' = [status EXCEPT ![g] = s]
    /\ setCookie' = [setCookie EXCEPT ![g] = c]

\* The browser sends g with the cookie it holds at that moment.
Receive(g) ==
    /\ stage[g] = "unsent"
    /\ cookie' = [cookie EXCEPT ![g] = jar]
    /\ disturbed' = (disturbed \/ \E h \in Requests \ {g} : Open(h))
    /\ UNCHANGED <<jar, expired, faults, signedOut, raced>>

\* A handler goes on after an await.
Resume(g, from) ==
    /\ stage[g] = from
    /\ UNCHANGED <<jar, expired, cookie, account, faults, past>>

\* callApi: a response that is not ok becomes an Error with its status code, a
\* fetch that throws an Error without one, which the handlers take for a 401.
StatusCode(a) == IF a = "error" THEN "500" ELSE "401"

Fault == faults < MaxFaults /\ faults' = faults + 1

-----------------------------------------------------------------------------
(* POST /login *)

LoginMalformed(g) ==
    /\ Receive(g)
    /\ Respond(g, "400", Keep)
    /\ UNCHANGED <<api, account, doomed>>

\* validateCredentials reads a live user and compares the password.  Reading it
\* here, as the request arrives, loses nothing: a deletion is never undone, so a
\* user who is found later was there already.
LoginReceive(g) ==
    /\ Receive(g)
    /\ \E u \in (Users \ deleted) \cup {None} : account' = [account EXCEPT ![g] = u]
    /\ Enter(g, "validating")
    /\ UNCHANGED <<api, doomed>>

\* The api found the account; the first token of a new family is recorded
\* before any cookie is set.
LoginValidated(g, f, j) ==
    /\ Resume(g, "validating")
    /\ account[g] # None
    /\ Api!CallRecordLogin(<<g, 2>>, account[g], f, j)
    /\ Enter(g, "recordingLogin")

\* No such account, a wrong password, or the api is unreachable.
LoginRejected(g) ==
    /\ Resume(g, "validating")
    /\ Respond(g, "401", Keep)
    /\ UNCHANGED api

LoginRecordedAnyway(g) ==   \* mutant of LoginRecorded: the cookie is set before the record is known
    /\ Resume(g, "recordingLogin")
    /\ answer[<<g, 2>>] # None
    /\ LET s == IF answer[<<g, 2>>] = "recorded" THEN "loggedIn" ELSE "401"
       IN Respond(g, s, call[<<g, 2>>].jti)
    /\ UNCHANGED api

LoginRecorded(g) ==
    /\ Resume(g, "recordingLogin")
    /\ answer[<<g, 2>>] # None
    /\ IF answer[<<g, 2>>] = "recorded"
       THEN Respond(g, "loggedIn", call[<<g, 2>>].jti)
       ELSE Respond(g, "401", Keep)
    /\ UNCHANGED api

-----------------------------------------------------------------------------
(* hasPermission on a guarded route, and refreshAndContinue *)

\* The answers given without the api: no cookie, an access token that does not
\* verify, a refresh token that does not verify.
GuardRefused(g) ==
    /\ Receive(g)
    /\ Respond(g, "401", Keep)
    /\ UNCHANGED <<api, account, doomed>>

\* A valid access token is enough beside any cookie, which is not looked at.
GuardPassed(g) ==
    /\ Receive(g)
    /\ jar # None
    /\ Respond(g, "passed", Keep)
    /\ UNCHANGED <<api, account, doomed>>

\* No access token, or an expired one: the refresh token is rotated.
GuardRotate(g) ==
    /\ Receive(g)
    /\ Verifies(jar)
    /\ UNCHANGED account
    /\ doomed' = IF familyOf[jar] \in signedOut THEN doomed \cup {g} ELSE doomed
    /\ \/ /\ Api!CallRotate(<<g, 1>>, jar)
          /\ Enter(g, "rotating")
       \/ /\ Respond(g, "401", Clear)     \* fetch throws: the api is unreachable
          /\ UNCHANGED api

\* Rotated: the successor is recorded with the family and parent of the answer.
GuardRotated(g, j) ==
    /\ Resume(g, "rotating")
    /\ answer[<<g, 1>>] = "rotated"
    /\ Api!CallRecordRotation(<<g, 2>>, <<g, 1>>, j)
    /\ Enter(g, "recording")

GuardRejectedCookieKept(g) ==   \* mutant of GuardRejected: the cookie is not cleared
    /\ Resume(g, "rotating")
    /\ answer[<<g, 1>>] \notin {None, "rotated"}
    /\ Respond(g, StatusCode(answer[<<g, 1>>]), Keep)
    /\ UNCHANGED api

GuardRejectedUnlessError(g) ==   \* mutant of GuardRejected: a 500 of the api is not handled
    /\ Resume(g, "rotating")
    /\ answer[<<g, 1>>] \notin {None, "rotated", "error"}
    /\ Respond(g, "401", Clear)
    /\ UNCHANGED api

GuardRejected(g) ==
    /\ Resume(g, "rotating")
    /\ answer[<<g, 1>>] \notin {None, "rotated"}
    /\ Respond(g, StatusCode(answer[<<g, 1>>]), Clear)
    /\ UNCHANGED api

GuardRecordedUnawaited(g) ==   \* mutant of GuardRecorded: recordRefresh is not awaited
    /\ Resume(g, "recording")
    /\ Respond(g, "refreshed", call[<<g, 2>>].jti)
    /\ UNCHANGED api

GuardRecorded(g) ==
    /\ Resume(g, "recording")
    /\ answer[<<g, 2>>] # None
    /\ IF answer[<<g, 2>>] = "recorded"
       THEN Respond(g, "refreshed", call[<<g, 2>>].jti)
       ELSE Respond(g, StatusCode(answer[<<g, 2>>]), Clear)
    /\ UNCHANGED api

-----------------------------------------------------------------------------
(* POST /logout: revokeCurrentRefreshFamily swallows every failure *)

LogoutReceive(g) ==
    /\ Receive(g)
    /\ UNCHANGED <<account, doomed>>
    /\ \/ /\ Verifies(jar)
          /\ Api!CallRevokeByFamily(<<g, 1>>, familyOf[jar])
          /\ Enter(g, "revoking")
       \/ /\ Respond(g, "loggedOut", Clear)   \* no valid cookie, or fetch throws
          /\ UNCHANGED api

LogoutRevoked(g) ==
    /\ Resume(g, "revoking")
    /\ answer[<<g, 1>>] # None
    /\ Respond(g, "loggedOut", Clear)
    /\ UNCHANGED api

-----------------------------------------------------------------------------
(* Failures *)

Awaited(g) == IF stage[g] \in {"recording", "recordingLogin"} THEN <<g, 2>> ELSE <<g, 1>>

\* fetch rejects while the handler waits: each handler's catch.
FetchRejects(g) ==
    /\ stage[g] \in InGateway \ {"validating"}
    /\ Respond(g, IF stage[g] = "revoking" THEN "loggedOut" ELSE "401",
                  IF stage[g] = "recordingLogin" THEN Keep ELSE Clear)
    /\ UNCHANGED <<api, jar, expired, cookie, account, past>>

\* The api died with the call: the connection is reset.
CallDied(g) == pc[Awaited(g)] = "lost" /\ FetchRejects(g) /\ UNCHANGED faults

\* The connection breaks while the api's handler runs on, or after it answered.
CallAbandoned(g) == pc[Awaited(g)] # "lost" /\ FetchRejects(g) /\ Fault

\* The gateway restarts: its handlers are gone, what they asked of the api is not.
GatewayRestarts ==
    /\ Fault
    /\ \E g \in Requests : stage[g] \in InGateway
    /\ stage' = [g \in Requests |-> IF stage[g] \in InGateway THEN "closed" ELSE stage[g]]
    /\ disturbed' = TRUE
    /\ UNCHANGED <<api, jar, expired, cookie, account, status, setCookie, signedOut,
                   raced, doomed>>

-----------------------------------------------------------------------------
(* The browser *)

Deliver(g) ==
    /\ stage[g] = "responded"
    /\ Enter(g, "closed")
    /\ jar' = IF setCookie[g] = Keep THEN jar
              ELSE IF setCookie[g] = Clear THEN None ELSE setCookie[g]
    /\ UNCHANGED <<api, expired, cookie, account, faults, past>>

LoseResponse(g) ==
    /\ stage[g] = "responded"
    /\ Fault
    /\ Enter(g, "closed")
    /\ disturbed' = TRUE
    /\ UNCHANGED <<api, jar, expired, cookie, account, signedOut, raced, doomed>>

\* A refresh JWT expires; the browser may have dropped its cookie by then or not:
\* the cookie's maxAge and the JWT's exp are configured apart.
Expire(j) ==
    /\ familyOf[j] # None /\ j \notin expired
    /\ expired' = expired \cup {j}
    /\ jar' \in {jar, IF jar = j THEN None ELSE jar}
    /\ UNCHANGED <<api, stage, cookie, account, status, setCookie, faults, past>>

-----------------------------------------------------------------------------
(* The api runs *)

gateway == <<jar, expired, stage, cookie, account, status, setCookie>>

\* Noted for the properties: the moment a logout's UPDATE takes effect.
ApiRevokes(c) ==
    /\ Api!RevokeUpdate(c)
    /\ signedOut' = signedOut \cup {call[c].familyId}
    /\ raced' = IF Rotating(call[c].familyId) THEN raced \cup {call[c].familyId} ELSE raced
    /\ UNCHANGED <<gateway, faults, disturbed, doomed>>

ApiStep(c) ==
    \/ ApiRevokes(c)
    \/ /\ \/ Api!RecordInsert(c)
          \/ Api!RotateFind(c)
          \/ Api!RotateSave(c)
          \/ Api!RotateGetUser(c)
          \/ Api!RotateRevokeReused(c)
          \/ Api!RotateRevokeInactive(c)
       /\ UNCHANGED <<gateway, faults, past>>

ApiFails ==
    /\ Fault
    /\ Api!Crash \/ \E c \in Calls : Api!DbError(c)
    /\ UNCHANGED <<gateway, past>>

UserDeleted(u) == Api!DeleteUser(u) /\ UNCHANGED <<gateway, faults, past>>

-----------------------------------------------------------------------------

Send(g) ==
    \/ LoginMalformed(g)
    \/ LoginReceive(g)
    \/ GuardRefused(g)
    \/ GuardPassed(g)
    \/ GuardRotate(g)
    \/ LogoutReceive(g)

\* What a handler does once what it awaits is there.
Continue(g) ==
    \/ \E f \in Families, j \in Jtis : LoginValidated(g, f, j)
    \/ LoginRejected(g)
    \/ LoginRecorded(g)
    \/ \E j \in Jtis : GuardRotated(g, j)
    \/ GuardRejected(g)
    \/ GuardRecorded(g)
    \/ LogoutRevoked(g)
    \/ CallDied(g)

Next ==
    \/ \E g \in Requests : Send(g) \/ Continue(g) \/ CallAbandoned(g)
    \/ \E g \in Requests : Deliver(g) \/ LoseResponse(g)
    \/ \E c \in Calls : ApiStep(c)
    \/ GatewayRestarts
    \/ ApiFails
    \/ \E u \in Users : UserDeleted(u)
    \/ \E j \in Jtis : Expire(j)

\* Node resumes a handler whose promise is settled. Every statement of the api completes
\* or throws (the pool has acquire and idle timeouts) and its handlers await nothing else,
\* so it answers every call it does not lose; fetch rejects one that was lost.
Fairness ==
    /\ \A g \in Requests : WF_vars(Continue(g))
    /\ \A c \in Calls : WF_vars(ApiStep(c))

Spec == Init /\ [][Next]_vars
FairSpec == Spec /\ Fairness

-----------------------------------------------------------------------------
(* Properties *)

\* No cookie without a row: the browser never holds, nor is sent, a refresh token
\* the api does not know (issueRefreshAndRecord awaits recordRefresh first).
CookieIsRecorded ==
    /\ jar # None => Api!Recorded(jar)
    /\ \A g \in Requests : setCookie[g] \in Jtis => Api!Recorded(setCookie[g])

\* Requests sent one at a time, with no response lost, never trip the reuse
\* detection and never meet a revoked or unknown token, whatever fails behind the
\* gateway: an error leaves the browser without a cookie, never with a spent one.
OneAtATimeNeverReuses ==
    ~disturbed =>
        /\ \A g \in Requests :
              answer[<<g, 1>>] \notin {"not-found", "family-revoked", "reused-revoked"}
        /\ jar # None /\ (\A g \in Requests : ~Open(g)) => jar \notin used \cup revoked

\* A session is over once a logout has revoked its family: a request received
\* later with any of its cookies is not refreshed, if no rotation was in progress.
SignedOutIsFinal ==
    \A g \in doomed : familyOf[cookie[g]] \notin raced => status[g] # "refreshed"

\* docs/SECURITY.md:81-83, without that exception: logout ends the whole lineage.
LogoutEndsLineage == \A g \in doomed : status[g] # "refreshed"

\* Every request the gateway receives is answered unless the gateway restarts.
EveryRequestAnswered ==
    \A g \in Requests : stage[g] \in InGateway ~> stage[g] \in {"responded", "closed"}
=============================================================================
