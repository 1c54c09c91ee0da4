------------------------ MODULE GatewaySessionsProofs ------------------------
(***************************************************************************)
(* Proofs about GatewaySessions, for any sets of requests, users, families *)
(* and jtis and any number of faults.                                      *)
(*                                                                         *)
(* First, the gateway calls the api only as RefreshTokenFamily allows, so  *)
(* every theorem about the api holds of the two together (ApiMoves): it is *)
(* cited here, not proved again.  On that rest three invariants.  Base     *)
(* links the stage of a handler to where its calls are.  EndedOK says that *)
(* what may still reach the browser of an ended session is revoked.        *)
(* SequentialOK says that while requests do not overlap a call has its     *)
(* family to itself, so nothing spends a token behind the browser's back.  *)
(***************************************************************************)
EXTENDS GatewaySessions, TLAPS

\* The api's own theorems, for the calls the gateway makes.
ApiProofs == INSTANCE RefreshTokenFamilyProofs WITH Reqs <- Calls

-----------------------------------------------------------------------------

\* Api and ApiProofs are instances of one module: their definitions agree.
LEMMA SameSets ==
    /\ Api!Answers = ApiProofs!Answers
    /\ Api!NoCall = ApiProofs!NoCall
    /\ \A j : Api!Recorded(j) <=> ApiProofs!Recorded(j)
    /\ \A f : Api!Members(f) = ApiProofs!Members(f)
    /\ Api!TypeOK <=> ApiProofs!TypeOK
    /\ Api!Init <=> ApiProofs!Init
    /\ api = ApiProofs!vars
<1>1. Api!Answers = ApiProofs!Answers
  BY DEF Api!Answers, ApiProofs!Answers
<1>2. Api!NoCall = ApiProofs!NoCall
  BY DEF Api!NoCall, ApiProofs!NoCall
<1>3. \A j : Api!Recorded(j) <=> ApiProofs!Recorded(j)
  BY DEF Api!Recorded, ApiProofs!Recorded
<1>4. \A f : Api!Members(f) = ApiProofs!Members(f)
  BY DEF Api!Members, ApiProofs!Members, Api!Recorded, ApiProofs!Recorded
<1>5. Api!TypeOK <=> ApiProofs!TypeOK
  BY <1>1 DEF Api!TypeOK, ApiProofs!TypeOK, Api!Steps, ApiProofs!Steps,
              Api!Calls, ApiProofs!Calls
<1>6. Api!Init <=> ApiProofs!Init
  BY <1>2 DEF Api!Init, ApiProofs!Init
<1>7. api = ApiProofs!vars
  BY DEF api, ApiProofs!vars
<1> QED
  BY <1>1, <1>2, <1>3, <1>4, <1>5, <1>6, <1>7

\* The gateway's calls to the api are the calls the api's proofs speak of.
LEMMA SameCalls ==
    ASSUME NEW c \in Calls
    PROVE
      /\ \A u, f, j :
            Api!CallRecordLogin(c, u, f, j) => ApiProofs!CallRecordLogin(c, u, f, j)
      /\ \A d, j : Api!CallRecordRotation(c, d, j) => ApiProofs!CallRecordRotation(c, d, j)
      /\ \A j : Api!CallRotate(c, j) => ApiProofs!CallRotate(c, j)
      /\ \A f : Api!CallRevokeByFamily(c, f) => ApiProofs!CallRevokeByFamily(c, f)
<1> USE DEF Api!Arrive, ApiProofs!Arrive, Api!Goto, ApiProofs!Goto, Api!FreshJti,
            ApiProofs!FreshJti, Api!FreshFamily, ApiProofs!FreshFamily, Api!table,
            ApiProofs!table, Api!history, ApiProofs!history
<1>1. \A u, f, j : Api!CallRecordLogin(c, u, f, j) => ApiProofs!CallRecordLogin(c, u, f, j)
  BY SameSets DEF Api!CallRecordLogin, ApiProofs!CallRecordLogin
<1>2. \A d, j : Api!CallRecordRotation(c, d, j) => ApiProofs!CallRecordRotation(c, d, j)
  BY SameSets DEF Api!CallRecordRotation, ApiProofs!CallRecordRotation
<1>3. \A j : Api!CallRotate(c, j) => ApiProofs!CallRotate(c, j)
  BY SameSets DEF Api!CallRotate, ApiProofs!CallRotate
<1>4. \A f : Api!CallRevokeByFamily(c, f) => ApiProofs!CallRevokeByFamily(c, f)
  BY SameSets DEF Api!CallRevokeByFamily, ApiProofs!CallRevokeByFamily
<1> QED
  BY <1>1, <1>2, <1>3, <1>4

\* So are the statements and the failures of the api.
LEMMA SameStatements ==
    ASSUME NEW c \in Calls
    PROVE
      /\ Api!RecordInsert(c) => ApiProofs!RecordInsert(c)
      /\ Api!RotateFind(c) => ApiProofs!RotateFind(c)
      /\ Api!RotateSave(c) => ApiProofs!RotateSave(c)
      /\ Api!RotateGetUser(c) => ApiProofs!RotateGetUser(c)
      /\ Api!RotateRevokeReused(c) => ApiProofs!RotateRevokeReused(c)
      /\ Api!RotateRevokeInactive(c) => ApiProofs!RotateRevokeInactive(c)
      /\ Api!RevokeUpdate(c) => ApiProofs!RevokeUpdate(c)
      /\ Api!DbError(c) => ApiProofs!DbError(c)
      /\ Api!Crash => ApiProofs!Crash
      /\ \A u : Api!DeleteUser(u) => ApiProofs!DeleteUser(u)
<1> USE DEF Api!Goto, ApiProofs!Goto, Api!Reply, ApiProofs!Reply, Api!table,
            ApiProofs!table, Api!history, ApiProofs!history, Api!Running,
            ApiProofs!Running, Api!Steps, ApiProofs!Steps
<1>1. Api!RecordInsert(c) => ApiProofs!RecordInsert(c)
  BY SameSets DEF Api!RecordInsert, ApiProofs!RecordInsert, Api!FamilyRevoked,
                  ApiProofs!FamilyRevoked
<1>2. Api!RotateFind(c) => ApiProofs!RotateFind(c)
  BY SameSets DEF Api!RotateFind, ApiProofs!RotateFind
<1>3. Api!RotateSave(c) => ApiProofs!RotateSave(c)
  BY DEF Api!RotateSave, ApiProofs!RotateSave
<1>4. Api!RotateGetUser(c) => ApiProofs!RotateGetUser(c)
  BY DEF Api!RotateGetUser, ApiProofs!RotateGetUser
<1>5. \A step, a : Api!RevokeStep(c, step, a) => ApiProofs!RevokeStep(c, step, a)
  BY SameSets DEF Api!RevokeStep, ApiProofs!RevokeStep, Api!RevokeFamily,
                  ApiProofs!RevokeFamily
<1>6. /\ Api!RotateRevokeReused(c) => ApiProofs!RotateRevokeReused(c)
      /\ Api!RotateRevokeInactive(c) => ApiProofs!RotateRevokeInactive(c)
      /\ Api!RevokeUpdate(c) => ApiProofs!RevokeUpdate(c)
  BY <1>5 DEF Api!RotateRevokeReused, ApiProofs!RotateRevokeReused,
     Api!RotateRevokeInactive, ApiProofs!RotateRevokeInactive, Api!RevokeUpdate,
     ApiProofs!RevokeUpdate
<1>7. Api!DbError(c) => ApiProofs!DbError(c)
  BY DEF Api!DbError, ApiProofs!DbError
<1>8. Api!Crash => ApiProofs!Crash
  BY DEF Api!Crash, ApiProofs!Crash
<1>9. \A u : Api!DeleteUser(u) => ApiProofs!DeleteUser(u)
  BY DEF Api!DeleteUser, ApiProofs!DeleteUser
<1> QED
  BY <1>1, <1>2, <1>3, <1>4, <1>6, <1>7, <1>8, <1>9

-----------------------------------------------------------------------------
(* The inductive invariant. *)

\* Where the calls of a request are when its handler is at a stage.
LinkOf(g) ==
    /\ pc[<<g, 1>>] \notin {"insert", "findRevoke"}
    /\ pc[<<g, 2>>] \in {"idle", "insert", "done", "lost"}
    /\ stage[g] \in {"unsent", "validating"} => pc[<<g, 1>>] = "idle"
    /\ stage[g] \in {"unsent", "validating", "rotating", "revoking"} =>
          pc[<<g, 2>>] = "idle"
    /\ stage[g] \in {"rotating", "recording"} =>
          cookie[g] \in Jtis /\ call[<<g, 1>>].jti = cookie[g]
    /\ stage[g] = "recording" =>
          /\ pc[<<g, 1>>] = "done"
          /\ pc[<<g, 2>>] # "idle"
          /\ call[<<g, 2>>].familyId = familyOf[cookie[g]]
    /\ stage[g] = "recordingLogin" =>
          pc[<<g, 2>>] # "idle" /\ call[<<g, 2>>].parentJti = None

\* What a call names is in the table: the token a rotation presents, a row of the
\* family a logout revokes, and the token a record call has inserted.
NamedCall(c) ==
    /\ pc[c] = "find" => Api!Recorded(call[c].jti)
    /\ pc[c] = "revokeFamily" => \E j \in Jtis : familyOf[j] = call[c].familyId
    /\ answer[c] = "recorded" =>
          Api!Recorded(call[c].jti) /\ familyOf[call[c].jti] = call[c].familyId
NamedOK ==
    /\ \A g \in Requests : cookie[g] # None => Api!Recorded(cookie[g])
    /\ \A c \in Calls : NamedCall(c)

LinkOK == \A g \in Requests : LinkOf(g)

Base == ApiProofs!IInv /\ TypeOK /\ CookieIsRecorded /\ LinkOK /\ NamedOK

\* The two calls of a request and those of two requests are different calls.
LEMMA CallIds ==
    /\ \A g \in Requests : <<g, 1>> \in Calls /\ <<g, 2>> \in Calls
    /\ \A g, h \in Requests : <<g, 1>> # <<h, 2>>
    /\ \A g, h \in Requests : <<g, 1>> = <<h, 1>> <=> g = h
    /\ \A g, h \in Requests : <<g, 2>> = <<h, 2>> <=> g = h
    /\ \A c \in Calls : \E g \in Requests : c = <<g, 1>> \/ c = <<g, 2>>
BY DEF Calls

-----------------------------------------------------------------------------
(* The gateway is a client the api expects: the composition implements Api. *)

\* The api's table and handlers move as RefreshTokenFamily allows, or not at all.
LEMMA ApiMoves == Base /\ [Next]_vars => [ApiProofs!Next]_(ApiProofs!vars)
<1> SUFFICES ASSUME Base, [Next]_vars PROVE ApiProofs!Next \/ UNCHANGED api
  BY DEF api, ApiProofs!vars
<1>1. ASSUME NEW g \in Requests, GuardRotate(g) PROVE ApiProofs!Next \/ UNCHANGED api
  <2>1. jar \in Jtis
    BY <1>1 DEF GuardRotate, Verifies, Base, TypeOK
  <2> QED
    BY <1>1, <2>1, CallIds, SameCalls DEF GuardRotate, ApiProofs!Next, ApiProofs!Call
<1>2. ASSUME NEW g \in Requests, LogoutReceive(g) PROVE ApiProofs!Next \/ UNCHANGED api
  <2>1. CASE UNCHANGED api
    BY <2>1
  <2>2. CASE Verifies(jar) /\ Api!CallRevokeByFamily(<<g, 1>>, familyOf[jar])
    <3>1. familyOf[jar] \in Families
      BY <2>2, NoneAssumption
      DEF Verifies, Base, TypeOK, Api!TypeOK, CookieIsRecorded, Api!Recorded
    <3> QED
      BY <2>2, <3>1, CallIds, SameCalls DEF ApiProofs!Next, ApiProofs!Call
  <2> QED
    BY <1>2, <2>1, <2>2 DEF LogoutReceive
<1>3. ASSUME NEW g \in Requests, NEW f \in Families, NEW j \in Jtis, LoginValidated(g, f, j)
      PROVE  ApiProofs!Next \/ UNCHANGED api
  <2>1. account[g] \in Users
    BY <1>3 DEF LoginValidated, Base, TypeOK
  <2>2. ApiProofs!CallRecordLogin(<<g, 2>>, account[g], f, j)
    BY <1>3, CallIds, SameCalls DEF LoginValidated
  <2> QED
    BY <2>1, <2>2, CallIds DEF ApiProofs!Next, ApiProofs!Call
<1>4. ASSUME NEW g \in Requests, NEW j \in Jtis, GuardRotated(g, j)
      PROVE  ApiProofs!Next \/ UNCHANGED api
  BY <1>4, CallIds, SameCalls DEF GuardRotated, ApiProofs!Next, ApiProofs!Call
<1>5. ASSUME NEW c \in Calls, ApiStep(c) PROVE ApiProofs!Next \/ UNCHANGED api
  BY <1>5, SameStatements DEF ApiStep, ApiRevokes, ApiProofs!Next, ApiProofs!Statement
<1>6. ASSUME ApiFails PROVE ApiProofs!Next \/ UNCHANGED api
  BY <1>6, SameStatements DEF ApiFails, ApiProofs!Next, Api!Crash, ApiProofs!Crash
<1>7. ASSUME NEW u \in Users, UserDeleted(u) PROVE ApiProofs!Next \/ UNCHANGED api
  <2>1. ApiProofs!DeleteUser(u)
    BY <1>7
    DEF UserDeleted, Api!DeleteUser, ApiProofs!DeleteUser, Api!table, ApiProofs!table,
                Api!history, ApiProofs!history
  <2> QED
    BY <2>1 DEF ApiProofs!Next
<1>8. CASE UNCHANGED vars
  BY <1>8 DEF vars, api
<1> QED
  BY <1>1, <1>2, <1>3, <1>4, <1>5, <1>6, <1>7, <1>8
  DEF Next, Send, Continue, LoginMalformed, LoginReceive, GuardRefused, GuardPassed,
      LoginRejected, LoginRecorded, GuardRejected, GuardRecorded, LogoutRevoked, CallDied,
      CallAbandoned, FetchRejects, Deliver, LoseResponse, GatewayRestarts, Expire

\* What the api's own invariant says of the calls of the gateway.
LEMMA ApiFacts ==
    ASSUME ApiProofs!IInv
    PROVE
      /\ Api!TypeOK
      /\ \A c \in Calls : answer[c] # None <=> pc[c] = "done"
      /\ \A c \in Calls : answer[c] = "rotated" => call[c].familyId = familyOf[call[c].jti]
      /\ \A c \in stale : answer[c] # "rotated"
      /\ used \cup revoked \subseteq {j \in Jtis : Api!Recorded(j)}
      /\ \A c \in Calls : pc[c] = "insert" /\ call[c].parentJti = None =>
            Api!Members(call[c].familyId) = {}
BY SameSets DEF ApiProofs!IInv, ApiProofs!Base, ApiProofs!AnsweredOK, ApiProofs!FoundOK,
   ApiProofs!StaleOK, ApiProofs!RowsOK, ApiProofs!RootOK, ApiProofs!TypeOK

\* No step removes a row, a use or a revocation, or moves a row to another family.
LEMMA ApiKeeps ==
    ASSUME Base, [Next]_vars
    PROVE
      /\ ApiProofs!IInv'
      /\ Api!TypeOK'
      /\ used \subseteq used' /\ revoked \subseteq revoked'
      /\ \A j : Api!Recorded(j) => Api!Recorded(j)' /\ familyOf'[j] = familyOf[j]
<1>1. [ApiProofs!Next]_(ApiProofs!vars)
  BY ApiMoves
<1>2. ApiProofs!IInv'
  BY <1>1, ApiProofs!InvStep, NoneAssumption, SameSets DEF Base
<1>3. Api!TypeOK'
  BY <1>2 DEF ApiProofs!IInv, ApiProofs!Base, ApiProofs!TypeOK, Api!TypeOK, Api!Steps,
     ApiProofs!Steps, Api!Answers, ApiProofs!Answers, Api!Calls, ApiProofs!Calls
<1>4. [ApiProofs!NothingUndoneStep]_(ApiProofs!vars)
  BY <1>1, ApiProofs!UndoneStep, NoneAssumption, SameSets DEF Base
<1> QED
  BY <1>2, <1>3, <1>4
  DEF ApiProofs!NothingUndoneStep, ApiProofs!vars, ApiProofs!Recorded, Api!Recorded

-----------------------------------------------------------------------------
(* Base is inductive: a step per action of the gateway, the browser and the api. *)

\* The variables of the gateway and the browser keep their types.
LEMMA TypeStep ==
    ASSUME Base, [Next]_vars
    PROVE  TypeOK'
<1>1a. Api!TypeOK'
  BY ApiKeeps
<1>1b. TypeOK /\ CookieIsRecorded /\ NamedOK /\ LinkOK
  BY DEF Base
<1> USE <1>1a, <1>1b, NoneAssumption, MarkersAssumption, BoundsAssumption, CallIds
    DEF TypeOK, Stages, Statuses, InGateway, api, past, gateway
<1>1. ASSUME NEW g \in Requests, LoginMalformed(g) PROVE TypeOK'
  BY <1>1
  DEF LoginMalformed, Receive, Respond, api
<1>2. ASSUME NEW g \in Requests, LoginReceive(g) PROVE TypeOK'
  BY <1>2
  DEF LoginReceive, Receive, Enter, api
<1>3. ASSUME NEW g \in Requests, GuardRefused(g) PROVE TypeOK'
  BY <1>3
  DEF GuardRefused, Receive, Respond, api
<1>4. ASSUME NEW g \in Requests, GuardPassed(g) PROVE TypeOK'
  BY <1>4
  DEF GuardPassed, Receive, Respond, api
<1>5. ASSUME NEW g \in Requests, GuardRotate(g) PROVE TypeOK'
  BY <1>5
  DEF GuardRotate, Receive, Respond, Enter, Verifies, Api!CallRotate, Api!Arrive,
     Api!Goto, Api!NoCall, api
<1>6. ASSUME NEW g \in Requests, LogoutReceive(g) PROVE TypeOK'
  BY <1>6
  DEF LogoutReceive, Receive, Respond, Enter, Verifies, Api!CallRevokeByFamily,
     Api!Arrive, Api!Goto, Api!NoCall, api
<1>7. ASSUME NEW g \in Requests, NEW f \in Families, NEW j \in Jtis, LoginValidated(g, f, j)
      PROVE  TypeOK'
  BY <1>7
  DEF LoginValidated, Resume, Enter, Api!CallRecordLogin, Api!FreshJti, Api!FreshFamily,
     Api!Arrive, Api!Goto, Api!NoCall, api
<1>8. ASSUME NEW g \in Requests, LoginRejected(g) PROVE TypeOK'
  BY <1>8
  DEF LoginRejected, Resume, Respond, api
<1>9. ASSUME NEW g \in Requests, LoginRecorded(g) PROVE TypeOK'
  <2>1. answer[<<g, 2>>] = "recorded" => call[<<g, 2>>].jti \in Jtis
    BY DEF NamedOK, NamedCall, Api!Recorded
  <2> QED
    BY <1>9, <2>1 DEF LoginRecorded, Resume, Respond, StatusCode
<1>10. ASSUME NEW g \in Requests, NEW j \in Jtis, GuardRotated(g, j) PROVE TypeOK'
  BY <1>10
  DEF GuardRotated, Resume, Enter, Api!CallRecordRotation, Api!FreshJti, Api!Arrive,
     Api!Goto, api
<1>11. ASSUME NEW g \in Requests, GuardRejected(g) PROVE TypeOK'
  BY <1>11
  DEF GuardRejected, Resume, Respond, StatusCode, api
<1>12. ASSUME NEW g \in Requests, GuardRecorded(g) PROVE TypeOK'
  <2>1. answer[<<g, 2>>] = "recorded" => call[<<g, 2>>].jti \in Jtis
    BY DEF NamedOK, NamedCall, Api!Recorded
  <2> QED
    BY <1>12, <2>1 DEF GuardRecorded, Resume, Respond, StatusCode
<1>13. ASSUME NEW g \in Requests, LogoutRevoked(g) PROVE TypeOK'
  BY <1>13
  DEF LogoutRevoked, Resume, Respond, api
<1>14. ASSUME NEW g \in Requests, CallDied(g) \/ CallAbandoned(g) PROVE TypeOK'
  BY <1>14
  DEF CallDied, CallAbandoned, FetchRejects, Respond, Fault, api
<1>15. ASSUME NEW g \in Requests, Deliver(g) PROVE TypeOK'
  BY <1>15
  DEF Deliver, Enter, api
<1>16. ASSUME NEW g \in Requests, LoseResponse(g) PROVE TypeOK'
  BY <1>16
  DEF LoseResponse, Enter, Fault, api
<1>17. ASSUME GatewayRestarts PROVE TypeOK'
  BY <1>17
  DEF GatewayRestarts, Fault, api
<1>18. ASSUME NEW j \in Jtis, Expire(j) PROVE TypeOK'
  BY <1>18
  DEF Expire, api
<1>19. ASSUME NEW c \in Calls, ApiStep(c) PROVE TypeOK'
  <2>1. CASE ApiRevokes(c)
    <3>1. call[c].familyId \in Families
      BY <2>1 DEF ApiRevokes, Api!RevokeUpdate, Api!RevokeStep, Api!TypeOK, Api!Steps
    <3> QED
      BY <2>1, <3>1 DEF ApiRevokes
  <2>2. CASE UNCHANGED <<gateway, faults, past>>
    BY <2>2
  <2> QED
    BY <1>19, <2>1, <2>2 DEF ApiStep
<1>20. ASSUME ApiFails PROVE TypeOK'
  BY <1>20
  DEF ApiFails, Fault, api
<1>21. ASSUME NEW u \in Users, UserDeleted(u) PROVE TypeOK'
  BY <1>21
  DEF UserDeleted, api
<1>22. ASSUME UNCHANGED vars PROVE TypeOK'
  BY <1>22
  DEF vars, api
<1> QED
  BY <1>1, <1>2, <1>3, <1>4, <1>5, <1>6, <1>7, <1>8, <1>9, <1>10, <1>11, <1>12, <1>13,
     <1>14, <1>15, <1>16, <1>17, <1>18, <1>19, <1>20, <1>21, <1>22
  DEF Next, Send, Continue

\* A statement, a failure or a restart of the api, or a user's deletion.
ApiRuns ==
    \/ \E c \in Calls : ApiStep(c)
    \/ ApiFails
    \/ \E u \in Users : UserDeleted(u)

\* What such a step may do to a call: its handler goes on or ends, findOne tells it
\* the family, an answer stays, and "recorded" is answered by the INSERT alone.
RecordedNow(c) ==
    /\ pc[c] = "insert" /\ call'[c] = call[c]
    /\ familyOf'[call[c].jti] = call[c].familyId
CallProgress(c) ==
    /\ pc[c] \in {"idle", "done", "lost"} => pc'[c] = pc[c]
    /\ pc'[c] = "idle" => pc[c] = "idle"
    /\ pc[c] = "insert" => pc'[c] \in {"insert", "done", "lost"}
    /\ pc'[c] \in {"insert", "find", "findRevoke", "revokeFamily"} => pc'[c] = pc[c]
    /\ call'[c].jti = call[c].jti /\ call'[c].parentJti = call[c].parentJti
    /\ pc[c] # "find" => call'[c] = call[c]
    /\ pc[c] = "find" => call'[c].familyId \in {call[c].familyId, familyOf[call[c].jti]}
    /\ answer[c] # None => answer'[c] = answer[c]
    /\ answer'[c] = "recorded" => answer[c] = "recorded" \/ RecordedNow(c)

\* The api changes nothing of the gateway's, and its handlers only move forward.
LEMMA ApiProgress ==
    ASSUME Base, ApiRuns
    PROVE  /\ UNCHANGED <<gateway, disturbed, doomed, stale>>
           /\ UNCHANGED <<signedOut, raced>> \/ \E c \in Calls : ApiRevokes(c)
           /\ \A c \in Calls : CallProgress(c)
<1>1. Api!TypeOK
  BY DEF Base, TypeOK
<1>2. \A c \in Calls : answer[c] # None <=> pc[c] = "done"
  BY ApiFacts DEF Base
<1>3. Api!TypeOK'
  BY ApiKeeps DEF ApiRuns, Next
<1>4. /\ UNCHANGED <<gateway, disturbed, doomed, stale>>
      /\ UNCHANGED <<signedOut, raced>> \/ \E c \in Calls : ApiRevokes(c)
  BY
  DEF ApiRuns, ApiStep, ApiRevokes, ApiFails, UserDeleted, past, Api!history,
         Api!RecordInsert,
         Api!RotateFind, Api!RotateSave, Api!RotateGetUser, Api!RotateRevokeReused,
         Api!RotateRevokeInactive, Api!RevokeUpdate, Api!RevokeStep, Api!DbError, Api!Crash,
         Api!DeleteUser
<1> SUFFICES ASSUME NEW d \in Calls PROVE CallProgress(d)
  BY <1>4
<1> USE <1>1, <1>2, <1>3, NoneAssumption
    DEF CallProgress, RecordedNow, Api!TypeOK, Api!Steps, Api!Calls, Api!Reply, Api!Goto,
        Api!Running, Api!Recorded
<1>5. ASSUME NEW c \in Calls, Api!RecordInsert(c) PROVE CallProgress(d)
  BY <1>5 DEF Api!RecordInsert, Api!Answers
<1>6. ASSUME NEW c \in Calls, Api!RotateFind(c) PROVE CallProgress(d)
  BY <1>6 DEF Api!RotateFind
<1>7. ASSUME NEW c \in Calls, Api!RotateSave(c) PROVE CallProgress(d)
  BY <1>7 DEF Api!RotateSave
<1>8. ASSUME NEW c \in Calls, Api!RotateGetUser(c) PROVE CallProgress(d)
  BY <1>8 DEF Api!RotateGetUser
<1>9. ASSUME NEW c \in Calls, Api!RotateRevokeReused(c) PROVE CallProgress(d)
  BY <1>9 DEF Api!RotateRevokeReused, Api!RevokeStep
<1>10. ASSUME NEW c \in Calls, Api!RotateRevokeInactive(c) PROVE CallProgress(d)
  BY <1>10 DEF Api!RotateRevokeInactive, Api!RevokeStep
<1>11. ASSUME NEW c \in Calls, Api!RevokeUpdate(c) PROVE CallProgress(d)
  BY <1>11 DEF Api!RevokeUpdate, Api!RevokeStep
<1>12. ASSUME NEW c \in Calls, Api!DbError(c) PROVE CallProgress(d)
  BY <1>12 DEF Api!DbError
<1>13. ASSUME Api!Crash PROVE CallProgress(d)
  BY <1>13 DEF Api!Crash
<1>14. ASSUME NEW u \in Users, Api!DeleteUser(u) PROVE CallProgress(d)
  BY <1>14 DEF Api!DeleteUser
<1> QED
  BY <1>5, <1>6, <1>7, <1>8, <1>9, <1>10, <1>11, <1>12, <1>13, <1>14
  DEF ApiRuns, ApiStep, ApiRevokes, ApiFails, UserDeleted

\* The cookie of a response names a token whose record call was answered.
LEMMA CookieStep ==
    ASSUME Base, [Next]_vars
    PROVE  CookieIsRecorded'
<1>1a. TypeOK /\ CookieIsRecorded /\ NamedOK /\ LinkOK
  BY DEF Base
<1>1b. \A j : Api!Recorded(j) => Api!Recorded(j)' /\ familyOf'[j] = familyOf[j]
  BY ApiKeeps
<1>1c. \A c \in Calls : answer[c] # None <=> pc[c] = "done"
  BY ApiFacts DEF Base
<1>1d. Api!TypeOK
  BY <1>1a DEF TypeOK
<1> USE <1>1a, <1>1b, <1>1c, <1>1d, NoneAssumption, MarkersAssumption, CallIds
    DEF TypeOK, api, past, gateway, InGateway, CookieIsRecorded, NamedOK, NamedCall
<1>1. ASSUME NEW g \in Requests, LoginMalformed(g) PROVE CookieIsRecorded'
  BY <1>1
  DEF LoginMalformed, Receive, Respond, api
<1>2. ASSUME NEW g \in Requests, LoginReceive(g) PROVE CookieIsRecorded'
  BY <1>2
  DEF LoginReceive, Receive, Enter, api
<1>3. ASSUME NEW g \in Requests, GuardRefused(g) PROVE CookieIsRecorded'
  BY <1>3
  DEF GuardRefused, Receive, Respond, api
<1>4. ASSUME NEW g \in Requests, GuardPassed(g) PROVE CookieIsRecorded'
  BY <1>4
  DEF GuardPassed, Receive, Respond, api
<1>5. ASSUME NEW g \in Requests, GuardRotate(g) PROVE CookieIsRecorded'
  BY <1>5
  DEF GuardRotate, Receive, Respond, Enter, Verifies, Api!CallRotate, Api!Arrive,
     Api!Goto, Api!NoCall, api
<1>6. ASSUME NEW g \in Requests, LogoutReceive(g) PROVE CookieIsRecorded'
  BY <1>6
  DEF LogoutReceive, Receive, Respond, Enter, Verifies, Api!CallRevokeByFamily,
     Api!Arrive, Api!Goto, Api!NoCall, api
<1>7. ASSUME NEW g \in Requests, NEW f \in Families, NEW j \in Jtis, LoginValidated(g, f, j)
      PROVE  CookieIsRecorded'
  BY <1>7
  DEF LoginValidated, Resume, Enter, Api!CallRecordLogin, Api!FreshJti, Api!FreshFamily,
     Api!Arrive, Api!Goto, Api!NoCall, api
<1>8. ASSUME NEW g \in Requests, LoginRejected(g) PROVE CookieIsRecorded'
  BY <1>8
  DEF LoginRejected, Resume, Respond, api
<1>9. ASSUME NEW g \in Requests, LoginRecorded(g) PROVE CookieIsRecorded'
  <2>1. answer[<<g, 2>>] = "recorded" => Api!Recorded(call[<<g, 2>>].jti)
    OBVIOUS
  <2> QED
    BY <1>9, <2>1 DEF LoginRecorded, Resume, Respond, StatusCode
<1>10. ASSUME NEW g \in Requests, NEW j \in Jtis, GuardRotated(g, j)
      PROVE  CookieIsRecorded'
  BY <1>10
  DEF GuardRotated, Resume, Enter, Api!CallRecordRotation, Api!FreshJti, Api!Arrive,
     Api!Goto, api
<1>11. ASSUME NEW g \in Requests, GuardRejected(g) PROVE CookieIsRecorded'
  BY <1>11
  DEF GuardRejected, Resume, Respond, StatusCode, api
<1>12. ASSUME NEW g \in Requests, GuardRecorded(g) PROVE CookieIsRecorded'
  <2>1. answer[<<g, 2>>] = "recorded" => Api!Recorded(call[<<g, 2>>].jti)
    OBVIOUS
  <2> QED
    BY <1>12, <2>1 DEF GuardRecorded, Resume, Respond, StatusCode
<1>13. ASSUME NEW g \in Requests, LogoutRevoked(g) PROVE CookieIsRecorded'
  BY <1>13
  DEF LogoutRevoked, Resume, Respond, api
<1>14. ASSUME NEW g \in Requests, CallDied(g) \/ CallAbandoned(g)
      PROVE  CookieIsRecorded'
  BY <1>14
  DEF CallDied, CallAbandoned, FetchRejects, Respond, Fault, api
<1>15. ASSUME NEW g \in Requests, Deliver(g) PROVE CookieIsRecorded'
  BY <1>15
  DEF Deliver, Enter, api
<1>16. ASSUME NEW g \in Requests, LoseResponse(g) PROVE CookieIsRecorded'
  BY <1>16
  DEF LoseResponse, Enter, Fault, api
<1>17. ASSUME GatewayRestarts PROVE CookieIsRecorded'
  BY <1>17
  DEF GatewayRestarts, Fault, api
<1>18. ASSUME NEW j \in Jtis, Expire(j) PROVE CookieIsRecorded'
  BY <1>18
  DEF Expire, api
<1>19. ASSUME ApiRuns PROVE CookieIsRecorded'
  BY <1>19, ApiProgress
<1>20. ASSUME UNCHANGED vars PROVE CookieIsRecorded'
  BY <1>20
  DEF vars, api
<1> QED
  BY <1>1, <1>2, <1>3, <1>4, <1>5, <1>6, <1>7, <1>8, <1>9, <1>10, <1>11, <1>12, <1>13,
     <1>14, <1>15, <1>16, <1>17, <1>18, <1>19, <1>20
  DEF Next, Send, Continue, ApiRuns

\* A handler waits for its own call, and the api moves it only forward.
LEMMA LinkStep ==
    ASSUME Base, [Next]_vars
    PROVE  LinkOK'
<1> SUFFICES ASSUME NEW h \in Requests PROVE LinkOf(h)'
  BY DEF LinkOK
<1>1a. LinkOf(h) /\ \A g \in Requests : LinkOf(g)
  BY DEF Base, LinkOK
<1>1b. /\ stage \in [Requests -> Stages]
       /\ cookie \in [Requests -> Jtis \cup {None}]
       /\ jar \in Jtis \cup {None}
       /\ pc \in [Calls -> Api!Steps \cup {"idle", "done", "lost"}]
       /\ call \in [Calls -> Api!Calls]
  BY DEF Base, TypeOK, Api!TypeOK
<1>1c. /\ cookie[h] # None => Api!Recorded(cookie[h])
       /\ \A j : Api!Recorded(j) => familyOf'[j] = familyOf[j]
       /\ \A c \in Calls : answer[c] # None <=> pc[c] = "done"
  BY ApiKeeps, ApiFacts DEF Base, NamedOK
<1>1d. /\ jar # None => familyOf[jar] \in Families
       /\ Api!NoCall \in Api!Calls
  BY NoneAssumption
  DEF Base, TypeOK, Api!TypeOK, CookieIsRecorded, Api!Recorded, Api!NoCall, Api!Calls
<1>1e. /\ None # "rotated"
       /\ \A c \in Calls : answer[c] = "rotated" => call[c].familyId = familyOf[call[c].jti]
  BY NoneAssumption, ApiFacts DEF Base, Api!Answers
<1> USE <1>1a, <1>1b, CallIds, NoneAssumption DEF LinkOf
<1>1. ASSUME NEW g \in Requests, LoginMalformed(g) PROVE LinkOf(h)'
  BY <1>1
  DEF LoginMalformed, Receive, Respond, api
<1>2. ASSUME NEW g \in Requests, LoginReceive(g) PROVE LinkOf(h)'
  BY <1>2
  DEF LoginReceive, Receive, Enter, api
<1>3. ASSUME NEW g \in Requests, GuardRefused(g) PROVE LinkOf(h)'
  BY <1>3
  DEF GuardRefused, Receive, Respond, api
<1>4. ASSUME NEW g \in Requests, GuardPassed(g) PROVE LinkOf(h)'
  BY <1>4
  DEF GuardPassed, Receive, Respond, api
<1>5. ASSUME NEW g \in Requests, GuardRotate(g) PROVE LinkOf(h)'
  <2>1. CASE Respond(g, "401", Clear) /\ UNCHANGED api
    BY <1>5, <2>1 DEF GuardRotate, Receive, Respond, api
  <2>2. CASE Api!CallRotate(<<g, 1>>, jar)
    <3>1. /\ pc' = [pc EXCEPT ![<<g, 1>>] = "find"]
          /\ call' = [call EXCEPT ![<<g, 1>>] = [Api!NoCall EXCEPT !.jti = jar]]
          /\ UNCHANGED familyOf
      BY <2>2 DEF Api!CallRotate, Api!Arrive, Api!Goto, Api!table
    <3>2. call'[<<g, 1>>].jti = jar
      BY ZenonT(30), <3>1 DEF Api!NoCall
    <3>3. /\ stage[g] = "unsent" /\ cookie' = [cookie EXCEPT ![g] = jar] /\ jar # None
          /\ \/ stage' = [stage EXCEPT ![g] = "rotating"]
             \/ stage' = [stage EXCEPT ![g] = "responded"]
      BY <1>5 DEF GuardRotate, Receive, Enter, Respond, Verifies
    <3> QED
      BY <3>1, <3>2, <3>3
  <2> QED
    BY <1>5, <2>1, <2>2 DEF GuardRotate
<1>6. ASSUME NEW g \in Requests, LogoutReceive(g) PROVE LinkOf(h)'
  <2>1. CASE UNCHANGED api
    BY <1>6, <2>1 DEF LogoutReceive, Receive, Respond, Enter, api
  <2>2. CASE Api!CallRevokeByFamily(<<g, 1>>, familyOf[jar])
    <3>1. /\ pc' = [pc EXCEPT ![<<g, 1>>] = "revokeFamily"]
          /\ \E b : call' = [call EXCEPT ![<<g, 1>>] = b]
          /\ UNCHANGED familyOf
      BY <1>1d, <2>2 DEF Api!CallRevokeByFamily, Api!Arrive, Api!Goto, Api!table
    <3>2. /\ stage[g] = "unsent" /\ cookie' = [cookie EXCEPT ![g] = jar]
          /\ \/ stage' = [stage EXCEPT ![g] = "revoking"]
             \/ stage' = [stage EXCEPT ![g] = "responded"]
      BY <1>6 DEF LogoutReceive, Receive, Enter, Respond
    <3> QED
      BY <3>1, <3>2
  <2> QED
    BY <1>6, <2>1, <2>2 DEF LogoutReceive
<1>7. ASSUME NEW g \in Requests, NEW f \in Families, NEW j \in Jtis, LoginValidated(g, f, j)
      PROVE  LinkOf(h)'
  <2>1. /\ pc' = [pc EXCEPT ![<<g, 2>>] = "insert"]
        /\ call' = [call EXCEPT ![<<g, 2>>] =
                      [Api!NoCall EXCEPT !.jti = j, !.familyId = f, !.userId = account[g]]]
        /\ UNCHANGED familyOf
    BY <1>7 DEF LoginValidated, Api!CallRecordLogin, Api!Arrive, Api!Goto, Api!table
  <2>2. call'[<<g, 2>>].parentJti = None
    BY <2>1 DEF Api!NoCall
  <2>3. /\ stage[g] = "validating" /\ UNCHANGED cookie
        /\ stage' = [stage EXCEPT ![g] = "recordingLogin"]
    BY <1>7 DEF LoginValidated, Resume, Enter
  <2> QED
    BY <2>1, <2>2, <2>3
<1>8. ASSUME NEW g \in Requests, LoginRejected(g) PROVE LinkOf(h)'
  BY <1>8
  DEF LoginRejected, Resume, Respond, api
<1>9. ASSUME NEW g \in Requests, LoginRecorded(g) PROVE LinkOf(h)'
  BY <1>9
  DEF LoginRecorded, Resume, Respond, api
<1>10. ASSUME NEW g \in Requests, NEW j \in Jtis, GuardRotated(g, j) PROVE LinkOf(h)'
  <2>1. /\ pc' = [pc EXCEPT ![<<g, 2>>] = "insert"]
        /\ \E b : /\ b.familyId = call[<<g, 1>>].familyId
                  /\ call' = [call EXCEPT ![<<g, 2>>] = b]
        /\ UNCHANGED familyOf
    BY <1>10 DEF GuardRotated, Api!CallRecordRotation, Api!Arrive, Api!Goto, Api!table
  <2>2. call'[<<g, 2>>].familyId = familyOf[cookie[g]] /\ pc[<<g, 1>>] = "done"
    BY <1>1c, <1>1e, <1>10, <2>1 DEF GuardRotated, Resume
  <2>3. /\ stage[g] = "rotating" /\ UNCHANGED cookie
        /\ stage' = [stage EXCEPT ![g] = "recording"]
    BY <1>10 DEF GuardRotated, Resume, Enter
  <2> QED
    BY <2>1, <2>2, <2>3
<1>11. ASSUME NEW g \in Requests, GuardRejected(g) PROVE LinkOf(h)'
  BY <1>11
  DEF GuardRejected, Resume, Respond, StatusCode, api
<1>12. ASSUME NEW g \in Requests, GuardRecorded(g) PROVE LinkOf(h)'
  BY <1>12
  DEF GuardRecorded, Resume, Respond, StatusCode, api
<1>13. ASSUME NEW g \in Requests, LogoutRevoked(g) PROVE LinkOf(h)'
  BY <1>13
  DEF LogoutRevoked, Resume, Respond, api
<1>14. ASSUME NEW g \in Requests, CallDied(g) \/ CallAbandoned(g) PROVE LinkOf(h)'
  BY <1>14
  DEF CallDied, CallAbandoned, FetchRejects, Respond, Fault, api
<1>15. ASSUME NEW g \in Requests, Deliver(g) PROVE LinkOf(h)'
  BY <1>15
  DEF Deliver, Enter, api
<1>16. ASSUME NEW g \in Requests, LoseResponse(g) PROVE LinkOf(h)'
  BY <1>16
  DEF LoseResponse, Enter, Fault, api
<1>17. ASSUME GatewayRestarts PROVE LinkOf(h)'
  BY <1>17
  DEF GatewayRestarts, Fault, api, InGateway, api
<1>18. ASSUME NEW j \in Jtis, Expire(j) PROVE LinkOf(h)'
  BY <1>18
  DEF Expire, api
<1>19. ASSUME ApiRuns PROVE LinkOf(h)'
  BY <1>19, <1>1c, ApiProgress
  DEF CallProgress, gateway, Api!Steps
<1>20. ASSUME UNCHANGED vars PROVE LinkOf(h)'
  BY <1>20
  DEF vars, api
<1> QED
  BY <1>1, <1>2, <1>3, <1>4, <1>5, <1>6, <1>7, <1>8, <1>9, <1>10, <1>11, <1>12, <1>13,
     <1>14, <1>15, <1>16, <1>17, <1>18, <1>19, <1>20
  DEF Next, Send, Continue, ApiRuns

\* Rows stay, so what a call named when it was sent is there when it runs.
LEMMA NamedStep ==
    ASSUME Base, [Next]_vars
    PROVE  NamedOK'
<1>1a. NamedOK /\ (jar # None => Api!Recorded(jar))
  BY DEF Base, CookieIsRecorded
<1>1b. /\ stage \in [Requests -> Stages]
       /\ cookie \in [Requests -> Jtis \cup {None}]
       /\ pc \in [Calls -> Api!Steps \cup {"idle", "done", "lost"}]
       /\ call \in [Calls -> Api!Calls]
       /\ familyOf \in [Jtis -> Families \cup {None}]
  BY DEF Base, TypeOK, Api!TypeOK
<1>1c. \A c \in Calls : answer[c] # None <=> pc[c] = "done"
  BY ApiFacts DEF Base
<1>1d. \A j : Api!Recorded(j) => Api!Recorded(j)' /\ familyOf'[j] = familyOf[j]
  BY ApiKeeps
<1>1e. \A c \in Calls :
          /\ pc[c] = "insert" => call[c].jti \in Jtis
          /\ pc[c] \in {"insert", "revokeFamily"} => call[c].familyId \in Families
  BY DEF Base, TypeOK, Api!TypeOK, Api!Steps
<1> USE <1>1a, <1>1b, <1>1c, <1>1d, CallIds, NoneAssumption
    DEF NamedOK, NamedCall, Api!Recorded, Api!Answers
<1>1. ASSUME NEW g \in Requests, LoginMalformed(g) PROVE NamedOK'
  BY <1>1
  DEF LoginMalformed, Receive, Respond, api
<1>2. ASSUME NEW g \in Requests, LoginReceive(g) PROVE NamedOK'
  BY <1>2
  DEF LoginReceive, Receive, Enter, api
<1>3. ASSUME NEW g \in Requests, GuardRefused(g) PROVE NamedOK'
  BY <1>3
  DEF GuardRefused, Receive, Respond, api
<1>4. ASSUME NEW g \in Requests, GuardPassed(g) PROVE NamedOK'
  BY <1>4
  DEF GuardPassed, Receive, Respond, api
<1>5. ASSUME NEW g \in Requests, GuardRotate(g) PROVE NamedOK'
  <2>1. CASE Respond(g, "401", Clear) /\ UNCHANGED api
    BY <1>5, <2>1 DEF GuardRotate, Receive, Respond, api
  <2>2. CASE Api!CallRotate(<<g, 1>>, jar)
    <3>1. /\ pc' = [pc EXCEPT ![<<g, 1>>] = "find"]
          /\ call' = [call EXCEPT ![<<g, 1>>] = [Api!NoCall EXCEPT !.jti = jar]]
          /\ pc[<<g, 1>>] = "idle" /\ UNCHANGED <<answer, familyOf>>
      BY <2>2 DEF Api!CallRotate, Api!Arrive, Api!Goto, Api!table
    <3>2. call'[<<g, 1>>].jti = jar /\ Api!Recorded(jar)
      BY <1>5, <3>1 DEF Api!NoCall, GuardRotate, Verifies
    <3>3. cookie' = [cookie EXCEPT ![g] = jar]
      BY <1>5 DEF GuardRotate, Receive
    <3> QED
      BY <3>1, <3>2, <3>3
  <2> QED
    BY <1>5, <2>1, <2>2 DEF GuardRotate
<1>6. ASSUME NEW g \in Requests, LogoutReceive(g) PROVE NamedOK'
  <2>1. CASE Respond(g, "loggedOut", Clear) /\ UNCHANGED api
    BY <1>6, <2>1 DEF LogoutReceive, Receive, Respond, api
  <2>2. CASE Api!CallRevokeByFamily(<<g, 1>>, familyOf[jar])
    <3>1. /\ pc' = [pc EXCEPT ![<<g, 1>>] = "revokeFamily"]
          /\ call' = [call EXCEPT ![<<g, 1>>] =
                        [Api!NoCall EXCEPT !.familyId = familyOf[jar]]]
          /\ pc[<<g, 1>>] = "idle" /\ UNCHANGED <<answer, familyOf>>
          /\ \E j \in Jtis : familyOf[j] = familyOf[jar]
      BY <2>2 DEF Api!CallRevokeByFamily, Api!Arrive, Api!Goto, Api!table
    <3>2. call'[<<g, 1>>].familyId = familyOf[jar]
      BY <3>1 DEF Api!NoCall
    <3>3. cookie' = [cookie EXCEPT ![g] = jar]
      BY <1>6 DEF LogoutReceive, Receive
    <3> QED
      BY <3>1, <3>2, <3>3
  <2> QED
    BY <1>6, <2>1, <2>2 DEF LogoutReceive
<1>7. ASSUME NEW g \in Requests, NEW f \in Families, NEW j \in Jtis, LoginValidated(g, f, j)
      PROVE  NamedOK'
  <2>1. /\ pc' = [pc EXCEPT ![<<g, 2>>] = "insert"]
        /\ \E b : call' = [call EXCEPT ![<<g, 2>>] = b]
        /\ pc[<<g, 2>>] = "idle" /\ UNCHANGED <<answer, familyOf>>
    BY <1>7 DEF LoginValidated, Api!CallRecordLogin, Api!Arrive, Api!Goto, Api!table
  <2>2. UNCHANGED cookie
    BY <1>7 DEF LoginValidated, Resume
  <2> QED
    BY <2>1, <2>2
<1>8. ASSUME NEW g \in Requests, LoginRejected(g) PROVE NamedOK'
  BY <1>8
  DEF LoginRejected, Resume, Respond, api
<1>9. ASSUME NEW g \in Requests, LoginRecorded(g) PROVE NamedOK'
  BY <1>9
  DEF LoginRecorded, Resume, Respond, api
<1>10. ASSUME NEW g \in Requests, NEW j \in Jtis, GuardRotated(g, j) PROVE NamedOK'
  <2>1. /\ pc' = [pc EXCEPT ![<<g, 2>>] = "insert"]
        /\ \E b : call' = [call EXCEPT ![<<g, 2>>] = b]
        /\ pc[<<g, 2>>] = "idle" /\ UNCHANGED <<answer, familyOf>>
    BY <1>10 DEF GuardRotated, Api!CallRecordRotation, Api!Arrive, Api!Goto, Api!table
  <2>2. UNCHANGED cookie
    BY <1>10 DEF GuardRotated, Resume
  <2> QED
    BY <2>1, <2>2
<1>11. ASSUME NEW g \in Requests, GuardRejected(g) PROVE NamedOK'
  BY <1>11
  DEF GuardRejected, Resume, Respond, StatusCode, api
<1>12. ASSUME NEW g \in Requests, GuardRecorded(g) PROVE NamedOK'
  BY <1>12
  DEF GuardRecorded, Resume, Respond, StatusCode, api
<1>13. ASSUME NEW g \in Requests, LogoutRevoked(g) PROVE NamedOK'
  BY <1>13
  DEF LogoutRevoked, Resume, Respond, api
<1>14. ASSUME NEW g \in Requests, CallDied(g) \/ CallAbandoned(g) PROVE NamedOK'
  BY <1>14
  DEF CallDied, CallAbandoned, FetchRejects, Respond, Fault, api
<1>15. ASSUME NEW g \in Requests, Deliver(g) PROVE NamedOK'
  BY <1>15
  DEF Deliver, Enter, api
<1>16. ASSUME NEW g \in Requests, LoseResponse(g) PROVE NamedOK'
  BY <1>16
  DEF LoseResponse, Enter, Fault, api
<1>17. ASSUME GatewayRestarts PROVE NamedOK'
  BY <1>17
  DEF GatewayRestarts, Fault, api
<1>18. ASSUME NEW j \in Jtis, Expire(j) PROVE NamedOK'
  BY <1>18
  DEF Expire, api
<1>19. ASSUME ApiRuns PROVE NamedOK'
  <2>1. cookie' = cookie /\ \A c \in Calls : CallProgress(c)
    BY <1>19, ApiProgress DEF gateway
  <2>2. ASSUME NEW c \in Calls PROVE NamedCall(c)'
    <3>1. NamedCall(c) /\ CallProgress(c)
      BY <2>1
    <3>2. pc'[c] = "find" => Api!Recorded(call[c].jti)'
      BY <3>1 DEF CallProgress
    <3>3. pc'[c] = "revokeFamily" => \E k \in Jtis : familyOf'[k] = call'[c].familyId
      BY <3>1, <1>1e DEF CallProgress
    <3>4. answer'[c] = "recorded" =>
             Api!Recorded(call[c].jti)' /\ familyOf'[call'[c].jti] = call'[c].familyId
      BY <3>1, <1>1e DEF CallProgress, RecordedNow
    <3> QED
      BY <3>2, <3>3, <3>4
  <2> QED
    BY <2>1, <2>2
<1>20. ASSUME UNCHANGED vars PROVE NamedOK'
  BY <1>20
  DEF vars, api
<1> QED
  BY <1>1, <1>2, <1>3, <1>4, <1>5, <1>6, <1>7, <1>8, <1>9, <1>10, <1>11, <1>12, <1>13,
     <1>14, <1>15, <1>16, <1>17, <1>18, <1>19, <1>20
  DEF Next, Send, Continue, ApiRuns
-----------------------------------------------------------------------------
(* What the two session properties rest on. *)

\* The session of family f is over: a logout revoked it, no rotation overlapped.
Ended(f) == f \in signedOut \ raced

\* A token of an ended session that a handler or a response may still bring to the
\* browser is revoked, and a rotation of one arrived too late to succeed.
EndedOf(g) ==
    /\ setCookie[g] \in Jtis /\ Ended(familyOf[setCookie[g]]) => setCookie[g] \in revoked
    /\ stage[g] = "rotating" /\ Ended(familyOf[cookie[g]]) => <<g, 1>> \in stale
    /\ stage[g] = "recording" => ~Ended(familyOf[cookie[g]])
    /\ stage[g] = "recordingLogin" /\ answer[<<g, 2>>] = "recorded"
          /\ Ended(call[<<g, 2>>].familyId) => call[<<g, 2>>].jti \in revoked
    /\ stage[g] = "unsent" => status[g] = "pending"
    /\ g \in doomed =>
          /\ stage[g] # "unsent" /\ cookie[g] # None
          /\ familyOf[cookie[g]] \in signedOut
          /\ familyOf[cookie[g]] \notin raced => status[g] # "refreshed"

EndedOK ==
    /\ \A f \in signedOut : Api!Members(f) # {}
    /\ jar # None /\ Ended(familyOf[jar]) => jar \in revoked
    /\ \A g \in Requests : EndedOf(g)

\* A family that is over has a row: the logout found one when it was sent.
LEMMA SignedOutStep ==
    ASSUME Base, EndedOK, [Next]_vars
    PROVE  \A f \in signedOut' : Api!Members(f)' # {}
<1>1. \A f : Api!Members(f) \subseteq Api!Members(f)'
  BY ApiKeeps DEF Api!Members, Api!Recorded
<1>2. CASE UNCHANGED signedOut
  BY <1>1, <1>2 DEF EndedOK
<1>3. ASSUME NEW c \in Calls, ApiRevokes(c) PROVE \A f \in signedOut' : Api!Members(f)' # {}
  <2>1. pc[c] = "revokeFamily" /\ signedOut' = signedOut \cup {call[c].familyId}
    BY <1>3 DEF ApiRevokes, Api!RevokeUpdate, Api!RevokeStep
  <2>2. call[c].familyId \in Families /\ NamedCall(c)
    BY <2>1 DEF Base, TypeOK, NamedOK, Api!TypeOK, Api!Steps
  <2>3. Api!Members(call[c].familyId) # {}
    BY <2>1, <2>2, NoneAssumption DEF NamedCall, Api!Members, Api!Recorded
  <2> QED
    BY <1>1, <2>1, <2>3 DEF EndedOK
<1> QED
  BY <1>2, <1>3 DEF Next, Send, Continue, LoginMalformed, LoginReceive, GuardRefused,
     GuardPassed, GuardRotate, LogoutReceive, Receive, LoginValidated, LoginRejected,
     LoginRecorded, GuardRotated, GuardRejected, GuardRecorded, LogoutRevoked, Resume, past,
     CallDied, CallAbandoned, FetchRejects, Deliver, LoseResponse, GatewayRestarts, ApiStep,
     ApiFails, UserDeleted, Expire, vars

\* No handler brings a live token of an ended session to the browser.
LEMMA EndedStep ==
    ASSUME Base, EndedOK, [Next]_vars
    PROVE  \A g \in Requests : EndedOf(g)'
<1> SUFFICES ASSUME NEW h \in Requests PROVE EndedOf(h)'
  BY DEF EndedOK
<1>1a. /\ EndedOf(h) /\ LinkOf(h) /\ \A g \in Requests : EndedOf(g) /\ LinkOf(g)
       /\ jar # None /\ Ended(familyOf[jar]) => jar \in revoked
  BY DEF Base, EndedOK, LinkOK
<1>1b. /\ stage \in [Requests -> Stages]
       /\ cookie \in [Requests -> Jtis \cup {None}]
       /\ setCookie \in [Requests -> Jtis \cup {Keep, Clear}]
       /\ status \in [Requests -> Statuses]
       /\ jar \in Jtis \cup {None}
       /\ doomed \subseteq Requests
  BY DEF Base, TypeOK
<1>1c. /\ stale \subseteq Calls
       /\ pc \in [Calls -> Api!Steps \cup {"idle", "done", "lost"}]
       /\ call \in [Calls -> Api!Calls]
  BY DEF Base, TypeOK, Api!TypeOK
<1>1d. /\ \A c \in Calls : pc[c] = "idle" => answer[c] # "recorded"
       /\ \A c \in stale : answer[c] # "rotated"
  BY NoneAssumption, ApiFacts DEF Base, Api!Answers
<1>1e. \A c \in Calls : pc[c] = "insert" /\ call[c].parentJti = None =>
          call[c].familyId \notin signedOut
  BY ApiFacts DEF Base, EndedOK
<1> USE <1>1a, <1>1b, CallIds, NoneAssumption, MarkersAssumption DEF EndedOf, Ended, past
<1>1. ASSUME NEW g \in Requests, LoginMalformed(g)
      PROVE  EndedOf(h)'
  BY <1>1
  DEF LoginMalformed, Receive, Respond, api
<1>2. ASSUME NEW g \in Requests, LoginReceive(g) PROVE EndedOf(h)'
  BY <1>2
  DEF LoginReceive, Receive, Enter, api
<1>3. ASSUME NEW g \in Requests, GuardRefused(g) PROVE EndedOf(h)'
  BY <1>3
  DEF GuardRefused, Receive, Respond, api
<1>4. ASSUME NEW g \in Requests, GuardPassed(g) PROVE EndedOf(h)'
  BY <1>4
  DEF GuardPassed, Receive, Respond, api
<1>5. ASSUME NEW g \in Requests, GuardRotate(g) PROVE EndedOf(h)'
  <2>1. CASE Respond(g, "401", Clear) /\ UNCHANGED api
    BY <1>5, <2>1 DEF GuardRotate, Receive, Respond, api, Verifies
  <2>2. CASE Api!CallRotate(<<g, 1>>, jar)
    <3>1. /\ UNCHANGED <<answer, familyOf, revoked>>
          /\ \A i \in Requests : call'[<<i, 2>>] = call[<<i, 2>>]
          /\ stale' = IF jar \in used \cup revoked THEN stale \cup {<<g, 1>>} ELSE stale
      BY <1>1c, <2>2 DEF Api!CallRotate, Api!Arrive, Api!Goto, Api!table
    <3> QED
      BY <1>5, <3>1 DEF GuardRotate, Receive, Respond, Enter, Verifies
  <2> QED
    BY <1>5, <2>1, <2>2 DEF GuardRotate
<1>6. ASSUME NEW g \in Requests, LogoutReceive(g)
      PROVE  EndedOf(h)'
  <2>1. CASE Respond(g, "loggedOut", Clear) /\ UNCHANGED api
    BY <1>6, <2>1 DEF LogoutReceive, Receive, Respond, api
  <2>2. CASE Api!CallRevokeByFamily(<<g, 1>>, familyOf[jar])
    <3>1. /\ UNCHANGED <<answer, familyOf, revoked, stale>>
          /\ \A i \in Requests : call'[<<i, 2>>] = call[<<i, 2>>]
      BY <1>1c, <2>2
      DEF Api!CallRevokeByFamily, Api!Arrive, Api!Goto, Api!table, Api!history
    <3> QED
      BY <1>6, <3>1 DEF LogoutReceive, Receive, Respond, Enter
  <2> QED
    BY <1>6, <2>1, <2>2 DEF LogoutReceive
<1>7. ASSUME NEW g \in Requests, NEW f \in Families, NEW j \in Jtis, LoginValidated(g, f, j)
      PROVE  EndedOf(h)'
  <2>1. /\ UNCHANGED <<answer, familyOf, revoked, stale>>
        /\ \A i \in Requests \ {g} : call'[<<i, 2>>] = call[<<i, 2>>]
    BY <1>1c, <1>7
    DEF LoginValidated, Api!CallRecordLogin, Api!Arrive, Api!Goto, Api!table,
       Api!history
  <2>2. answer[<<g, 2>>] # "recorded"
    BY <1>1d, <1>7 DEF LoginValidated, Resume, LinkOf
  <2> QED
    BY <1>7, <2>1, <2>2 DEF LoginValidated, Resume, Enter
<1>8. ASSUME NEW g \in Requests, LoginRejected(g)
      PROVE  EndedOf(h)'
  BY <1>8
  DEF LoginRejected, Resume, Respond, api
<1>9. ASSUME NEW g \in Requests, LoginRecorded(g)
      PROVE  EndedOf(h)'
  <2>1. answer[<<g, 2>>] = "recorded" =>
           /\ call[<<g, 2>>].jti \in Jtis
           /\ familyOf[call[<<g, 2>>].jti] = call[<<g, 2>>].familyId
    BY DEF Base, NamedOK, NamedCall, Api!Recorded
  <2> QED
    BY <1>9, <2>1 DEF LoginRecorded, Resume, Respond, api, LinkOf
<1>10. ASSUME NEW g \in Requests, NEW j \in Jtis, GuardRotated(g, j)
      PROVE  EndedOf(h)'
  <2>1. /\ UNCHANGED <<answer, familyOf, revoked, stale>>
        /\ \A i \in Requests \ {g} : call'[<<i, 2>>] = call[<<i, 2>>]
    BY <1>1c, <1>10
    DEF GuardRotated, Api!CallRecordRotation, Api!Arrive, Api!Goto, Api!table,
       Api!history
  <2>2. <<g, 1>> \notin stale
    BY <1>1d, <1>10 DEF GuardRotated
  <2> QED
    BY <1>10, <2>1, <2>2 DEF GuardRotated, Resume, Enter
<1>11. ASSUME NEW g \in Requests, GuardRejected(g)
      PROVE  EndedOf(h)'
  BY <1>11
  DEF GuardRejected, Resume, Respond, StatusCode, api
<1>12. ASSUME NEW g \in Requests, GuardRecorded(g)
      PROVE  EndedOf(h)'
  <2>1. answer[<<g, 2>>] = "recorded" =>
           /\ call[<<g, 2>>].jti \in Jtis
           /\ familyOf[call[<<g, 2>>].jti] = call[<<g, 2>>].familyId
    BY DEF Base, NamedOK, NamedCall, Api!Recorded
  <2> QED
    BY <1>12, <2>1 DEF GuardRecorded, Resume, Respond, api, LinkOf, StatusCode
<1>13. ASSUME NEW g \in Requests, LogoutRevoked(g)
      PROVE  EndedOf(h)'
  BY <1>13
  DEF LogoutRevoked, Resume, Respond, api
<1>14. ASSUME NEW g \in Requests, CallDied(g) \/ CallAbandoned(g)
      PROVE  EndedOf(h)'
  BY <1>14
  DEF CallDied, CallAbandoned, FetchRejects, Respond, Fault, api
<1>15. ASSUME NEW g \in Requests, Deliver(g) PROVE EndedOf(h)'
  BY <1>15
  DEF Deliver, Enter, api
<1>16. ASSUME NEW g \in Requests, LoseResponse(g)
      PROVE  EndedOf(h)'
  BY <1>16
  DEF LoseResponse, Enter, Fault, api
<1>17. ASSUME GatewayRestarts PROVE EndedOf(h)'
  BY <1>17
  DEF GatewayRestarts, Fault, api
<1>18. ASSUME NEW j \in Jtis, Expire(j) PROVE EndedOf(h)'
  BY <1>18
  DEF Expire, api
<1>19. ASSUME ApiRuns PROVE EndedOf(h)'
  <2>1. /\ UNCHANGED <<gateway, doomed, stale>>
        /\ UNCHANGED <<signedOut, raced>> \/ \E c \in Calls : ApiRevokes(c)
        /\ CallProgress(<<h, 2>>)
    BY <1>19, ApiProgress
  <2>2. /\ revoked \subseteq revoked'
        /\ setCookie[h] \in Jtis => familyOf'[setCookie[h]] = familyOf[setCookie[h]]
        /\ cookie[h] # None => familyOf'[cookie[h]] = familyOf[cookie[h]]
    BY ApiKeeps DEF Base, CookieIsRecorded, NamedOK
  <2>3. CASE UNCHANGED <<signedOut, raced>>
    <3>1. ASSUME RecordedNow(<<h, 2>>), stage[h] = "recordingLogin"
          PROVE  ~Ended(call[<<h, 2>>].familyId)
      BY <1>1e, <3>1 DEF RecordedNow, LinkOf, EndedOK
    <3> QED
      BY <2>1, <2>2, <2>3, <3>1 DEF gateway, CallProgress, RecordedNow, LinkOf
  <2>4. ASSUME NEW c \in Calls, ApiRevokes(c) PROVE EndedOf(h)'
    <3> DEFINE f == call[c].familyId
    <3>1. /\ revoked' = revoked \cup Api!Members(f)
          /\ signedOut' = signedOut \cup {f}
          /\ raced' = IF Rotating(f) THEN raced \cup {f} ELSE raced
          /\ UNCHANGED call
      BY <2>4 DEF ApiRevokes, Api!RevokeUpdate, Api!RevokeStep, Api!RevokeFamily
    <3>2. answer'[<<h, 2>>] = "recorded" => answer[<<h, 2>>] = "recorded"
      BY <1>1c, <2>4 DEF ApiRevokes, Api!RevokeUpdate, Api!RevokeStep, Api!Reply, LinkOf
    <3>3. answer[<<h, 2>>] = "recorded" =>
             Api!Recorded(call[<<h, 2>>].jti)
               /\ familyOf[call[<<h, 2>>].jti] = call[<<h, 2>>].familyId
      BY DEF Base, NamedOK, NamedCall
    <3>4. setCookie[h] \in Jtis => Api!Recorded(setCookie[h])
      BY DEF Base, CookieIsRecorded
    <3>5. stage[h] \in {"rotating", "recording"} => Rotating(familyOf[cookie[h]])
      BY DEF Rotating
    <3>6. \A k : Api!Recorded(k) /\ familyOf[k] = f => k \in revoked'
      BY <3>1 DEF Api!Members, Api!Recorded
    <3>7. \A e : Ended(e)' => Ended(e) \/ (e = f /\ ~Rotating(f))
      BY <3>1
    <3> HIDE DEF f
    <3>8. UNCHANGED <<jar, stage, cookie, status, setCookie>>
      BY <2>1 DEF gateway
    <3>9. (setCookie[h] \in Jtis /\ Ended(familyOf[setCookie[h]])
              => setCookie[h] \in revoked)'
      BY <2>2, <3>4, <3>6, <3>7, <3>8
    <3>10. (/\ stage[h] = "rotating" /\ Ended(familyOf[cookie[h]]) => <<h, 1>> \in stale
            /\ stage[h] = "recording" => ~Ended(familyOf[cookie[h]]))'
      BY <2>1, <2>2, <3>5, <3>7, <3>8 DEF LinkOf
    <3>11. (stage[h] = "recordingLogin" /\ answer[<<h, 2>>] = "recorded"
              /\ Ended(call[<<h, 2>>].familyId) => call[<<h, 2>>].jti \in revoked)'
      BY <2>2, <3>1, <3>2, <3>3, <3>6, <3>7, <3>8
    <3>12. (/\ stage[h] = "unsent" => status[h] = "pending"
            /\ h \in doomed =>
                 /\ stage[h] # "unsent" /\ cookie[h] # None
                 /\ familyOf[cookie[h]] \in signedOut
                 /\ familyOf[cookie[h]] \notin raced => status[h] # "refreshed")'
      BY <2>1, <2>2, <3>1, <3>8
    <3> QED
      BY <3>9, <3>10, <3>11, <3>12 DEF EndedOf
  <2> QED
    BY <2>1, <2>3, <2>4
<1>20. ASSUME UNCHANGED vars PROVE EndedOf(h)'
  BY <1>20
  DEF vars, api
<1> QED
  BY <1>1, <1>2, <1>3, <1>4, <1>5, <1>6, <1>7, <1>8, <1>9, <1>10, <1>11, <1>12, <1>13,
     <1>14, <1>15, <1>16, <1>17, <1>18, <1>19, <1>20
  DEF Next, Send, Continue, ApiRuns

\* The jar is filled from the cookie of a response.
LEMMA JarStep ==
    ASSUME Base, EndedOK, [Next]_vars
    PROVE  (jar # None /\ Ended(familyOf[jar]) => jar \in revoked)'
<1>1. /\ jar # None => Api!Recorded(jar)
      /\ \A g \in Requests : setCookie[g] \in Jtis => Api!Recorded(setCookie[g])
      /\ \A j : Api!Recorded(j) => familyOf'[j] = familyOf[j]
      /\ revoked \subseteq revoked'
  BY ApiKeeps DEF Base, CookieIsRecorded
<1>2. /\ jar # None /\ Ended(familyOf[jar]) => jar \in revoked
      /\ \A g \in Requests : setCookie[g] \in Jtis /\ Ended(familyOf[setCookie[g]]) =>
            setCookie[g] \in revoked
  BY DEF EndedOK, EndedOf
<1>3. CASE UNCHANGED <<signedOut, raced>> /\ jar' \in {jar, None}
  BY <1>1, <1>2, <1>3 DEF Ended
<1>4. ASSUME NEW g \in Requests, Deliver(g)
      PROVE  (jar # None /\ Ended(familyOf[jar]) => jar \in revoked)'
  <2>1. /\ jar' \in {jar, None} \/ (jar' = setCookie[g] /\ setCookie[g] \in Jtis)
        /\ UNCHANGED <<signedOut, raced>>
    BY <1>4 DEF Deliver, past, Base, TypeOK
  <2> QED
    BY <1>1, <1>2, <2>1 DEF Ended
<1>5. ASSUME NEW c \in Calls, ApiRevokes(c)
      PROVE  (jar # None /\ Ended(familyOf[jar]) => jar \in revoked)'
  <2>1. /\ revoked' = revoked \cup Api!Members(call[c].familyId)
        /\ signedOut' = signedOut \cup {call[c].familyId} /\ raced \subseteq raced'
        /\ UNCHANGED jar
    BY <1>5 DEF ApiRevokes, Api!RevokeUpdate, Api!RevokeStep, Api!RevokeFamily, gateway
  <2>2. Api!Recorded(jar) /\ familyOf[jar] = call[c].familyId => jar \in revoked'
    BY <2>1 DEF Api!Members, Api!Recorded
  <2> QED
    BY <1>1, <1>2, <2>1, <2>2 DEF Ended
<1> QED
  BY <1>3, <1>4, <1>5
  DEF Next, Send, Continue, LoginMalformed, LoginReceive, GuardRefused,
     GuardPassed, GuardRotate, LogoutReceive, Receive, LoginValidated, LoginRejected,
     LoginRecorded, GuardRotated, GuardRejected, GuardRecorded, LogoutRevoked, Resume, past,
     CallDied, CallAbandoned, FetchRejects, LoseResponse, GatewayRestarts, ApiStep, gateway,
     ApiFails, UserDeleted, Expire, vars

-----------------------------------------------------------------------------
(* One request at a time. *)

\* The family a running call reads or writes.
FamilyAt(c) == IF pc[c] = "find" THEN familyOf[call[c].jti] ELSE call[c].familyId
Touches(c, f) == pc[c] \in Api!Steps /\ f = FamilyAt(c)

\* An unspent token whose family no call is at work on.
Spent == used \cup revoked
Quiet(j) == j \notin Spent /\ \A c \in Calls : ~Touches(c, familyOf[j])

\* The cookie in the jar is about to be replaced, cleared or given up.
Spends(g) ==
    \/ stage[g] \in {"rotating", "recording", "revoking"}
    \/ stage[g] = "responded" /\ setCookie[g] # Keep

\* While the browser sends one request at a time: a call has its family to itself,
\* it never finds its token spent, and the token in the jar is at rest.
CallAlone(c) ==
    /\ pc[c] \in Api!Steps => \A d \in Calls : Touches(d, FamilyAt(c)) => d = c
    /\ pc[c] # "revokeReused"
    /\ pc[c] \in {"find", "save"} => call[c].jti \notin Spent
    /\ answer[c] \notin {"not-found", "family-revoked", "reused-revoked"}

RequestAlone(g) ==
    /\ \A h \in Requests : Open(g) /\ Open(h) => g = h
    /\ stage[g] = "responded" /\ setCookie[g] \in Jtis => Quiet(setCookie[g])
    /\ stage[g] \in {"recording", "recordingLogin"} =>
          /\ answer[<<g, 2>>] = "recorded" => call[<<g, 2>>].jti \notin Spent
          /\ \A c \in Calls : Touches(c, call[<<g, 2>>].familyId) => c = <<g, 2>>
    /\ stage[g] = "rotating" =>
          \A c \in Calls : Touches(c, familyOf[cookie[g]]) => c = <<g, 1>>

JarAlone == jar # None /\ (\A g \in Requests : ~Spends(g)) => Quiet(jar)

AloneOK ==
    /\ \A c \in Calls : CallAlone(c)
    /\ \A g \in Requests : RequestAlone(g)
    /\ JarAlone

SequentialOK == ~disturbed => AloneOK

\* A step of the api leaves no call in a family it was not in, spends only rows of
\* the family of the call that ran, and finds a token spent only if it was.
TouchesLess == \A c \in Calls : \A f : Touches(c, f)' => Touches(c, f)
SpendsOwn ==
    \A j : j \in Spent' \ Spent =>
        /\ Api!Recorded(j)
        /\ \E c \in Calls : Touches(c, familyOf[j]) /\ pc[c] # "insert"
              /\ pc'[c] \notin {"find", "save"}
FindsAlive(c) ==
    /\ pc'[c] = "save" => pc[c] \in {"find", "save"}
    /\ pc'[c] = "revokeReused" =>
          \/ pc[c] = "revokeReused"
          \/ pc[c] = "find" /\ call[c].jti \in Spent
    /\ answer'[c] \in {"not-found", "family-revoked", "reused-revoked"} =>
          \/ answer'[c] = answer[c]
          \/ pc[c] = "revokeReused"
          \/ pc[c] = "find" /\ call[c].jti \in Spent
    /\ answer'[c] = "recorded" => answer[c] = "recorded" \/ call[c].jti \notin Spent'

\* save and the three UPDATEs write rows of the family their handler holds.
LEMMA ApiSpends ==
    ASSUME Base, ApiRuns
    PROVE  SpendsOwn
<1>1. /\ Api!TypeOK
      /\ \A c \in Calls : pc[c] = "find" => Api!Recorded(call[c].jti)
  BY DEF Base, TypeOK, NamedOK, NamedCall
<1>2. /\ \A c \in Calls : answer[c] # None <=> pc[c] = "done"
      /\ Spent \subseteq {j \in Jtis : Api!Recorded(j)}
  BY ApiFacts DEF Base, Spent
<1>3. \A c \in Calls : pc[c] \in {"save", "revokeReused", "getUser", "revokeInactive"} =>
         Api!Recorded(call[c].jti) /\ call[c].familyId = familyOf[call[c].jti]
  BY SameSets DEF Base, ApiProofs!IInv, ApiProofs!Base, ApiProofs!FoundOK, ApiProofs!AtRow
<1>4. \A j : Api!Recorded(j) => Api!Recorded(j)' /\ familyOf'[j] = familyOf[j]
  BY ApiKeeps DEF ApiRuns, Next
<1> USE <1>1, <1>2, <1>3, <1>4, NoneAssumption
   
        DEF SpendsOwn, Touches, FamilyAt, Spent, Api!TypeOK, Api!Steps, Api!Reply,
        Api!Goto, Api!Running, Api!Recorded, Api!table
<1>5. ASSUME NEW c \in Calls, Api!RecordInsert(c) PROVE SpendsOwn
  BY <1>5 DEF Api!RecordInsert, Api!Answers
<1>6. ASSUME NEW c \in Calls, Api!RotateFind(c) PROVE SpendsOwn
  BY <1>6 DEF Api!RotateFind, Api!Calls
<1>7. ASSUME NEW c \in Calls, Api!RotateSave(c) PROVE SpendsOwn
  BY <1>7 DEF Api!RotateSave
<1>8. ASSUME NEW c \in Calls, Api!RotateGetUser(c) PROVE SpendsOwn
  BY <1>8 DEF Api!RotateGetUser
<1>9. ASSUME NEW c \in Calls, Api!RotateRevokeReused(c) PROVE SpendsOwn
  BY <1>9 DEF Api!RotateRevokeReused, Api!RevokeStep, Api!RevokeFamily, Api!Members
<1>10. ASSUME NEW c \in Calls, Api!RotateRevokeInactive(c) PROVE SpendsOwn
  BY <1>10 DEF Api!RotateRevokeInactive, Api!RevokeStep, Api!RevokeFamily, Api!Members
<1>11. ASSUME NEW c \in Calls, Api!RevokeUpdate(c) PROVE SpendsOwn
  BY <1>11 DEF Api!RevokeUpdate, Api!RevokeStep, Api!RevokeFamily, Api!Members
<1>12. ASSUME NEW c \in Calls, Api!DbError(c) PROVE SpendsOwn
  BY <1>12 DEF Api!DbError
<1>13. ASSUME Api!Crash PROVE SpendsOwn
  BY <1>13 DEF Api!Crash
<1>14. ASSUME NEW u \in Users, Api!DeleteUser(u) PROVE SpendsOwn
  BY <1>14 DEF Api!DeleteUser
<1> QED
  BY <1>5, <1>6, <1>7, <1>8, <1>9, <1>10, <1>11, <1>12, <1>13, <1>14
  DEF ApiRuns, ApiStep, ApiRevokes, ApiFails, UserDeleted

\* findOne gives a handler the family it was called about, and every end leaves it.
LEMMA ApiTouches ==
    ASSUME Base, ApiRuns
    PROVE  TouchesLess /\ \A c \in Calls : FindsAlive(c)
<1>1. /\ Api!TypeOK
      /\ \A c \in Calls : pc[c] = "find" => Api!Recorded(call[c].jti)
  BY DEF Base, TypeOK, NamedOK, NamedCall
<1>2. /\ \A c \in Calls : answer[c] # None <=> pc[c] = "done"
      /\ Spent \subseteq {j \in Jtis : Api!Recorded(j)}
  BY ApiFacts DEF Base, Spent
<1>3. \A c \in Calls : pc[c] \in {"save", "revokeReused", "getUser", "revokeInactive"} =>
         Api!Recorded(call[c].jti) /\ call[c].familyId = familyOf[call[c].jti]
  BY SameSets DEF Base, ApiProofs!IInv, ApiProofs!Base, ApiProofs!FoundOK, ApiProofs!AtRow
<1>4. \A j : Api!Recorded(j) => Api!Recorded(j)' /\ familyOf'[j] = familyOf[j]
  BY ApiKeeps DEF ApiRuns, Next
<1> SUFFICES ASSUME NEW d \in Calls, NEW f
             PROVE  (Touches(d, f)' => Touches(d, f)) /\ FindsAlive(d)
  BY DEF TouchesLess
<1> USE <1>1, <1>2, <1>3, <1>4, NoneAssumption
   
        DEF FindsAlive, Touches, FamilyAt, Spent, Api!TypeOK, Api!Steps, Api!Reply,
        Api!Goto, Api!Running, Api!Recorded, Api!table
<1>5. ASSUME NEW c \in Calls, Api!RecordInsert(c)
      PROVE  (Touches(d, f)' => Touches(d, f)) /\ FindsAlive(d)
  BY <1>5 DEF Api!RecordInsert, Api!Answers
<1>6. ASSUME NEW c \in Calls, Api!RotateFind(c)
      PROVE  (Touches(d, f)' => Touches(d, f)) /\ FindsAlive(d)
  BY <1>6 DEF Api!RotateFind, Api!Calls
<1>7. ASSUME NEW c \in Calls, Api!RotateSave(c)
      PROVE  (Touches(d, f)' => Touches(d, f)) /\ FindsAlive(d)
  BY <1>7 DEF Api!RotateSave
<1>8. ASSUME NEW c \in Calls, Api!RotateGetUser(c)
      PROVE  (Touches(d, f)' => Touches(d, f)) /\ FindsAlive(d)
  BY <1>8 DEF Api!RotateGetUser
<1>9. ASSUME NEW c \in Calls, Api!RotateRevokeReused(c)
      PROVE  (Touches(d, f)' => Touches(d, f)) /\ FindsAlive(d)
  BY <1>9 DEF Api!RotateRevokeReused, Api!RevokeStep, Api!RevokeFamily, Api!Members
<1>10. ASSUME NEW c \in Calls, Api!RotateRevokeInactive(c)
      PROVE  (Touches(d, f)' => Touches(d, f)) /\ FindsAlive(d)
  BY <1>10 DEF Api!RotateRevokeInactive, Api!RevokeStep, Api!RevokeFamily, Api!Members
<1>11. ASSUME NEW c \in Calls, Api!RevokeUpdate(c)
      PROVE  (Touches(d, f)' => Touches(d, f)) /\ FindsAlive(d)
  BY <1>11 DEF Api!RevokeUpdate, Api!RevokeStep, Api!RevokeFamily, Api!Members
<1>12. ASSUME NEW c \in Calls, Api!DbError(c)
      PROVE  (Touches(d, f)' => Touches(d, f)) /\ FindsAlive(d)
  BY <1>12 DEF Api!DbError
<1>13. ASSUME Api!Crash PROVE (Touches(d, f)' => Touches(d, f)) /\ FindsAlive(d)
  BY <1>13 DEF Api!Crash
<1>14. ASSUME NEW u \in Users, Api!DeleteUser(u)
      PROVE  (Touches(d, f)' => Touches(d, f)) /\ FindsAlive(d)
  BY <1>14 DEF Api!DeleteUser
<1> QED
  BY <1>5, <1>6, <1>7, <1>8, <1>9, <1>10, <1>11, <1>12, <1>13, <1>14
  DEF ApiRuns, ApiStep, ApiRevokes, ApiFails, UserDeleted

\* A step that leaves the api alone leaves its calls alone.
LEMMA SameApi ==
    ASSUME UNCHANGED api
    PROVE  /\ \A c \in Calls : CallAlone(c) <=> CallAlone(c)'
           /\ \A j : Quiet(j) => Quiet(j)'
           /\ \A c, f : Touches(c, f) <=> Touches(c, f)'
BY DEF api, CallAlone, Quiet, Touches, FamilyAt, Spent

\* A request that is received and calls nothing yet, when no other one is open.
LEMMA ReceiveAlone ==
    ASSUME Base, AloneOK, NEW g \in Requests, Receive(g), ~disturbed', UNCHANGED api,
           \/ stage' = [stage EXCEPT ![g] = "validating"]
           \/ stage' = [stage EXCEPT ![g] = "responded"],
           stage'[g] = "responded" => setCookie'[g] \notin Jtis,
           \A h \in Requests \ {g} : setCookie'[h] = setCookie[h]
    PROVE  AloneOK'
<1>1. stage \in [Requests -> Stages]
  BY DEF Base, TypeOK
<1>2. \A h \in Requests : ~Open(h)
  BY DEF Receive, Open
<1>3. \A c \in Calls : CallAlone(c)'
  BY SameApi DEF AloneOK
<1>4. ASSUME NEW h \in Requests PROVE RequestAlone(h)'
  BY <1>1, <1>2 DEF RequestAlone, Open
<1>5. JarAlone'
  BY <1>1, <1>2, SameApi DEF AloneOK, JarAlone, Receive, Spends, Open
<1> QED
  BY <1>3, <1>4, <1>5 DEF AloneOK

\* A handler that responds: it sets a cookie that is at rest, or clears it, or
\* leaves the one in the jar, which it has not spent.
LEMMA RespondAlone ==
    ASSUME Base, AloneOK, NEW g \in Requests, stage[g] \in InGateway,
           UNCHANGED <<api, jar>>, NEW s, NEW k \in Jtis \cup {Keep, Clear},
           Respond(g, s, k),
           k \in Jtis => Quiet(k), k = Keep => ~Spends(g)
    PROVE  AloneOK'
<1>1. /\ stage \in [Requests -> Stages]
      /\ setCookie \in [Requests -> Jtis \cup {Keep, Clear}]
      /\ jar \in Jtis \cup {None}
  BY DEF Base, TypeOK
<1>2. /\ \A h \in Requests : Open(h) => h = g
      /\ stage' = [stage EXCEPT ![g] = "responded"]
      /\ setCookie' = [setCookie EXCEPT ![g] = k]
  BY DEF AloneOK, RequestAlone, Open, Respond, InGateway
<1>3. \A c \in Calls : CallAlone(c)'
  BY SameApi DEF AloneOK
<1>4. ASSUME NEW h \in Requests PROVE RequestAlone(h)'
  <2>1. h # g => stage'[h] \in {"unsent", "closed"}
    BY <1>1, <1>2 DEF Open
  <2>2. Quiet(k) => Quiet(k)'
    BY SameApi
  <2> QED
    BY <1>1, <1>2, <2>1, <2>2 DEF RequestAlone, Open, Quiet, Touches, FamilyAt, Spent
<1>5. JarAlone'
  <2>1. CASE k = Keep
    BY <1>1, <1>2, <2>1, SameApi DEF AloneOK, JarAlone, Spends
  <2>2. CASE k # Keep
    BY <1>1, <1>2, <2>2 DEF JarAlone, Spends
  <2> QED
    BY <2>1, <2>2
<1> QED
  BY <1>3, <1>4, <1>5 DEF AloneOK

\* A call that is sent about a family no call is at work on has it to itself.
LEMMA SendAlone ==
    ASSUME Base, AloneOK, NEW c \in Calls, NEW b \in Api!Calls, NEW f,
           NEW step \in {"insert", "find", "revokeFamily"},
           pc' = [pc EXCEPT ![c] = step], call' = [call EXCEPT ![c] = b],
           UNCHANGED <<familyOf, used, revoked, answer>>,
           f = IF step = "find" THEN familyOf[b.jti] ELSE b.familyId,
           \A d \in Calls : ~Touches(d, f), step = "find" => b.jti \notin Spent
    PROVE  /\ \A d \in Calls : CallAlone(d)'
           /\ \A d \in Calls : \A e : Touches(d, e)' => Touches(d, e) \/ (d = c /\ e = f)
           /\ UNCHANGED Spent
<1>1. /\ pc \in [Calls -> Api!Steps \cup {"idle", "done", "lost"}]
      /\ call \in [Calls -> Api!Calls]
  BY DEF Base, TypeOK, Api!TypeOK
<1>2. \A d \in Calls \ {c} : pc'[d] = pc[d] /\ FamilyAt(d)' = FamilyAt(d)
  BY <1>1 DEF FamilyAt
<1>3. pc'[c] = step /\ FamilyAt(c)' = f
  BY <1>1 DEF FamilyAt
<1>4. \A d \in Calls : \A e : Touches(d, e)' => Touches(d, e) \/ (d = c /\ e = f)
  BY <1>2, <1>3 DEF Touches, Api!Steps
<1>5. UNCHANGED Spent
  BY DEF Spent
<1>6. ASSUME NEW d \in Calls, NEW e \in Calls, pc'[d] \in Api!Steps,
             pc'[e] \in Api!Steps, FamilyAt(e)' = FamilyAt(d)'
      PROVE  e = d
  BY <1>2, <1>3, <1>6 DEF AloneOK, CallAlone, Touches
<1>7. ASSUME NEW d \in Calls PROVE CallAlone(d)'
  <2>1. \A e \in Calls : pc'[d] \in Api!Steps /\ Touches(e, FamilyAt(d))' => e = d
    BY <1>6 DEF Touches
  <2>2. /\ pc'[d] # "revokeReused"
        /\ pc'[d] \in {"find", "save"} => call'[d].jti \notin Spent
    BY <1>1, <1>2, <1>3 DEF AloneOK, CallAlone
  <2> QED
    BY <1>5, <2>1, <2>2 DEF AloneOK, CallAlone
<1> QED
  BY <1>4, <1>5, <1>7

\* The requests that call the api: each about a family that is at rest.
LEMMA CallAloneStep ==
    ASSUME Base, AloneOK, NEW g \in Requests, ~disturbed',
           \/ GuardRotate(g) /\ ~UNCHANGED api
           \/ LogoutReceive(g) /\ ~UNCHANGED api
           \/ \E f \in Families, j \in Jtis : LoginValidated(g, f, j)
           \/ \E j \in Jtis : GuardRotated(g, j)
    PROVE  AloneOK'
<1>1. /\ stage \in [Requests -> Stages] /\ cookie \in [Requests -> Jtis \cup {None}]
      /\ jar \in Jtis \cup {None}
      /\ Api!TypeOK
  BY DEF Base, TypeOK
<1>2. /\ \A c \in Calls : answer[c] # None <=> pc[c] = "done"
      /\ \A c \in Calls : answer[c] = "rotated" => call[c].familyId = familyOf[call[c].jti]
  BY ApiFacts DEF Base
<1>3. /\ \A h \in Requests : LinkOf(h) /\ RequestAlone(h)
      /\ JarAlone /\ (jar # None => Api!Recorded(jar))
      /\ \A c \in Calls : pc[c] = "find" => Api!Recorded(call[c].jti)
  BY DEF Base, LinkOK, AloneOK, CookieIsRecorded, NamedOK, NamedCall
<1>4. <<g, 1>> \in Calls /\ <<g, 2>> \in Calls
  BY CallIds
<1>5. ASSUME Receive(g), jar # None
      PROVE  Quiet(jar) /\ \A h \in Requests : ~Open(h)
  <2>1. \A h \in Requests : ~Open(h)
    BY <1>5 DEF Receive, Open
  <2> QED
    BY <1>3, <1>5, <2>1 DEF JarAlone, Spends, Open
<1>6. CASE GuardRotate(g) /\ ~UNCHANGED api
  <2> DEFINE b == [Api!NoCall EXCEPT !.jti = jar]
  <2>1. /\ Receive(g) /\ jar \in Jtis /\ stage' = [stage EXCEPT ![g] = "rotating"]
        /\ Api!CallRotate(<<g, 1>>, jar)
    BY <1>1, <1>6 DEF GuardRotate, Enter, Verifies
  <2>2. /\ pc' = [pc EXCEPT ![<<g, 1>>] = "find"] /\ call' = [call EXCEPT ![<<g, 1>>] = b]
        /\ UNCHANGED <<familyOf, used, revoked, answer>>
    BY <2>1 DEF Api!CallRotate, Api!Arrive, Api!Goto, Api!table
  <2>3. b \in Api!Calls /\ b.jti = jar
    BY <2>1 DEF Api!NoCall, Api!Calls
  <2>4. Quiet(jar) /\ \A h \in Requests : ~Open(h)
    BY <1>5, <2>1, NoneAssumption
  <2> HIDE DEF b
  <2>5. /\ \A d \in Calls : CallAlone(d)'
        /\ \A d \in Calls : \A e :
              Touches(d, e)' => Touches(d, e) \/ (d = <<g, 1>> /\ e = familyOf[jar])
    BY <1>4, <2>2, <2>3, <2>4, SendAlone DEF Quiet
  <2>6. cookie' = [cookie EXCEPT ![g] = jar]
    BY <2>1 DEF Receive
  <2>7. ASSUME NEW h \in Requests PROVE RequestAlone(h)'
    <3>1. \A i \in Requests \ {g} : ~Open(i)'
      BY <1>1, <2>1, <2>4 DEF Open
    <3>2. \A c \in Calls : \A e : Touches(c, e)' /\ e = familyOf[jar] => c = <<g, 1>>
      BY <2>4, <2>5 DEF Quiet
    <3>3. stage'[g] = "rotating" /\ cookie'[g] = jar
      BY <1>1, <2>1, <2>6
    <3> QED
      BY <2>2, <3>1, <3>2, <3>3 DEF RequestAlone, Open, Touches, FamilyAt, Api!Steps
  <2> QED
    BY <1>1, <2>1, <2>5, <2>7 DEF AloneOK, JarAlone, Spends
<1>7. CASE LogoutReceive(g) /\ ~UNCHANGED api
  <2> DEFINE b == [Api!NoCall EXCEPT !.familyId = familyOf[jar]]
  <2>1. /\ Receive(g) /\ jar \in Jtis /\ stage' = [stage EXCEPT ![g] = "revoking"]
        /\ Api!CallRevokeByFamily(<<g, 1>>, familyOf[jar])
    BY <1>1, <1>7 DEF LogoutReceive, Enter, Verifies
  <2>2. /\ pc' = [pc EXCEPT ![<<g, 1>>] = "revokeFamily"]
        /\ call' = [call EXCEPT ![<<g, 1>>] = b]
        /\ UNCHANGED <<familyOf, used, revoked, answer>>
    BY <2>1 DEF Api!CallRevokeByFamily, Api!Arrive, Api!Goto, Api!table
  <2>3. b \in Api!Calls /\ b.familyId = familyOf[jar]
    BY <1>1, <2>1 DEF Api!NoCall, Api!Calls, Api!TypeOK
  <2>4. Quiet(jar) /\ \A h \in Requests : ~Open(h)
    BY <1>5, <2>1, NoneAssumption
  <2> HIDE DEF b
  <2>5. \A d \in Calls : CallAlone(d)'
    BY <1>4, <2>2, <2>3, <2>4, SendAlone DEF Quiet
  <2>6. ASSUME NEW h \in Requests PROVE RequestAlone(h)'
    BY <1>1, <2>1, <2>4 DEF RequestAlone, Open
  <2> QED
    BY <1>1, <2>1, <2>5, <2>6 DEF AloneOK, JarAlone, Spends
<1>8. ASSUME NEW f \in Families, NEW j \in Jtis, LoginValidated(g, f, j)
      PROVE  AloneOK'
  <2> DEFINE b == [Api!NoCall EXCEPT !.jti = j, !.familyId = f, !.userId = account[g]]
  <2>1. /\ stage[g] = "validating" /\ account[g] \in Users
        /\ UNCHANGED <<jar, cookie, setCookie>>
        /\ stage' = [stage EXCEPT ![g] = "recordingLogin"]
        /\ Api!CallRecordLogin(<<g, 2>>, account[g], f, j)
    BY <1>8 DEF LoginValidated, Resume, Enter, Base, TypeOK
  <2>2. /\ pc' = [pc EXCEPT ![<<g, 2>>] = "insert"] /\ call' = [call EXCEPT ![<<g, 2>>] = b]
        /\ UNCHANGED <<familyOf, used, revoked, answer>>
        /\ Api!FreshFamily(f)
    BY <2>1 DEF Api!CallRecordLogin, Api!Arrive, Api!Goto, Api!table
  <2>3. b \in Api!Calls /\ b.familyId = f
    BY <2>1 DEF Api!NoCall, Api!Calls
  <2>4. /\ \A k : Api!Recorded(k) => familyOf[k] # f
        /\ \A d \in Calls : ~Touches(d, f)
    BY <1>3, <2>2 DEF Api!FreshFamily, Api!Members, Api!Recorded, Touches, FamilyAt
  <2> HIDE DEF b
  <2>5. /\ \A d \in Calls : CallAlone(d)'
        /\ \A d \in Calls : \A e :
              Touches(d, e)' => Touches(d, e) \/ (d = <<g, 2>> /\ e = f)
        /\ UNCHANGED Spent
    BY <1>4, <2>2, <2>3, <2>4, SendAlone
  <2>6. \A h \in Requests : Open(h) => h = g
    BY <1>3, <2>1 DEF RequestAlone, Open
  <2>7. ASSUME NEW h \in Requests PROVE RequestAlone(h)'
    <3>1. \A i \in Requests \ {g} : ~Open(i)'
      BY <1>1, <2>1, <2>6 DEF Open
    <3>2. \A c \in Calls : \A e : Touches(c, e)' /\ e = f => c = <<g, 2>>
      BY <2>4, <2>5
    <3>3. call'[<<g, 2>>].familyId = f /\ answer'[<<g, 2>>] # "recorded"
      BY <1>1, <1>2, <1>3, <1>4, <2>1, <2>2, <2>3, NoneAssumption
      DEF LinkOf, Api!TypeOK, Api!Answers
    <3>4. stage'[g] = "recordingLogin"
      BY <1>1, <2>1
    <3> QED
      BY <3>1, <3>2, <3>3, <3>4 DEF RequestAlone, Open, Touches, FamilyAt, Api!Steps
  <2>8. JarAlone'
    <3>1. \A h \in Requests : ~Spends(h)
      BY <2>1, <2>6 DEF Spends, Open
    <3>2. jar # None => Quiet(jar) /\ familyOf[jar] # f
      BY <1>3, <2>4, <3>1 DEF JarAlone
    <3>3. jar # None => \A c \in Calls : \A e : Touches(c, e)' => e # familyOf[jar]
      BY <2>5, <3>2 DEF Quiet
    <3> QED
      BY <2>1, <2>2, <2>5, <3>2, <3>3 DEF JarAlone, Quiet, Touches, FamilyAt, Api!Steps
  <2> QED
    BY <2>5, <2>7, <2>8 DEF AloneOK
<1>9. ASSUME NEW j \in Jtis, GuardRotated(g, j) PROVE AloneOK'
  <2> DEFINE b == [jti |-> j, familyId |-> call[<<g, 1>>].familyId,
                   userId |-> userOf[call[<<g, 1>>].jti],
                   parentJti |-> call[<<g, 1>>].jti, from |-> <<g, 1>>]
             f == familyOf[cookie[g]]
  <2>1. /\ stage[g] = "rotating" /\ answer[<<g, 1>>] = "rotated"
        /\ UNCHANGED <<jar, cookie, setCookie>>
        /\ stage' = [stage EXCEPT ![g] = "recording"]
        /\ Api!CallRecordRotation(<<g, 2>>, <<g, 1>>, j)
    BY <1>9 DEF GuardRotated, Resume, Enter
  <2>2. /\ pc' = [pc EXCEPT ![<<g, 2>>] = "insert"] /\ call' = [call EXCEPT ![<<g, 2>>] = b]
        /\ UNCHANGED <<familyOf, used, revoked, answer>>
    BY <2>1 DEF Api!CallRecordRotation, Api!Arrive, Api!Goto, Api!table
  <2>3. /\ pc[<<g, 1>>] = "done" /\ call[<<g, 1>>].jti = cookie[g]
        /\ cookie[g] \in Jtis /\ call[<<g, 1>>].familyId = f
    BY <1>2, <1>3, <1>4, <2>1, NoneAssumption DEF LinkOf, Api!Answers
  <2>4. b \in Api!Calls /\ b.familyId = f
    BY <1>1, <1>4, <2>3 DEF Api!Calls, Api!TypeOK
  <2>5. \A d \in Calls : ~Touches(d, f)
    BY <1>3, <2>1, <2>3 DEF RequestAlone, Touches, Api!Steps
  <2> HIDE DEF b, f
  <2>6. /\ \A d \in Calls : CallAlone(d)'
        /\ \A d \in Calls : \A e :
              Touches(d, e)' => Touches(d, e) \/ (d = <<g, 2>> /\ e = f)
    BY <1>4, <2>2, <2>4, <2>5, SendAlone
  <2>7. \A h \in Requests : Open(h) => h = g
    BY <1>3, <2>1 DEF RequestAlone, Open
  <2>8. ASSUME NEW h \in Requests PROVE RequestAlone(h)'
    <3>1. \A i \in Requests \ {g} : ~Open(i)'
      BY <1>1, <2>1, <2>7 DEF Open
    <3>2. \A c \in Calls : \A e : Touches(c, e)' /\ e = f => c = <<g, 2>>
      BY <2>5, <2>6
    <3>3. call'[<<g, 2>>].familyId = f /\ answer'[<<g, 2>>] # "recorded"
      BY <1>1, <1>2, <1>3, <1>4, <2>1, <2>2, <2>4, NoneAssumption
      DEF LinkOf, Api!TypeOK, Api!Answers
    <3>4. stage'[g] = "recording"
      BY <1>1, <2>1
    <3> QED
      BY <3>1, <3>2, <3>3, <3>4 DEF RequestAlone, Open, Touches, FamilyAt, Api!Steps
  <2>9. JarAlone'
    BY <1>1, <2>1 DEF JarAlone, Spends
  <2> QED
    BY <2>6, <2>8, <2>9 DEF AloneOK
<1> QED
  BY <1>6, <1>7, <1>8, <1>9

\* The api finishes what it was asked, and touches nothing else.
LEMMA ApiAlone ==
    ASSUME Base, AloneOK, ApiRuns
    PROVE  AloneOK'
<1>1. /\ UNCHANGED <<jar, stage, cookie, setCookie>>
      /\ \A c \in Calls : CallProgress(c) /\ FindsAlive(c)
      /\ TouchesLess /\ SpendsOwn
  BY ApiProgress, ApiTouches, ApiSpends DEF gateway
<1>2. \A j : Api!Recorded(j) => familyOf'[j] = familyOf[j]
  BY ApiKeeps DEF ApiRuns, Next
<1>3. \A c \in Calls : pc[c] \in {"find", "save"} =>
         Api!Recorded(call[c].jti) /\ FamilyAt(c) = familyOf[call[c].jti]
  BY SameSets DEF Base, NamedOK, NamedCall, FamilyAt, ApiProofs!IInv, ApiProofs!Base,
     ApiProofs!FoundOK, ApiProofs!AtRow
<1>4. ASSUME NEW j, Api!Recorded(j), Quiet(j)
      PROVE  j \notin Spent' /\ \A c \in Calls : \A e : Touches(c, e)' => e # familyOf[j]
  BY <1>1, <1>4 DEF Quiet, SpendsOwn, TouchesLess
<1>5. ASSUME NEW c \in Calls PROVE CallAlone(c)'
  <2>1. CallAlone(c) /\ CallProgress(c) /\ FindsAlive(c)
    BY <1>1 DEF AloneOK
  <2>2. ASSUME NEW d \in Calls, pc'[c] \in Api!Steps, pc'[d] \in Api!Steps,
               FamilyAt(d)' = FamilyAt(c)'
        PROVE  d = c
    <3>1. ASSUME NEW e, e = FamilyAt(c)' PROVE Touches(c, e)' /\ Touches(d, e)'
      BY <2>2, <3>1 DEF Touches, Api!Steps
    <3>2. ASSUME NEW e, e = FamilyAt(c)' PROVE Touches(c, e) /\ Touches(d, e)
      BY <1>1, <3>1, <3>2 DEF TouchesLess
    <3> QED
      BY <2>1, <3>2 DEF CallAlone, Touches
  <2>3. ASSUME pc'[c] \in {"find", "save"} PROVE call'[c].jti \notin Spent'
    <3>1. pc[c] \in {"find", "save"} /\ call'[c].jti = call[c].jti
      BY <2>1, <2>3 DEF CallProgress, FindsAlive
    <3>2. call[c].jti \notin Spent /\ Api!Recorded(call[c].jti)
             /\ FamilyAt(c) = familyOf[call[c].jti] /\ pc[c] \in Api!Steps
      BY <1>3, <2>1, <3>1 DEF CallAlone, Api!Steps
    <3>3. \A d \in Calls : Touches(d, FamilyAt(c)) => d = c
      BY <2>1, <3>2 DEF CallAlone
    <3> QED
      BY <1>1, <2>3, <3>1, <3>2, <3>3 DEF SpendsOwn
  <2> QED
    BY <2>1, <2>2, <2>3 DEF CallAlone, CallProgress, FindsAlive, Touches, Api!Steps
<1>6. ASSUME NEW g \in Requests PROVE RequestAlone(g)'
  <2>1. /\ RequestAlone(g) /\ LinkOf(g) /\ NamedCall(<<g, 2>>)
        /\ CallProgress(<<g, 2>>) /\ FindsAlive(<<g, 2>>)
        /\ cookie[g] # None => Api!Recorded(cookie[g])
        /\ setCookie[g] \in Jtis => Api!Recorded(setCookie[g])
    BY <1>1, CallIds DEF AloneOK, Base, LinkOK, NamedOK, CookieIsRecorded
  <2>2. \A h \in Requests : (Open(g) /\ Open(h) => g = h)'
    BY <1>1, <2>1 DEF RequestAlone, Open
  <2>3. (stage[g] = "responded" /\ setCookie[g] \in Jtis => Quiet(setCookie[g]))'
    <3>1. ASSUME stage[g] = "responded", setCookie[g] \in Jtis PROVE Quiet(setCookie[g])'
      <4>1. /\ setCookie[g] \notin Spent'
            /\ \A c \in Calls : \A e : Touches(c, e)' => e # familyOf[setCookie[g]]
        BY <1>4, <2>1, <3>1 DEF RequestAlone
      <4> QED
        BY <1>1, <1>2, <2>1, <3>1, <4>1 DEF Quiet, Touches, FamilyAt, Api!Steps
    <3> QED
      BY <1>1, <3>1
  <2>4. ASSUME stage[g] \in {"recording", "recordingLogin"}
        PROVE  /\ answer'[<<g, 2>>] = "recorded" => call'[<<g, 2>>].jti \notin Spent'
               /\ \A c \in Calls : (Touches(c, call[<<g, 2>>].familyId) => c = <<g, 2>>)'
    <3>1. /\ call'[<<g, 2>>] = call[<<g, 2>>]
          /\ \A c \in Calls : Touches(c, call[<<g, 2>>].familyId) => c = <<g, 2>>
      BY <2>1, <2>4 DEF RequestAlone, CallProgress, LinkOf
    <3>2. \A c \in Calls : (Touches(c, call[<<g, 2>>].familyId) => c = <<g, 2>>)'
      <4>1. \A c \in Calls : \A e :
               Touches(c, e)' /\ e = call[<<g, 2>>].familyId => c = <<g, 2>>
        BY <1>1, <3>1 DEF TouchesLess
      <4> QED
        BY <3>1, <4>1 DEF Touches, FamilyAt, Api!Steps
    <3>3. ASSUME answer[<<g, 2>>] = "recorded" PROVE call[<<g, 2>>].jti \notin Spent'
      <4>1. /\ call[<<g, 2>>].jti \notin Spent
            /\ familyOf[call[<<g, 2>>].jti] = call[<<g, 2>>].familyId
        BY <2>1, <2>4, <3>3 DEF RequestAlone, NamedCall
      <4>2. \A c \in Calls : Touches(c, familyOf[call[<<g, 2>>].jti]) => pc[c] = "insert"
        BY <2>1, <3>1, <4>1 DEF Touches, Api!Steps, LinkOf
      <4> QED
        BY <1>1, <4>1, <4>2 DEF SpendsOwn
    <3> QED
      BY <2>1, <3>1, <3>2, <3>3 DEF FindsAlive
  <2>5. ASSUME stage[g] = "rotating"
        PROVE  \A c \in Calls : (Touches(c, familyOf[cookie[g]]) => c = <<g, 1>>)'
    <3>1. familyOf'[cookie[g]] = familyOf[cookie[g]]
      BY <1>2, <2>1, <2>5, NoneAssumption DEF LinkOf
    <3>2. \A c \in Calls : \A e : Touches(c, e)' /\ e = familyOf[cookie[g]] => c = <<g, 1>>
      BY <1>1, <2>1, <2>5 DEF TouchesLess, RequestAlone
    <3> QED
      BY <1>1, <3>1, <3>2 DEF Touches, FamilyAt, Api!Steps
  <2> QED
    BY <1>1, <2>2, <2>3, <2>4, <2>5 DEF RequestAlone
<1>7. JarAlone'
  <2>1. jar # None => Api!Recorded(jar)
    BY DEF Base, CookieIsRecorded
  <2>2. ASSUME jar # None, \A g \in Requests : ~Spends(g) PROVE Quiet(jar)'
    <3>1. jar \notin Spent' /\ \A c \in Calls : \A e : Touches(c, e)' => e # familyOf[jar]
      BY <1>4, <2>1, <2>2 DEF AloneOK, JarAlone
    <3> QED
      BY <1>1, <1>2, <2>1, <2>2, <3>1 DEF Quiet, Touches, FamilyAt, Api!Steps
  <2> QED
    BY <1>1, <2>2 DEF JarAlone, Spends
<1> QED
  BY <1>5, <1>6, <1>7 DEF AloneOK

\* What a record call answered may be given to the browser: its token is at rest.
LEMMA RecordedAtRest ==
    ASSUME Base, AloneOK, NEW g \in Requests, stage[g] \in {"recording", "recordingLogin"},
           answer[<<g, 2>>] = "recorded"
    PROVE  call[<<g, 2>>].jti \in Jtis /\ Quiet(call[<<g, 2>>].jti)
<1>1. /\ pc[<<g, 2>>] = "done"
      /\ Api!Recorded(call[<<g, 2>>].jti)
      /\ familyOf[call[<<g, 2>>].jti] = call[<<g, 2>>].familyId
  BY ApiFacts, CallIds, NoneAssumption DEF Base, NamedOK, NamedCall, Api!Answers
<1>2. call[<<g, 2>>].jti \in Jtis
  BY <1>1 DEF Api!Recorded
<1>3. Quiet(call[<<g, 2>>].jti)
  BY <1>1 DEF AloneOK, RequestAlone, Quiet, Touches, Api!Steps
<1> QED
  BY <1>2, <1>3

\* With one request at a time every step keeps every token the browser holds, or is
\* about to, at rest; a step that overlaps requests or loses one is noted.
LEMMA SequentialStep ==
    ASSUME Base, SequentialOK, [Next]_vars
    PROVE  SequentialOK'
<1>1. disturbed => disturbed'
  BY DEF Next, Send, Continue, LoginMalformed, LoginReceive, GuardRefused,
     GuardPassed, GuardRotate, LogoutReceive, Receive, LoginValidated, LoginRejected,
     LoginRecorded, GuardRotated, GuardRejected, GuardRecorded, LogoutRevoked, Resume, past,
     CallDied, CallAbandoned, FetchRejects, Deliver, LoseResponse, GatewayRestarts, ApiStep,
     ApiRevokes, ApiFails, UserDeleted, Expire, vars
<1> SUFFICES ASSUME ~disturbed', AloneOK PROVE AloneOK'
  BY <1>1 DEF SequentialOK
<1>2. /\ stage \in [Requests -> Stages]
      /\ setCookie \in [Requests -> Jtis \cup {Keep, Clear}]
      /\ jar \in Jtis \cup {None}
      /\ Keep \notin Jtis /\ Clear \notin Jtis /\ None \notin Jtis
  BY NoneAssumption, MarkersAssumption DEF Base, TypeOK
<1>3. Keep # Clear
  BY DEF Keep, Clear
<1>4. ASSUME NEW g \in Requests, LoginMalformed(g) \/ GuardRefused(g) \/ GuardPassed(g)
      PROVE  AloneOK'
  BY <1>2, <1>4, ReceiveAlone DEF LoginMalformed, GuardRefused, GuardPassed, Respond
<1>5. ASSUME NEW g \in Requests, LoginReceive(g) PROVE AloneOK'
  BY <1>2, <1>5, ReceiveAlone DEF LoginReceive, Receive, Enter
<1>6. ASSUME NEW g \in Requests, GuardRotate(g) \/ LogoutReceive(g) PROVE AloneOK'
  <2>1. CASE UNCHANGED api
    <3>1. /\ Receive(g)
          /\ stage' = [stage EXCEPT ![g] = "responded"]
          /\ setCookie' = [setCookie EXCEPT ![g] = Clear]
      <4>1. /\ ~Api!CallRotate(<<g, 1>>, jar)
            /\ ~Api!CallRevokeByFamily(<<g, 1>>, familyOf[jar])
        BY <2>1, CallIds
        DEF api, Base, TypeOK, Api!TypeOK, Api!CallRotate, Api!CallRevokeByFamily,
           Api!Arrive, Api!Goto
      <4> QED
        BY <1>6, <4>1 DEF GuardRotate, LogoutReceive, Respond
    <3> QED
      BY <1>2, <2>1, <3>1, ReceiveAlone
  <2> QED
    BY <1>6, <2>1, CallAloneStep
<1>7. ASSUME NEW g \in Requests, (\E f \in Families, j \in Jtis : LoginValidated(g, f, j))
                                   \/ \E j \in Jtis : GuardRotated(g, j)
      PROVE  AloneOK'
  BY <1>7, CallAloneStep
<1>8. ASSUME NEW g \in Requests, LoginRejected(g) \/ LogoutRevoked(g) \/ GuardRejected(g)
      PROVE  AloneOK'
  BY <1>2, <1>3, <1>8, RespondAlone
  DEF LoginRejected, LogoutRevoked, GuardRejected, Resume,
     InGateway, Spends
<1>9. ASSUME NEW g \in Requests, LoginRecorded(g) \/ GuardRecorded(g) PROVE AloneOK'
  <2>1. stage[g] \in {"recording", "recordingLogin"} /\ UNCHANGED <<api, jar>>
    BY <1>9 DEF LoginRecorded, GuardRecorded, Resume
  <2>2. CASE answer[<<g, 2>>] = "recorded"
    BY <1>2, <1>9, <2>1, <2>2, RecordedAtRest, RespondAlone
    DEF LoginRecorded, GuardRecorded, InGateway
  <2>3. CASE answer[<<g, 2>>] # "recorded"
    BY <1>2, <1>3, <1>9, <2>1, <2>3, RespondAlone
    DEF LoginRecorded, GuardRecorded, Resume, InGateway, Spends
  <2> QED
    BY <2>2, <2>3
<1>10. ASSUME NEW g \in Requests, CallDied(g) \/ CallAbandoned(g) PROVE AloneOK'
  <2>1. FetchRejects(g)
    BY <1>10 DEF CallDied, CallAbandoned
  <2> QED
    BY <1>2, <1>3, <2>1, RespondAlone DEF FetchRejects, InGateway, Spends
<1>11. ASSUME NEW g \in Requests, Deliver(g) PROVE AloneOK'
  <2>1. /\ stage[g] = "responded" /\ stage' = [stage EXCEPT ![g] = "closed"]
        /\ UNCHANGED <<api, setCookie>>
        /\ jar' = IF setCookie[g] = Keep THEN jar
                  ELSE IF setCookie[g] = Clear THEN None ELSE setCookie[g]
    BY <1>11 DEF Deliver, Enter
  <2>2. \A h \in Requests : ~Open(h)' /\ (Open(h) => h = g)
    BY <1>2, <2>1 DEF AloneOK, RequestAlone, Open
  <2>3. JarAlone'
    <3>1. CASE setCookie[g] = Keep
      BY <1>2, <2>1, <2>2, <3>1, SameApi DEF AloneOK, JarAlone, Spends, Open
    <3>2. CASE setCookie[g] = Clear
      BY <1>3, <2>1, <3>2 DEF JarAlone
    <3>3. CASE setCookie[g] \in Jtis
      <4>1. Quiet(setCookie[g]) /\ jar' = setCookie[g]
        BY <1>2, <2>1, <3>3 DEF AloneOK, RequestAlone
      <4> QED
        BY <2>1, <4>1 DEF JarAlone, Quiet, Touches, FamilyAt, Spent, api, Api!Steps
    <3> QED
      BY <1>2, <3>1, <3>2, <3>3
  <2>4. \A h \in Requests : RequestAlone(h)'
    BY <2>2 DEF RequestAlone, Open
  <2> QED
    BY <2>1, <2>3, <2>4, SameApi DEF AloneOK
<1>12. ASSUME NEW j \in Jtis, Expire(j) PROVE AloneOK'
  <2>1. jar' \in {jar, None} /\ UNCHANGED <<api, stage, cookie, setCookie>>
    BY <1>12 DEF Expire
  <2> QED
    BY <2>1 DEF AloneOK, CallAlone, RequestAlone, JarAlone, Open, Spends, Quiet, Touches,
       FamilyAt, Spent, api, Api!Steps
<1>13. ASSUME ApiRuns PROVE AloneOK'
  BY <1>13, ApiAlone
<1>14. CASE UNCHANGED vars
  BY <1>14
  DEF vars, AloneOK, CallAlone, RequestAlone, JarAlone, Open, Spends, Quiet, Touches,
     FamilyAt, Spent, Api!Steps
<1>15. ASSUME NEW g \in Requests PROVE ~LoseResponse(g) /\ ~GatewayRestarts
  BY DEF LoseResponse, GatewayRestarts
<1> QED
  BY <1>4, <1>5, <1>6, <1>7, <1>8, <1>9, <1>10, <1>11, <1>12, <1>13, <1>14, <1>15
  DEF Next, Send, Continue, ApiRuns, GatewayRestarts

-----------------------------------------------------------------------------
(* The theorems. *)

SessionInv == Base /\ EndedOK /\ SequentialOK

\* No row, no cookie, no request in the initial state.
LEMMA SessionInit == Init => SessionInv
<1> SUFFICES ASSUME Init PROVE SessionInv
  OBVIOUS
<1>1. ApiProofs!IInv
  BY ApiProofs!InvInit, SameSets, NoneAssumption DEF Init
<1>2. Api!TypeOK
  BY <1>1, ApiFacts
<1>3. /\ pc = [c \in Calls |-> "idle"] /\ call = [c \in Calls |-> Api!NoCall]
      /\ answer = [c \in Calls |-> None]
  BY DEF Init, Api!Init
<1>4. TypeOK
  <2>1. /\ jar \in Jtis \cup {None} /\ expired \subseteq Jtis
        /\ faults \in 0..MaxFaults
        /\ signedOut \subseteq Families /\ raced \subseteq Families
        /\ doomed \subseteq Requests
    BY BoundsAssumption DEF Init
  <2>2. /\ stage \in [Requests -> Stages]
        /\ cookie \in [Requests -> Jtis \cup {None}]
        /\ account \in [Requests -> Users \cup {None}]
        /\ status \in [Requests -> Statuses]
        /\ setCookie \in [Requests -> Jtis \cup {Keep, Clear}]
    BY DEF Init, Stages, Statuses
  <2>3. \A g \in Requests : stage[g] # "recordingLogin" /\ setCookie[g] \notin Jtis
    BY MarkersAssumption DEF Init
  <2>4. disturbed \in BOOLEAN
    BY Zenon DEF Init
  <2> QED
    BY <1>2, <2>1, <2>2, <2>3, <2>4 DEF TypeOK
<1>5. CookieIsRecorded
  BY MarkersAssumption DEF Init, CookieIsRecorded
<1>6. LinkOK
  BY <1>3, CallIds DEF Init, LinkOK, LinkOf
<1>7. NamedOK
  BY <1>3, NoneAssumption DEF Init, NamedOK, NamedCall, Api!Answers
<1>8. EndedOK
  BY MarkersAssumption DEF Init, EndedOK, EndedOf, Ended
<1>9. SequentialOK
  BY <1>3, NoneAssumption
 
      DEF Init, SequentialOK, AloneOK, CallAlone, RequestAlone, JarAlone, Open, Api!Steps,
      Api!Answers
<1> QED
  BY <1>1, <1>4, <1>5, <1>6, <1>7, <1>8, <1>9 DEF SessionInv, Base

\* The inductive step: one lemma per conjunct.
LEMMA SessionStep == SessionInv /\ [Next]_vars => SessionInv'
<1> SUFFICES ASSUME Base, EndedOK, SequentialOK, [Next]_vars
             PROVE  Base' /\ EndedOK' /\ SequentialOK'
  BY DEF SessionInv
<1>1. ApiProofs!IInv' /\ TypeOK' /\ CookieIsRecorded' /\ LinkOK' /\ NamedOK'
  BY ApiKeeps, TypeStep, CookieStep, LinkStep, NamedStep
<1>2. EndedOK'
  BY SignedOutStep, EndedStep, JarStep DEF EndedOK
<1> QED
  BY <1>1, <1>2, SequentialStep DEF Base

\* The invariant holds of every behaviour.
LEMMA SessionHolds == Spec => []SessionInv
BY SessionInit, SessionStep, PTL DEF Spec

\* Every session is typed: the api's tables and calls, and what the gateway and the
\* browser keep of a request.
THEOREM TypeCorrect == Spec => []TypeOK
BY SessionHolds, PTL DEF SessionInv, Base

\* The gateway calls the api as the api's own theorems assume it is called, so all
\* of them hold of the two together: RefreshTokenFamily is what the composition does
\* to the tokens, however requests, failures and restarts interleave.
THEOREM GatewayIsAClient == Spec => ApiProofs!Spec
<1>1. Init => ApiProofs!Init
  BY SameSets DEF Init
<1>2. SessionInv /\ [Next]_vars => [ApiProofs!Next]_(ApiProofs!vars)
  BY ApiMoves DEF SessionInv
<1> QED
  BY <1>1, <1>2, SessionHolds, PTL DEF Spec, ApiProofs!Spec

\* What the api promises of its tokens, it keeps behind the gateway: a used token and a
\* deleted user's are never rotated, a token presented again takes its family with it,
\* and revocation is total.
ApiPromises ==
    /\ ApiProofs!SpentNeverRotates
    /\ ApiProofs!DeletedNeverRotates
    /\ ApiProofs!ReuseRevokesKin
    /\ ApiProofs!RevocationTotal
    /\ ApiProofs!LineageWellFormed

\* The assumptions of RefreshTokenFamily hold of the instance.
LEMMA ApiAssumptions ==
    /\ None \notin ApiProofs!Answers
    /\ None \notin Users \cup Families \cup Jtis \cup Calls
BY SameSets, NoneAssumption

THEOREM ApiKeepsItsPromises == Spec => []ApiPromises
<1>1. ApiProofs!Spec => []ApiProofs!SpentNeverRotates
  BY ApiAssumptions, ApiProofs!SpentTokensStaySpent
<1>2. ApiProofs!Spec => []ApiProofs!DeletedNeverRotates
  BY ApiAssumptions, ApiProofs!DeletedUsersLoseAccess
<1>3. ApiProofs!Spec => []ApiProofs!ReuseRevokesKin
  BY ApiAssumptions, ApiProofs!ReuseEndsTheSession
<1>4. ApiProofs!Spec => []ApiProofs!RevocationTotal
  BY ApiAssumptions, ApiProofs!RevocationIsTotal
<1>5. ApiProofs!Spec => []ApiProofs!LineageWellFormed
  BY ApiAssumptions, ApiProofs!LineagesAreWellFormed
<1> QED
  BY <1>1, <1>2, <1>3, <1>4, <1>5, GatewayIsAClient, PTL DEF ApiPromises

\* Browser, gateway and api together still implement the atomic operations of
\* SessionLineage.
THEOREM SessionsAreLineages == Spec => ApiProofs!ImplementsLineage
<1>1. ApiProofs!Spec => ApiProofs!ImplementsLineage
  BY ApiAssumptions, ApiProofs!Implementation
<1> QED
  BY <1>1, GatewayIsAClient, PTL

\* No step of any of them undoes what was done to a token.
THEOREM NothingIsUndone == Spec => ApiProofs!NothingUndone
<1>1. ApiProofs!Spec => ApiProofs!NothingUndone
  BY ApiAssumptions, ApiProofs!NothingIsUndone
<1> QED
  BY <1>1, GatewayIsAClient, PTL

\* issueRefreshAndRecord: the browser is never given a refresh token the api has no
\* row for, whichever calls and responses are lost.
THEOREM CookiesAreRecorded == Spec => []CookieIsRecorded
BY SessionHolds, PTL DEF SessionInv, Base

\* POST /logout: once the UPDATE of revokeByFamily took effect with no rotation of the
\* family in progress, no later request is refreshed with a cookie of that family.
THEOREM SignedOutStaysOut == Spec => []SignedOutIsFinal
<1>1. SessionInv => SignedOutIsFinal
  BY DEF SessionInv, Base, TypeOK, EndedOK, EndedOf, SignedOutIsFinal
<1> QED
  BY <1>1, SessionHolds, PTL

\* Requests sent one at a time, with no response lost, never trip the reuse detection,
\* and at rest the jar never holds a used or revoked token, whatever calls to the api
\* fail, and whenever the api restarts.
THEOREM OneAtATimeIsSafe == Spec => []OneAtATimeNeverReuses
<1>1. SessionInv => OneAtATimeNeverReuses
  BY CallIds
  DEF SessionInv, SequentialOK, AloneOK, CallAlone, JarAlone, Spends, Open, Quiet,
     Spent, OneAtATimeNeverReuses
<1> QED
  BY <1>1, SessionHolds, PTL

-----------------------------------------------------------------------------
(* What a handler waits for. *)

\* A handler that awaits a call of the api has made that call, and so it can go on one
\* day: the call is at a statement of the api, or has its answer, or was lost with the
\* api, which breaks the connection.
AwaitedIsUnderWay ==
    \A g \in Requests :
        stage[g] \in InGateway \ {"validating"} =>
            \/ pc[Awaited(g)] \in Api!Steps \cup {"lost"}
            \/ answer[Awaited(g)] \in Api!Answers

\* The call a handler makes first: rotate or revoke.
FirstCallMade(g) == stage[g] \in {"rotating", "revoking"} => pc[<<g, 1>>] # "idle"
CallsMade == \A g \in Requests : FirstCallMade(g)

\* A call that was made stays made, whatever its fate.
LEMMA CallsStay ==
    ASSUME Base, [Next]_vars, NEW c \in Calls, pc[c] # "idle"
    PROVE  pc'[c] # "idle"
<1>0. pc \in [Calls -> Api!Steps \cup {"idle", "done", "lost"}]
  BY DEF Base, TypeOK, Api!TypeOK
<1>1. [ApiProofs!Next]_(ApiProofs!vars)
  BY ApiMoves
<1>2. CASE UNCHANGED ApiProofs!vars
  BY <1>2 DEF ApiProofs!vars
<1>3. ASSUME NEW d \in Calls, ApiProofs!Call(d) PROVE pc'[c] # "idle"
  BY <1>0, <1>3
  DEF ApiProofs!Call, ApiProofs!CallRecordLogin, ApiProofs!CallRecordRotation,
      ApiProofs!CallRotate, ApiProofs!CallRevokeByJti, ApiProofs!CallRevokeByFamily,
      ApiProofs!CallMalformed, ApiProofs!Arrive, ApiProofs!Goto, ApiProofs!Reply
<1>4. ASSUME NEW d \in Calls, ApiProofs!Statement(d) PROVE pc'[c] # "idle"
  BY <1>0, <1>4
  DEF ApiProofs!Statement, ApiProofs!RecordInsert, ApiProofs!RotateFind,
      ApiProofs!RotateSave, ApiProofs!RotateGetUser, ApiProofs!RotateRevokeReused,
      ApiProofs!RotateRevokeInactive, ApiProofs!RevokeFind, ApiProofs!RevokeUpdate,
      ApiProofs!RevokeStep, ApiProofs!Goto, ApiProofs!Reply
<1>5. ASSUME NEW d \in Calls, ApiProofs!DbError(d) PROVE pc'[c] # "idle"
  BY <1>0, <1>5 DEF ApiProofs!DbError, ApiProofs!Reply
<1>6. CASE ApiProofs!Crash
  BY <1>0, <1>6 DEF ApiProofs!Crash
<1>7. ASSUME NEW u \in Users, ApiProofs!DeleteUser(u) PROVE pc'[c] # "idle"
  BY <1>7 DEF ApiProofs!DeleteUser
<1> QED
  BY <1>1, <1>2, <1>3, <1>4, <1>5, <1>6, <1>7 DEF ApiProofs!Next

\* A handler enters a wait with its call, and the call stays.
LEMMA CallsMadeStep ==
    ASSUME Base, CallsMade, [Next]_vars
    PROVE  CallsMade'
<1> SUFFICES ASSUME NEW g \in Requests, stage'[g] \in {"rotating", "revoking"}
             PROVE  pc'[<<g, 1>>] # "idle"
  BY DEF CallsMade, FirstCallMade
<1>0. stage \in [Requests -> Stages] /\ <<g, 1>> \in Calls
      /\ pc \in [Calls -> Api!Steps \cup {"idle", "done", "lost"}]
  BY CallIds DEF Base, TypeOK, Api!TypeOK
<1>1. CASE stage[g] \in {"rotating", "revoking"}
  <2>1. pc[<<g, 1>>] # "idle"
    BY <1>1 DEF CallsMade, FirstCallMade
  <2> QED
    BY <1>0, <2>1, CallsStay
<1>2. CASE stage[g] \notin {"rotating", "revoking"}
  <2>1. ASSUME NEW h \in Requests, GuardRotate(h) PROVE pc'[<<g, 1>>] # "idle"
    <3>1. CASE Api!CallRotate(<<h, 1>>, jar) /\ Enter(h, "rotating")
      <4>1. h = g
        BY <1>0, <1>2, <3>1 DEF Enter
      <4> QED
        BY <1>0, <3>1, <4>1 DEF Api!CallRotate, Api!Arrive, Api!Goto
    <3>2. CASE Respond(h, "401", Clear)
      BY <1>0, <1>2, <3>2 DEF Respond
    <3> QED
      BY <2>1, <3>1, <3>2 DEF GuardRotate
  <2>2. ASSUME NEW h \in Requests, LogoutReceive(h) PROVE pc'[<<g, 1>>] # "idle"
    <3>1. CASE Api!CallRevokeByFamily(<<h, 1>>, familyOf[jar]) /\ Enter(h, "revoking")
      <4>1. h = g
        BY <1>0, <1>2, <3>1 DEF Enter
      <4> QED
        BY <1>0, <3>1, <4>1 DEF Api!CallRevokeByFamily, Api!Arrive, Api!Goto
    <3>2. CASE Respond(h, "loggedOut", Clear)
      BY <1>0, <1>2, <3>2 DEF Respond
    <3> QED
      BY <2>2, <3>1, <3>2 DEF LogoutReceive
  <2>3. ASSUME NEW h \in Requests,
               \/ LoginMalformed(h) \/ LoginReceive(h) \/ GuardRefused(h) \/ GuardPassed(h)
               \/ LoginRejected(h) \/ LoginRecorded(h) \/ GuardRejected(h)
               \/ GuardRecorded(h) \/ LogoutRevoked(h) \/ CallDied(h) \/ CallAbandoned(h)
               \/ Deliver(h) \/ LoseResponse(h)
               \/ \E f \in Families, j \in Jtis : LoginValidated(h, f, j)
               \/ \E j \in Jtis : GuardRotated(h, j)
        PROVE  FALSE
    <3>1. \/ \E s, a : Respond(h, s, a)
          \/ \E to \in {"validating", "recordingLogin", "recording", "closed"} : Enter(h, to)
      BY <2>3 DEF LoginMalformed, LoginReceive, GuardRefused, GuardPassed, LoginRejected,
         LoginRecorded, GuardRejected, GuardRecorded, LogoutRevoked, CallDied, CallAbandoned,
         FetchRejects, Deliver, LoseResponse, LoginValidated, GuardRotated
    <3> QED
      BY <1>0, <1>2, <3>1 DEF Respond, Enter
  <2>4. ASSUME \/ \E c \in Calls : ApiStep(c)
               \/ ApiFails
               \/ \E u \in Users : UserDeleted(u)
               \/ \E j \in Jtis : Expire(j)
               \/ UNCHANGED vars
        PROVE  FALSE
    <3>1. stage' = stage
      BY <2>4 DEF ApiStep, ApiRevokes, ApiFails, UserDeleted, Expire, vars, gateway
    <3> QED
      BY <1>2, <3>1
  <2>5. CASE GatewayRestarts
    <3>1. stage'[g] \in {"closed", stage[g]}
      BY <2>5 DEF GatewayRestarts
    <3> QED
      BY <1>2, <3>1
  <2> QED
    BY <2>1, <2>2, <2>3, <2>4, <2>5 DEF Next, Send, Continue
<1> QED
  BY <1>1, <1>2

\* The safety half of EveryRequestAnswered: no handler waits for a call it never made, or
\* for one that can neither proceed nor come back.
THEOREM NobodyWaitsForNothing == Spec => []AwaitedIsUnderWay
<1>1. Init => CallsMade
  BY DEF Init, CallsMade, FirstCallMade
<1>2. SessionInv /\ CallsMade /\ [Next]_vars => CallsMade'
  BY CallsMadeStep DEF SessionInv
<1>3. ASSUME SessionInv, CallsMade PROVE AwaitedIsUnderWay
  <2>1. Base
    BY <1>3 DEF SessionInv
  <2> SUFFICES ASSUME NEW g \in Requests, stage[g] \in InGateway \ {"validating"}
               PROVE  \/ pc[Awaited(g)] \in Api!Steps \cup {"lost"}
                      \/ answer[Awaited(g)] \in Api!Answers
    BY DEF AwaitedIsUnderWay
  <2>2. PICK c : c = Awaited(g)
    OBVIOUS
  <2>3. c \in Calls
    BY <2>2, CallIds DEF Awaited
  <2>4. pc[c] # "idle"
    <3>1. CASE stage[g] \in {"recording", "recordingLogin"}
      BY <2>1, <2>2, <3>1 DEF Awaited, Base, LinkOK, LinkOf
    <3>2. CASE stage[g] \in {"rotating", "revoking"}
      BY <1>3, <2>2, <3>2 DEF Awaited, CallsMade, FirstCallMade
    <3> QED
      BY <3>1, <3>2 DEF InGateway
  <2>5. /\ pc[c] \in Api!Steps \cup {"idle", "done", "lost"}
        /\ answer[c] \in Api!Answers \cup {None}
    BY <2>1, <2>3 DEF Base, TypeOK, Api!TypeOK
  <2>6. answer[c] # None <=> pc[c] = "done"
    BY <2>1, <2>3, ApiFacts DEF Base
  <2> QED
    BY <2>2, <2>4, <2>5, <2>6
<1> QED
  BY <1>1, <1>2, <1>3, SessionHolds, PTL DEF Spec
=============================================================================
