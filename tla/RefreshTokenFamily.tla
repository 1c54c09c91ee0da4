------------------------- MODULE RefreshTokenFamily -------------------------
(***************************************************************************)
(* The api's refresh-token lifecycle: the table refresh_token_family and   *)
(* the three handlers of RefreshLifecycleController (record, rotate,       *)
(* revoke) over RefreshTokenFamilyService.                                 *)
(*                                                                         *)
(* A handler is a process: every `await` on the database is a point where  *)
(* the other handlers run.  No handler opens a transaction or takes a      *)
(* lock, so one SQL statement is one atomic step and everything between    *)
(* two statements can be interleaved.  A statement can fail before or      *)
(* after it took effect, and the api can restart with handlers in flight.  *)
(*                                                                         *)
(* The table is kept by column: familyOf, userOf and parentOf are written  *)
(* once by the INSERT, used and revoked are the sets of jtis with          *)
(* used = true and revoked_at not null.                                    *)
(***************************************************************************)
EXTENDS FiniteSets

CONSTANTS
    Users,      \* ids of rows of the user table
    Families,   \* family ids, one per login
    Jtis,       \* ids of the refresh tokens
    Reqs,       \* requests the gateway sends to the api, each one sent once
    None        \* a SQL NULL or a missing argument

ASSUME NoneAssumption == None \notin Users \cup Families \cup Jtis \cup Reqs

VARIABLES
    familyOf, userOf, parentOf,     \* columns written by the INSERT
    used, revoked,                  \* columns written by the UPDATEs
    deleted,                        \* users with deleted = true
    pc,         \* the statement the handler of a request is about to run
    call,       \* the request's body, and what findOne read into it
    answer,     \* the outcome sent to the gateway
    \* History: written here, read by properties only.
    stale,      \* rotations whose jti was used or revoked when they arrived
    orphan,     \* rotations whose user was deleted when they arrived
    kin,        \* the family's jtis in the table when a rotation arrived
    late        \* jtis inserted in a family some row of which was revoked

table == <<familyOf, userOf, parentOf, used, revoked>>
history == <<stale, orphan, kin, late>>
vars == <<familyOf, userOf, parentOf, used, revoked, deleted, pc, call, answer,
          stale, orphan, kin, late>>

Steps == {"insert", "find", "save", "revokeReused", "getUser", "revokeInactive",
          "findRevoke", "revokeFamily"}
Answers == {"recorded", "rotated", "not-found", "family-revoked",
            "reused-revoked", "inactive", "revoked", "bad-request", "error"}
ASSUME AnswersAssumption == None \notin Answers

Calls == [jti: Jtis \cup {None}, familyId: Families \cup {None},
          userId: Users \cup {None}, parentJti: Jtis \cup {None},
          from: Reqs \cup {None}]
NoCall == [jti |-> None, familyId |-> None, userId |-> None,
           parentJti |-> None, from |-> None]

Recorded(j) == j \in Jtis /\ familyOf[j] # None
Members(f) == {j \in Jtis : Recorded(j) /\ familyOf[j] = f}
FamilyRevoked(f) == \E j \in Members(f) : j \in revoked

TypeOK ==
    /\ familyOf \in [Jtis -> Families \cup {None}]
    /\ userOf \in [Jtis -> Users \cup {None}]
    /\ parentOf \in [Jtis -> Jtis \cup {None}]
    /\ used \subseteq Jtis
    /\ revoked \subseteq Jtis
    /\ deleted \subseteq Users
    /\ pc \in [Reqs -> Steps \cup {"idle", "done", "lost"}]
    /\ call \in [Reqs -> Calls]
    /\ answer \in [Reqs -> Answers \cup {None}]
    \* Every parameter a statement binds has been given a value.
    /\ \A r \in Reqs :
         /\ pc[r] \in Steps \ {"revokeFamily"} => call[r].jti \in Jtis
         /\ pc[r] \in Steps \ {"find", "findRevoke"} => call[r].familyId \in Families
         /\ pc[r] = "insert" => call[r].userId \in Users
    /\ stale \subseteq Reqs
    /\ orphan \subseteq Reqs
    /\ kin \in [Reqs -> SUBSET Jtis]
    /\ late \subseteq Jtis

Init ==
    /\ familyOf = [j \in Jtis |-> None]
    /\ userOf = [j \in Jtis |-> None]
    /\ parentOf = [j \in Jtis |-> None]
    /\ used = {}
    /\ revoked = {}
    /\ deleted = {}
    /\ pc = [r \in Reqs |-> "idle"]
    /\ call = [r \in Reqs |-> NoCall]
    /\ answer = [r \in Reqs |-> None]
    /\ stale = {}
    /\ orphan = {}
    /\ kin = [r \in Reqs |-> {}]
    /\ late = {}

-----------------------------------------------------------------------------
(* Helpers: how a handler moves. *)

Running(r) == pc[r] \in Steps

Goto(r, step) ==
    /\ pc' = [pc EXCEPT ![r] = step]
    /\ UNCHANGED answer

Reply(r, a) ==
    /\ pc' = [pc EXCEPT ![r] = "done"]
    /\ answer' = [answer EXCEPT ![r] = a]

\* The gateway's POST arrives with body c; its handler's first statement is step.
Arrive(r, step, c) ==
    /\ pc[r] = "idle"
    /\ Goto(r, step)
    /\ call' = [call EXCEPT ![r] = c]
    /\ UNCHANGED <<table, deleted>>

-----------------------------------------------------------------------------
(* What the gateway sends. *)

\* A jti of randomUUID() is in no row and in no other record call, so the
\* UNIQUE index on jti never refuses one.
FreshJti(j) == ~Recorded(j) /\ \A q \in Reqs : pc[q] = "insert" => call[q].jti # j
FreshFamily(f) == Members(f) = {} /\ \A q \in Reqs : call[q].familyId # f

\* After a login: the first token of a new family.
CallRecordLogin(r, u, f, j) ==
    /\ FreshJti(j) /\ FreshFamily(f)
    /\ Arrive(r, "insert", [NoCall EXCEPT !.jti = j, !.familyId = f, !.userId = u])
    /\ UNCHANGED history

\* After the rotation q was answered: its successor, once per answer.
CallRecordRotation(r, q, j) ==
    /\ answer[q] = "rotated"
    /\ FreshJti(j)
    /\ \A s \in Reqs : call[s].from # q
    /\ Arrive(r, "insert", [jti |-> j, familyId |-> call[q].familyId,
                            userId |-> userOf[call[q].jti],
                            parentJti |-> call[q].jti, from |-> q])
    /\ UNCHANGED history

\* A refresh cookie is presented; any jti the gateway ever signed.
CallRotate(r, j) ==
    /\ Arrive(r, "find", [NoCall EXCEPT !.jti = j])
    /\ stale' = IF j \in used \cup revoked THEN stale \cup {r} ELSE stale
    /\ orphan' = IF Recorded(j) /\ userOf[j] \in deleted
                 THEN orphan \cup {r} ELSE orphan
    /\ kin' = [kin EXCEPT ![r] = IF Recorded(j) THEN Members(familyOf[j]) ELSE {}]
    /\ UNCHANGED late

\* revoke takes the jti if there is one, the family id otherwise.
CallRevokeByJti(r, j) ==
    /\ Arrive(r, "findRevoke", [NoCall EXCEPT !.jti = j])
    /\ UNCHANGED history

CallRevokeByFamily(r, f) ==
    /\ \E j \in Jtis : familyOf[j] = f
    /\ Arrive(r, "revokeFamily", [NoCall EXCEPT !.familyId = f])
    /\ UNCHANGED history

CallMalformedAccepted(r) ==   \* mutant of CallMalformed: the 400 is missing
    /\ Arrive(r, "find", NoCall)
    /\ UNCHANGED history

\* A body without the required fields: 400 before any statement.
CallMalformed(r) ==
    /\ pc[r] = "idle"
    /\ Reply(r, "bad-request")
    /\ UNCHANGED <<table, deleted, call, history>>

-----------------------------------------------------------------------------
(* record *)

RecordInsert(r) ==
    /\ pc[r] = "insert"
    /\ ~Recorded(call[r].jti)
    /\ familyOf' = [familyOf EXCEPT ![call[r].jti] = call[r].familyId]
    /\ userOf' = [userOf EXCEPT ![call[r].jti] = call[r].userId]
    /\ parentOf' = [parentOf EXCEPT ![call[r].jti] = call[r].parentJti]
    /\ late' = IF FamilyRevoked(call[r].familyId) THEN late \cup {call[r].jti} ELSE late
    /\ \E a \in {"recorded", "error"} : Reply(r, a)
    /\ UNCHANGED <<used, revoked, deleted, call, stale, orphan, kin>>

-----------------------------------------------------------------------------
(* rotate *)

RotateFindUsedIgnored(r) ==   \* mutant of RotateFind: no reuse check
    /\ pc[r] = "find"
    /\ LET j == call[r].jti IN
         /\ call' = [call EXCEPT ![r].familyId = familyOf[j]]
         /\ IF ~Recorded(j) THEN Reply(r, "not-found")
            ELSE IF j \in revoked THEN Reply(r, "family-revoked") ELSE Goto(r, "save")
    /\ UNCHANGED <<table, deleted, history>>

RotateFindRevokedIgnored(r) ==   \* mutant of RotateFind: no revocation check
    /\ pc[r] = "find"
    /\ LET j == call[r].jti IN
         /\ call' = [call EXCEPT ![r].familyId = familyOf[j]]
         /\ IF ~Recorded(j) THEN Reply(r, "not-found")
            ELSE IF j \in used THEN Goto(r, "revokeReused") ELSE Goto(r, "save")
    /\ UNCHANGED <<table, deleted, history>>

\* findOne and the branch its result takes.
RotateFind(r) ==
    /\ pc[r] = "find"
    /\ LET j == call[r].jti IN
         /\ call' = [call EXCEPT ![r].familyId = familyOf[j]]
         /\ \/ /\ ~Recorded(j)
               /\ Reply(r, "not-found")
            \/ /\ Recorded(j) /\ j \in revoked
               /\ Reply(r, "family-revoked")
            \/ /\ Recorded(j) /\ j \notin revoked /\ j \in used
               /\ Goto(r, "revokeReused")
            \/ /\ Recorded(j) /\ j \notin revoked /\ j \notin used
               /\ Goto(r, "save")
    /\ UNCHANGED <<table, deleted, history>>

RotateSaveForgotten(r) ==   \* mutant of RotateSave: the row is not saved
    /\ pc[r] = "save"
    /\ Goto(r, "getUser")
    /\ UNCHANGED <<table, deleted, call, history>>

RotateSaveWholeRow(r) ==   \* mutant of RotateSave: every column read is written back
    /\ pc[r] = "save"
    /\ used' = used \cup {call[r].jti}
    /\ revoked' = revoked \ {call[r].jti}
    /\ Goto(r, "getUser")
    /\ UNCHANGED <<familyOf, userOf, parentOf, deleted, call, history>>

\* row.save() writes the changed column only: used.
RotateSave(r) ==
    /\ pc[r] = "save"
    /\ used' = used \cup {call[r].jti}
    /\ \/ Goto(r, "getUser")
       \/ Reply(r, "error")
    /\ UNCHANGED <<familyOf, userOf, parentOf, revoked, deleted, call, history>>

RotateGetUserDeletedToo(r) ==   \* mutant of RotateGetUser: deleted rows included
    /\ pc[r] = "getUser"
    /\ Reply(r, "rotated")
    /\ UNCHANGED <<table, deleted, call, history>>

\* The user is read again, deleted rows excluded.
RotateGetUser(r) ==
    /\ pc[r] = "getUser"
    /\ IF userOf[call[r].jti] \in deleted
       THEN Goto(r, "revokeInactive")
       ELSE Reply(r, "rotated")
    /\ UNCHANGED <<table, deleted, call, history>>

-----------------------------------------------------------------------------
(* revokeFamily, the UPDATE three handlers end with, and revokeByJti *)

RevokeFamilyUnusedOnly(f) ==   \* mutant of RevokeFamily: used rows are skipped
    revoked' = revoked \cup (Members(f) \ used)

RevokeFamily(f) == revoked' = revoked \cup Members(f)

RevokeStep(r, step, a) ==
    /\ pc[r] = step
    /\ RevokeFamily(call[r].familyId)
    /\ \E b \in {a, "error"} : Reply(r, b)
    /\ UNCHANGED <<familyOf, userOf, parentOf, used, deleted, call, history>>

RotateRevokeReusedOnly(r) ==   \* mutant of RotateRevokeReused: the presented row only
    /\ pc[r] = "revokeReused"
    /\ revoked' = revoked \cup {call[r].jti}
    /\ Reply(r, "reused-revoked")
    /\ UNCHANGED <<familyOf, userOf, parentOf, used, deleted, call, history>>

RotateRevokeReused(r) == RevokeStep(r, "revokeReused", "reused-revoked")
RotateRevokeInactive(r) == RevokeStep(r, "revokeInactive", "inactive")
RevokeUpdate(r) == RevokeStep(r, "revokeFamily", "revoked")

RevokeFind(r) ==
    /\ pc[r] = "findRevoke"
    /\ LET j == call[r].jti IN
         /\ call' = [call EXCEPT ![r].familyId = familyOf[j]]
         /\ IF Recorded(j) THEN Goto(r, "revokeFamily") ELSE Reply(r, "not-found")
    /\ UNCHANGED <<table, deleted, history>>

-----------------------------------------------------------------------------
(* The database and the process *)

\* The statement throws without effect: the catch answers 500.  (That it throws
\* after it took effect is the "error" reply of the writing steps.)
DbError(r) ==
    /\ Running(r)
    /\ Reply(r, "error")
    /\ UNCHANGED <<table, deleted, call, history>>

\* The api restarts: the table survives, no handler in flight ever answers.
Crash ==
    /\ \E r \in Reqs : Running(r)
    /\ pc' = [r \in Reqs |-> IF Running(r) THEN "lost" ELSE pc[r]]
    /\ UNCHANGED <<table, deleted, call, answer, history>>

\* Another request soft-deletes a user; nothing ever undoes it.
DeleteUser(u) ==
    /\ u \notin deleted
    /\ deleted' = deleted \cup {u}
    /\ UNCHANGED <<table, pc, call, answer, history>>

-----------------------------------------------------------------------------

Call(r) ==
    \/ \E u \in Users, f \in Families, j \in Jtis : CallRecordLogin(r, u, f, j)
    \/ \E q \in Reqs, j \in Jtis : CallRecordRotation(r, q, j)
    \/ \E j \in Jtis : CallRotate(r, j)
    \/ \E j \in Jtis : CallRevokeByJti(r, j)
    \/ \E f \in Families : CallRevokeByFamily(r, f)
    \/ CallMalformed(r)

Statement(r) ==
    \/ RecordInsert(r)
    \/ RotateFind(r)
    \/ RotateSave(r)
    \/ RotateGetUser(r)
    \/ RotateRevokeReused(r)
    \/ RotateRevokeInactive(r)
    \/ RevokeFind(r)
    \/ RevokeUpdate(r)

Next ==
    \/ \E r \in Reqs : Call(r) \/ Statement(r) \/ DbError(r)
    \/ Crash
    \/ \E u \in Users : DeleteUser(u)

Spec == Init /\ [][Next]_vars

-----------------------------------------------------------------------------
(* Properties *)

\* A token presented after it was used, or after its family was revoked, is
\* never exchanged: the single use of refresh-token-family.service.ts:25-28 for
\* presentations that do not overlap the rotation they follow.
SpentNeverRotates == \A r \in stale : answer[r] # "rotated"

\* A rotation that arrives after its user was soft-deleted never succeeds, the
\* re-read of refresh-lifecycle.controller.ts:42-54 and docs/SECURITY.md:59-62.
DeletedNeverRotates == \A r \in orphan : answer[r] # "rotated"

\* Answering "reused-revoked" or "inactive" means the session is over: every row
\* the family had when the rotation arrived is revoked, not the presented one alone.
ReuseRevokesKin ==
    \A r \in Reqs : answer[r] \in {"reused-revoked", "inactive"} => kin[r] \subseteq revoked

\* Revocation is all or nothing: beside a revoked row, a live row of the same
\* family was inserted after the revocation, by a rotation that overlapped it.
RevocationTotal ==
    \A j, k \in Jtis :
        /\ Recorded(j) /\ Recorded(k) /\ familyOf[j] = familyOf[k]
        /\ j \in revoked /\ k \notin revoked
        => k \in late

\* A family is one user's chain: a row's parent is in the table, in the same
\* family, of the same user, and used; a root row has no parent.
LineageWellFormed ==
    \A j \in Jtis :
        Recorded(j) /\ parentOf[j] # None =>
            /\ Recorded(parentOf[j])
            /\ parentOf[j] \in used
            /\ familyOf[parentOf[j]] = familyOf[j]
            /\ userOf[parentOf[j]] = userOf[j]

\* No step undoes a use or a revocation or rewrites who a row belongs to, a
\* handler that writes back what it read before another one's UPDATE included.
NothingUndone ==
    [][ /\ used \subseteq used'
        /\ revoked \subseteq revoked'
        /\ \A j \in Jtis : Recorded(j) =>
              /\ familyOf'[j] = familyOf[j]
              /\ userOf'[j] = userOf[j]
              /\ parentOf'[j] = parentOf[j] ]_vars

\* The handlers, cut at every statement, implement the atomic operations of
\* SessionLineage: a token has one successor list, in its own family, and no
\* observer of the table sees half a revocation.
Lineage == INSTANCE SessionLineage WITH
    Lineages <- Families, Tokens <- Jtis,
    lineage <- familyOf, spent <- used, dead <- revoked
ImplementsLineage == Lineage!Spec

\* What service.ts:25-28 says of every token: it is exchanged at most once.
SingleUse ==
    \A q, r \in Reqs :
        answer[q] = "rotated" /\ answer[r] = "rotated" /\ q # r
        => call[q].jti # call[r].jti
=============================================================================
