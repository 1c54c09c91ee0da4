---------------------- MODULE RefreshTokenFamilyProofs ----------------------
(***************************************************************************)
(* Proofs about RefreshTokenFamily, for any sets of users, families, jtis  *)
(* and requests: its safety invariants, its action property, and that it   *)
(* implements SessionLineage.                                              *)
(*                                                                         *)
(* The invariants are not inductive as they stand: they speak of answers,  *)
(* and an answer is right only because of what the handler read several    *)
(* statements before.  Base says what a handler's position implies about   *)
(* the row it read; StaleOK, OrphanOK and KinOK carry a fact about the     *)
(* moment a rotation arrived through every position up to its answer.      *)
(***************************************************************************)
EXTENDS RefreshTokenFamily, TLAPS

\* Only rows in the table are used or revoked, and each belongs to a user.
RowsOK ==
    \A j \in Jtis :
        /\ j \in used \cup revoked => Recorded(j)
        /\ Recorded(j) => userOf[j] \in Users

\* The positions of rotate between findOne and its answer.
AtRow(r) == pc[r] \in {"save", "revokeReused", "getUser", "revokeInactive"}

\* A request has an answer exactly when its handler has returned.
AnsweredOK == \A r \in Reqs : answer[r] # None <=> pc[r] = "done"

\* Past findOne the presented row exists and the handler holds its family.
FoundOK ==
    \A r \in Reqs :
        AtRow(r) \/ answer[r] = "rotated" =>
            /\ Recorded(call[r].jti)
            /\ call[r].familyId = familyOf[call[r].jti]

\* Past save the presented row is used.
SavedOK ==
    \A r \in Reqs :
        pc[r] \in {"getUser", "revokeInactive"} \/ answer[r] = "rotated"
            => call[r].jti \in used

\* A successor about to be inserted names a used row of its family and user.
InsertOK ==
    \A r \in Reqs :
        pc[r] = "insert" /\ call[r].parentJti # None =>
            /\ Recorded(call[r].parentJti)
            /\ call[r].parentJti \in used
            /\ familyOf[call[r].parentJti] = call[r].familyId
            /\ userOf[call[r].parentJti] = call[r].userId

Base == TypeOK /\ RowsOK /\ AnsweredOK /\ FoundOK /\ SavedOK /\ InsertOK

-----------------------------------------------------------------------------
(* The steps that leave the table alone, and the three that write it. *)

ReadOnly ==
    \/ \E r \in Reqs : Call(r) \/ RotateFind(r) \/ RotateGetUser(r)
                       \/ RevokeFind(r) \/ DbError(r)
    \/ Crash
    \/ \E u \in Users : DeleteUser(u)
    \/ UNCHANGED vars

Write(r) ==
    \/ RecordInsert(r)
    \/ RotateSave(r)
    \/ \E a \in Answers, step \in {"revokeReused", "revokeInactive", "revokeFamily"} :
          RevokeStep(r, step, a)

\* Every step either leaves the refresh_token_family table as it is or is one
\* of its INSERT, the UPDATE of used and the UPDATE of revoked_at.
LEMMA StepKinds == [Next]_vars => ReadOnly \/ \E r \in Reqs : Write(r)
BY DEF Next, Call, Statement, ReadOnly, Write, Answers, RotateRevokeReused,
       RotateRevokeInactive, RevokeUpdate

\* Arrivals, SELECTs, failures, restarts and user deletions write no row.
LEMMA ReadOnlyLeavesTable ==
    ReadOnly => UNCHANGED <<familyOf, userOf, parentOf, used, revoked, late>>
BY ZenonT(30) DEF ReadOnly, table, history, vars, Call, CallRecordLogin,
       CallRecordRotation, CallRotate, CallRevokeByJti, CallRevokeByFamily,
       CallMalformed, Arrive, RotateFind, RotateGetUser, RevokeFind, DbError,
       Crash, DeleteUser

-----------------------------------------------------------------------------
(* Base is inductive: one lemma per conjunct, one step per action. *)

\* No handler runs in the initial state, and the table is empty.
LEMMA BaseInit == Init => Base
BY NoneAssumption, AnswersAssumption
   DEF Init, Base, TypeOK, RowsOK, AnsweredOK, FoundOK, SavedOK, InsertOK, AtRow,
       Recorded, Steps, Calls, NoCall, Answers

\* Every step of a handler binds the parameters its next statement needs.
LEMMA TypeStep == Base /\ [Next]_vars => TypeOK'
<1> SUFFICES ASSUME Base, [Next]_vars PROVE TypeOK'
  OBVIOUS
<1> USE NoneAssumption, AnswersAssumption DEF Base, table, history, TypeOK,
        Recorded, Steps, Calls, NoCall, Answers
<1>1. ASSUME NEW r \in Reqs, NEW u \in Users, NEW f \in Families, NEW j \in Jtis,
             CallRecordLogin(r, u, f, j)
      PROVE  TypeOK'
  BY <1>1 DEF CallRecordLogin, Arrive, Goto, FreshJti
<1>2. ASSUME NEW r \in Reqs, NEW q \in Reqs, NEW j \in Jtis,
             CallRecordRotation(r, q, j)
      PROVE  TypeOK'
  BY <1>2 DEF CallRecordRotation, Arrive, Goto, FreshJti, RowsOK, FoundOK, AnsweredOK
<1>3. ASSUME NEW r \in Reqs, NEW j \in Jtis, CallRotate(r, j) PROVE TypeOK'
  BY <1>3 DEF CallRotate, Arrive, Goto, Members
<1>4. ASSUME NEW r \in Reqs, NEW j \in Jtis, CallRevokeByJti(r, j) PROVE TypeOK'
  BY <1>4 DEF CallRevokeByJti, Arrive, Goto
<1>5. ASSUME NEW r \in Reqs, NEW f \in Families,
             CallRevokeByFamily(r, f)
      PROVE  TypeOK'
  BY <1>5 DEF CallRevokeByFamily, Arrive, Goto
<1>6. ASSUME NEW r \in Reqs, CallMalformed(r) PROVE TypeOK'
  BY <1>6 DEF CallMalformed, Reply
<1>7. ASSUME NEW r \in Reqs, RecordInsert(r) PROVE TypeOK'
  BY <1>7 DEF RecordInsert, Reply
<1>8. ASSUME NEW r \in Reqs, RotateFind(r) PROVE TypeOK'
  BY SMTT(30), <1>8 DEF RotateFind, Reply, Goto
<1>9. ASSUME NEW r \in Reqs, RotateSave(r) PROVE TypeOK'
  BY SMTT(30), <1>9 DEF RotateSave, Reply, Goto
<1>10. ASSUME NEW r \in Reqs, RotateGetUser(r) PROVE TypeOK'
  BY <1>10 DEF RotateGetUser, Reply, Goto
<1>11. ASSUME NEW r \in Reqs, RotateRevokeReused(r) PROVE TypeOK'
  BY <1>11 DEF RotateRevokeReused, RevokeStep, RevokeFamily, Members, Reply
<1>12. ASSUME NEW r \in Reqs, RotateRevokeInactive(r) PROVE TypeOK'
  BY <1>12 DEF RotateRevokeInactive, RevokeStep, RevokeFamily, Members, Reply
<1>13. ASSUME NEW r \in Reqs, RevokeFind(r) PROVE TypeOK'
  BY <1>13 DEF RevokeFind, Reply, Goto
<1>14. ASSUME NEW r \in Reqs, RevokeUpdate(r) PROVE TypeOK'
  BY <1>14 DEF RevokeUpdate, RevokeStep, RevokeFamily, Members, Reply
<1>15. ASSUME NEW r \in Reqs, DbError(r) PROVE TypeOK'
  BY <1>15 DEF DbError, Running, Reply
<1>16. ASSUME Crash PROVE TypeOK'
  BY <1>16 DEF Crash, Running
<1>17. ASSUME NEW u \in Users, DeleteUser(u) PROVE TypeOK'
  BY <1>17 DEF DeleteUser
<1>18. CASE UNCHANGED vars
  BY <1>18 DEF vars
<1> QED
  BY <1>1, <1>2, <1>3, <1>4, <1>5, <1>6, <1>7, <1>8, <1>9, <1>10, <1>11,
     <1>12, <1>13, <1>14, <1>15, <1>16, <1>17, <1>18
  DEF Next, Call, Statement

\* The UPDATEs touch rows that exist: save() the row it read, revokeFamily the
\* rows its WHERE selects.
LEMMA RowsStep == Base /\ [Next]_vars => RowsOK'
<1> SUFFICES ASSUME Base, [Next]_vars PROVE RowsOK'
  OBVIOUS
<1> USE NoneAssumption, AnswersAssumption DEF Base, history, TypeOK, RowsOK,
        FoundOK, AtRow, Members, Recorded, Calls, Steps
<1>1. ASSUME ReadOnly PROVE RowsOK'
  BY <1>1, ReadOnlyLeavesTable
<1>2. ASSUME NEW r \in Reqs, RecordInsert(r) PROVE RowsOK'
  BY <1>2 DEF RecordInsert
<1>3. ASSUME NEW r \in Reqs, RotateSave(r) PROVE RowsOK'
  BY <1>3 DEF RotateSave
<1>4. ASSUME NEW r \in Reqs, NEW a, NEW step, RevokeStep(r, step, a)
      PROVE  RowsOK'
  BY <1>4 DEF RevokeStep, RevokeFamily
<1> QED
  BY <1>1, <1>2, <1>3, <1>4, StepKinds DEF Write

\* A handler answers once, in its last step; a restart leaves it unanswered.
LEMMA AnsweredStep == Base /\ [Next]_vars => AnsweredOK'
<1> SUFFICES ASSUME Base, [Next]_vars PROVE AnsweredOK'
  OBVIOUS
<1> USE NoneAssumption, AnswersAssumption DEF Base, table, history, TypeOK,
        AnsweredOK, Answers, Steps
<1>1. ASSUME NEW r \in Reqs, NEW u \in Users, NEW f \in Families, NEW j \in Jtis,
             CallRecordLogin(r, u, f, j)
      PROVE  AnsweredOK'
  BY <1>1 DEF CallRecordLogin, Arrive, Goto, FreshJti
<1>2. ASSUME NEW r \in Reqs, NEW q \in Reqs, NEW j \in Jtis,
             CallRecordRotation(r, q, j)
      PROVE  AnsweredOK'
  BY <1>2 DEF CallRecordRotation, Arrive, Goto, FreshJti
<1>3. ASSUME NEW r \in Reqs, NEW j \in Jtis, CallRotate(r, j) PROVE AnsweredOK'
  BY <1>3 DEF CallRotate, Arrive, Goto, Members
<1>4. ASSUME NEW r \in Reqs, NEW j \in Jtis, CallRevokeByJti(r, j) PROVE AnsweredOK'
  BY <1>4 DEF CallRevokeByJti, Arrive, Goto
<1>5. ASSUME NEW r \in Reqs, NEW f \in Families,
             CallRevokeByFamily(r, f)
      PROVE  AnsweredOK'
  BY <1>5 DEF CallRevokeByFamily, Arrive, Goto
<1>6. ASSUME NEW r \in Reqs, CallMalformed(r) PROVE AnsweredOK'
  BY <1>6 DEF CallMalformed, Reply
<1>7. ASSUME NEW r \in Reqs, RecordInsert(r) PROVE AnsweredOK'
  BY <1>7 DEF RecordInsert, Reply
<1>8. ASSUME NEW r \in Reqs, RotateFind(r) PROVE AnsweredOK'
  BY <1>8 DEF RotateFind, Reply, Goto
<1>9. ASSUME NEW r \in Reqs, RotateSave(r) PROVE AnsweredOK'
  BY <1>9 DEF RotateSave, Reply, Goto
<1>10. ASSUME NEW r \in Reqs, RotateGetUser(r) PROVE AnsweredOK'
  BY <1>10 DEF RotateGetUser, Reply, Goto
<1>11. ASSUME NEW r \in Reqs, RotateRevokeReused(r) PROVE AnsweredOK'
  BY <1>11 DEF RotateRevokeReused, RevokeStep, RevokeFamily, Members, Reply
<1>12. ASSUME NEW r \in Reqs, RotateRevokeInactive(r) PROVE AnsweredOK'
  BY <1>12 DEF RotateRevokeInactive, RevokeStep, RevokeFamily, Members, Reply
<1>13. ASSUME NEW r \in Reqs, RevokeFind(r) PROVE AnsweredOK'
  BY <1>13 DEF RevokeFind, Reply, Goto
<1>14. ASSUME NEW r \in Reqs, RevokeUpdate(r) PROVE AnsweredOK'
  BY <1>14 DEF RevokeUpdate, RevokeStep, RevokeFamily, Members, Reply
<1>15. ASSUME NEW r \in Reqs, DbError(r) PROVE AnsweredOK'
  BY <1>15 DEF DbError, Running, Reply
<1>16. ASSUME Crash PROVE AnsweredOK'
  BY <1>16 DEF Crash, Running
<1>17. ASSUME NEW u \in Users, DeleteUser(u) PROVE AnsweredOK'
  BY <1>17 DEF DeleteUser
<1>18. CASE UNCHANGED vars
  BY <1>18 DEF vars
<1> QED
  BY <1>1, <1>2, <1>3, <1>4, <1>5, <1>6, <1>7, <1>8, <1>9, <1>10, <1>11,
     <1>12, <1>13, <1>14, <1>15, <1>16, <1>17, <1>18
  DEF Next, Call, Statement

\* findOne fixes the row and family the rest of rotate works on; rows are never
\* deleted and their family never changes.
LEMMA FoundStep == Base /\ [Next]_vars => FoundOK'
<1> SUFFICES ASSUME Base, [Next]_vars PROVE FoundOK'
  OBVIOUS
<1> USE NoneAssumption, AnswersAssumption DEF Base, table, history, TypeOK,
        AnsweredOK, Answers, FoundOK, AtRow, Recorded, Calls, NoCall, Steps
<1>1. ASSUME NEW r \in Reqs, NEW u \in Users, NEW f \in Families, NEW j \in Jtis,
             CallRecordLogin(r, u, f, j)
      PROVE  FoundOK'
  BY <1>1 DEF CallRecordLogin, Arrive, Goto, FreshJti
<1>2. ASSUME NEW r \in Reqs, NEW q \in Reqs, NEW j \in Jtis,
             CallRecordRotation(r, q, j)
      PROVE  FoundOK'
  BY <1>2 DEF CallRecordRotation, Arrive, Goto, FreshJti
<1>3. ASSUME NEW r \in Reqs, NEW j \in Jtis, CallRotate(r, j) PROVE FoundOK'
  BY <1>3 DEF CallRotate, Arrive, Goto, Members
<1>4. ASSUME NEW r \in Reqs, NEW j \in Jtis, CallRevokeByJti(r, j) PROVE FoundOK'
  BY <1>4 DEF CallRevokeByJti, Arrive, Goto
<1>5. ASSUME NEW r \in Reqs, NEW f \in Families,
             CallRevokeByFamily(r, f)
      PROVE  FoundOK'
  BY <1>5 DEF CallRevokeByFamily, Arrive, Goto
<1>6. ASSUME NEW r \in Reqs, CallMalformed(r) PROVE FoundOK'
  BY <1>6 DEF CallMalformed, Reply
<1>7. ASSUME NEW r \in Reqs, RecordInsert(r) PROVE FoundOK'
  BY <1>7 DEF RecordInsert, Reply
<1>8. ASSUME NEW r \in Reqs, RotateFind(r) PROVE FoundOK'
  BY <1>8 DEF RotateFind, Reply, Goto
<1>9. ASSUME NEW r \in Reqs, RotateSave(r) PROVE FoundOK'
  BY <1>9 DEF RotateSave, Reply, Goto
<1>10. ASSUME NEW r \in Reqs, RotateGetUser(r) PROVE FoundOK'
  BY <1>10 DEF RotateGetUser, Reply, Goto
<1>11. ASSUME NEW r \in Reqs, RotateRevokeReused(r) PROVE FoundOK'
  BY <1>11 DEF RotateRevokeReused, RevokeStep, RevokeFamily, Members, Reply
<1>12. ASSUME NEW r \in Reqs, RotateRevokeInactive(r) PROVE FoundOK'
  BY <1>12 DEF RotateRevokeInactive, RevokeStep, RevokeFamily, Members, Reply
<1>13. ASSUME NEW r \in Reqs, RevokeFind(r) PROVE FoundOK'
  BY <1>13 DEF RevokeFind, Reply, Goto
<1>14. ASSUME NEW r \in Reqs, RevokeUpdate(r) PROVE FoundOK'
  BY <1>14 DEF RevokeUpdate, RevokeStep, RevokeFamily, Members, Reply
<1>15. ASSUME NEW r \in Reqs, DbError(r) PROVE FoundOK'
  BY <1>15 DEF DbError, Running, Reply
<1>16. ASSUME Crash PROVE FoundOK'
  BY <1>16 DEF Crash, Running
<1>17. ASSUME NEW u \in Users, DeleteUser(u) PROVE FoundOK'
  BY <1>17 DEF DeleteUser
<1>18. CASE UNCHANGED vars
  BY <1>18 DEF vars
<1> QED
  BY <1>1, <1>2, <1>3, <1>4, <1>5, <1>6, <1>7, <1>8, <1>9, <1>10, <1>11,
     <1>12, <1>13, <1>14, <1>15, <1>16, <1>17, <1>18
  DEF Next, Call, Statement

\* rotate re-reads the user only after save() set used, which nothing clears.
LEMMA SavedStep == Base /\ [Next]_vars => SavedOK'
<1> SUFFICES ASSUME Base, [Next]_vars PROVE SavedOK'
  OBVIOUS
<1> USE NoneAssumption, AnswersAssumption DEF Base, table, history, TypeOK,
        AnsweredOK, Answers, SavedOK, Calls, NoCall, Steps
<1>1. ASSUME NEW r \in Reqs, NEW u \in Users, NEW f \in Families, NEW j \in Jtis,
             CallRecordLogin(r, u, f, j)
      PROVE  SavedOK'
  BY <1>1 DEF CallRecordLogin, Arrive, Goto, FreshJti
<1>2. ASSUME NEW r \in Reqs, NEW q \in Reqs, NEW j \in Jtis,
             CallRecordRotation(r, q, j)
      PROVE  SavedOK'
  BY <1>2 DEF CallRecordRotation, Arrive, Goto, FreshJti
<1>3. ASSUME NEW r \in Reqs, NEW j \in Jtis, CallRotate(r, j) PROVE SavedOK'
  BY <1>3 DEF CallRotate, Arrive, Goto, Members
<1>4. ASSUME NEW r \in Reqs, NEW j \in Jtis, CallRevokeByJti(r, j) PROVE SavedOK'
  BY <1>4 DEF CallRevokeByJti, Arrive, Goto
<1>5. ASSUME NEW r \in Reqs, NEW f \in Families,
             CallRevokeByFamily(r, f)
      PROVE  SavedOK'
  BY <1>5 DEF CallRevokeByFamily, Arrive, Goto
<1>6. ASSUME NEW r \in Reqs, CallMalformed(r) PROVE SavedOK'
  BY <1>6 DEF CallMalformed, Reply
<1>7. ASSUME NEW r \in Reqs, RecordInsert(r) PROVE SavedOK'
  BY <1>7 DEF RecordInsert, Reply
<1>8. ASSUME NEW r \in Reqs, RotateFind(r) PROVE SavedOK'
  BY <1>8 DEF RotateFind, Reply, Goto
<1>9. ASSUME NEW r \in Reqs, RotateSave(r) PROVE SavedOK'
  BY <1>9 DEF RotateSave, Reply, Goto
<1>10. ASSUME NEW r \in Reqs, RotateGetUser(r) PROVE SavedOK'
  BY <1>10 DEF RotateGetUser, Reply, Goto
<1>11. ASSUME NEW r \in Reqs, RotateRevokeReused(r) PROVE SavedOK'
  BY <1>11 DEF RotateRevokeReused, RevokeStep, RevokeFamily, Members, Reply
<1>12. ASSUME NEW r \in Reqs, RotateRevokeInactive(r) PROVE SavedOK'
  BY <1>12 DEF RotateRevokeInactive, RevokeStep, RevokeFamily, Members, Reply
<1>13. ASSUME NEW r \in Reqs, RevokeFind(r) PROVE SavedOK'
  BY <1>13 DEF RevokeFind, Reply, Goto
<1>14. ASSUME NEW r \in Reqs, RevokeUpdate(r) PROVE SavedOK'
  BY <1>14 DEF RevokeUpdate, RevokeStep, RevokeFamily, Members, Reply
<1>15. ASSUME NEW r \in Reqs, DbError(r) PROVE SavedOK'
  BY <1>15 DEF DbError, Running, Reply
<1>16. ASSUME Crash PROVE SavedOK'
  BY <1>16 DEF Crash, Running
<1>17. ASSUME NEW u \in Users, DeleteUser(u) PROVE SavedOK'
  BY <1>17 DEF DeleteUser
<1>18. CASE UNCHANGED vars
  BY <1>18 DEF vars
<1> QED
  BY <1>1, <1>2, <1>3, <1>4, <1>5, <1>6, <1>7, <1>8, <1>9, <1>10, <1>11,
     <1>12, <1>13, <1>14, <1>15, <1>16, <1>17, <1>18
  DEF Next, Call, Statement

\* The gateway records a successor only after the rotation was answered, with
\* the family and user of that answer.
LEMMA InsertStep == Base /\ [Next]_vars => InsertOK'
<1> SUFFICES ASSUME Base, [Next]_vars PROVE InsertOK'
  OBVIOUS
<1> USE NoneAssumption, AnswersAssumption DEF Base, table, history, TypeOK,
        AnsweredOK, FoundOK, SavedOK, InsertOK, AtRow, Recorded, Calls,
        NoCall, Steps
<1>1. ASSUME NEW r \in Reqs, NEW u \in Users, NEW f \in Families, NEW j \in Jtis,
             CallRecordLogin(r, u, f, j)
      PROVE  InsertOK'
  BY <1>1 DEF CallRecordLogin, Arrive, Goto, FreshJti
<1>2. ASSUME NEW r \in Reqs, NEW q \in Reqs, NEW j \in Jtis,
             CallRecordRotation(r, q, j)
      PROVE  InsertOK'
  BY <1>2 DEF CallRecordRotation, Arrive, Goto, FreshJti
<1>3. ASSUME NEW r \in Reqs, NEW j \in Jtis, CallRotate(r, j) PROVE InsertOK'
  BY <1>3 DEF CallRotate, Arrive, Goto, Members
<1>4. ASSUME NEW r \in Reqs, NEW j \in Jtis, CallRevokeByJti(r, j) PROVE InsertOK'
  BY <1>4 DEF CallRevokeByJti, Arrive, Goto
<1>5. ASSUME NEW r \in Reqs, NEW f \in Families,
             CallRevokeByFamily(r, f)
      PROVE  InsertOK'
  BY <1>5 DEF CallRevokeByFamily, Arrive, Goto
<1>6. ASSUME NEW r \in Reqs, CallMalformed(r) PROVE InsertOK'
  BY <1>6 DEF CallMalformed, Reply
<1>7. ASSUME NEW r \in Reqs, RecordInsert(r) PROVE InsertOK'
  BY <1>7 DEF RecordInsert, Reply
<1>8. ASSUME NEW r \in Reqs, RotateFind(r) PROVE InsertOK'
  BY <1>8 DEF RotateFind, Reply, Goto
<1>9. ASSUME NEW r \in Reqs, RotateSave(r) PROVE InsertOK'
  BY <1>9 DEF RotateSave, Reply, Goto
<1>10. ASSUME NEW r \in Reqs, RotateGetUser(r) PROVE InsertOK'
  BY <1>10 DEF RotateGetUser, Reply, Goto
<1>11. ASSUME NEW r \in Reqs, RotateRevokeReused(r) PROVE InsertOK'
  BY <1>11 DEF RotateRevokeReused, RevokeStep, RevokeFamily, Members, Reply
<1>12. ASSUME NEW r \in Reqs, RotateRevokeInactive(r) PROVE InsertOK'
  BY <1>12 DEF RotateRevokeInactive, RevokeStep, RevokeFamily, Members, Reply
<1>13. ASSUME NEW r \in Reqs, RevokeFind(r) PROVE InsertOK'
  BY <1>13 DEF RevokeFind, Reply, Goto
<1>14. ASSUME NEW r \in Reqs, RevokeUpdate(r) PROVE InsertOK'
  BY <1>14 DEF RevokeUpdate, RevokeStep, RevokeFamily, Members, Reply
<1>15. ASSUME NEW r \in Reqs, DbError(r) PROVE InsertOK'
  BY <1>15 DEF DbError, Running, Reply
<1>16. ASSUME Crash PROVE InsertOK'
  BY <1>16 DEF Crash, Running
<1>17. ASSUME NEW u \in Users, DeleteUser(u) PROVE InsertOK'
  BY <1>17 DEF DeleteUser
<1>18. CASE UNCHANGED vars
  BY <1>18 DEF vars
<1> QED
  BY <1>1, <1>2, <1>3, <1>4, <1>5, <1>6, <1>7, <1>8, <1>9, <1>10, <1>11,
     <1>12, <1>13, <1>14, <1>15, <1>16, <1>17, <1>18
  DEF Next, Call, Statement

\* Together: what a handler's position says of its row is preserved.
LEMMA BaseStep == Base /\ [Next]_vars => Base'
BY TypeStep, RowsStep, AnsweredStep, FoundStep, SavedStep, InsertStep DEF Base

-----------------------------------------------------------------------------
(* What carries a fact about the arrival of a rotation to its answer. *)

\* A rotation whose token was spent when it arrived never gets as far as save.
StaleOK ==
    \A r \in stale :
        /\ pc[r] \in {"find", "revokeReused", "done", "lost"}
        /\ call[r].jti \in used \cup revoked
        /\ answer[r] # "rotated"

\* A rotation whose user was deleted when it arrived keeps reading that user.
OrphanOK ==
    \A r \in orphan :
        /\ pc[r] \in {"find", "done", "lost"} \/ AtRow(r)
        /\ Recorded(call[r].jti)
        /\ userOf[call[r].jti] \in deleted
        /\ answer[r] # "rotated"

\* The rows a rotation's family had on arrival stay in that family, and are
\* revoked once it answers that it ended the session.
KinOK ==
    \A r \in Reqs, k \in Jtis :
        k \in kin[r] =>
            /\ pc[r] \in {"find", "done", "lost"} \/ AtRow(r)
            /\ Recorded(call[r].jti) /\ Recorded(k)
            /\ familyOf[k] = familyOf[call[r].jti]
            /\ answer[r] \in {"reused-revoked", "inactive"} => k \in revoked

\* The first token of a login is inserted in a family that is still empty.
RootOK ==
    \A r \in Reqs :
        pc[r] = "insert" /\ call[r].parentJti = None =>
            /\ Members(call[r].familyId) = {}
            /\ \A s \in Reqs \ {r} :
                  pc[s] = "insert" => call[s].familyId # call[r].familyId

\* rotate's early returns on revoked_at and used keep a spent token from save():
\* both columns only grow.
LEMMA StaleStep == Base /\ StaleOK /\ [Next]_vars => StaleOK'
<1> SUFFICES ASSUME Base, StaleOK, [Next]_vars PROVE StaleOK'
  OBVIOUS
<1> USE NoneAssumption, AnswersAssumption DEF Base, table, history, StaleOK,
        AnsweredOK, TypeOK, Recorded, Calls, NoCall, Steps, Answers
<1>1. ASSUME NEW r \in Reqs, NEW u \in Users, NEW f \in Families, NEW j \in Jtis,
             CallRecordLogin(r, u, f, j)
      PROVE  StaleOK'
  BY <1>1 DEF CallRecordLogin, Arrive, Goto, FreshJti
<1>2. ASSUME NEW r \in Reqs, NEW q \in Reqs, NEW j \in Jtis,
             CallRecordRotation(r, q, j)
      PROVE  StaleOK'
  BY <1>2 DEF CallRecordRotation, Arrive, Goto, FreshJti
<1>3. ASSUME NEW r \in Reqs, NEW j \in Jtis, CallRotate(r, j) PROVE StaleOK'
  BY <1>3 DEF CallRotate, Arrive, Goto, Members
<1>4. ASSUME NEW r \in Reqs, NEW j \in Jtis, CallRevokeByJti(r, j) PROVE StaleOK'
  BY <1>4 DEF CallRevokeByJti, Arrive, Goto
<1>5. ASSUME NEW r \in Reqs, NEW f \in Families,
             CallRevokeByFamily(r, f)
      PROVE  StaleOK'
  BY <1>5 DEF CallRevokeByFamily, Arrive, Goto
<1>6. ASSUME NEW r \in Reqs, CallMalformed(r) PROVE StaleOK'
  BY <1>6 DEF CallMalformed, Reply
<1>7. ASSUME NEW r \in Reqs, RecordInsert(r) PROVE StaleOK'
  BY <1>7 DEF RecordInsert, Reply
<1>8. ASSUME NEW r \in Reqs, RotateFind(r) PROVE StaleOK'
  BY <1>8 DEF RotateFind, Reply, Goto
<1>9. ASSUME NEW r \in Reqs, RotateSave(r) PROVE StaleOK'
  BY <1>9 DEF RotateSave, Reply, Goto
<1>10. ASSUME NEW r \in Reqs, RotateGetUser(r) PROVE StaleOK'
  BY <1>10 DEF RotateGetUser, Reply, Goto
<1>11. ASSUME NEW r \in Reqs, RotateRevokeReused(r) PROVE StaleOK'
  BY <1>11 DEF RotateRevokeReused, RevokeStep, RevokeFamily, Members, Reply
<1>12. ASSUME NEW r \in Reqs, RotateRevokeInactive(r) PROVE StaleOK'
  BY <1>12 DEF RotateRevokeInactive, RevokeStep, RevokeFamily, Members, Reply
<1>13. ASSUME NEW r \in Reqs, RevokeFind(r) PROVE StaleOK'
  BY <1>13 DEF RevokeFind, Reply, Goto
<1>14. ASSUME NEW r \in Reqs, RevokeUpdate(r) PROVE StaleOK'
  BY <1>14 DEF RevokeUpdate, RevokeStep, RevokeFamily, Members, Reply
<1>15. ASSUME NEW r \in Reqs, DbError(r) PROVE StaleOK'
  BY <1>15 DEF DbError, Running, Reply
<1>16. ASSUME Crash PROVE StaleOK'
  BY <1>16 DEF Crash, Running
<1>17. ASSUME NEW u \in Users, DeleteUser(u) PROVE StaleOK'
  BY <1>17 DEF DeleteUser
<1>18. CASE UNCHANGED vars
  BY <1>18 DEF vars
<1> QED
  BY <1>1, <1>2, <1>3, <1>4, <1>5, <1>6, <1>7, <1>8, <1>9, <1>10, <1>11,
     <1>12, <1>13, <1>14, <1>15, <1>16, <1>17, <1>18
  DEF Next, Call, Statement

\* getUser excludes deleted rows and a deletion is never undone, so the user read
\* after save() is found deleted too.
LEMMA OrphanStep == Base /\ OrphanOK /\ [Next]_vars => OrphanOK'
<1> SUFFICES ASSUME Base, OrphanOK, [Next]_vars PROVE OrphanOK'
  OBVIOUS
<1> USE NoneAssumption, AnswersAssumption DEF Base, table, history, OrphanOK,
        AtRow, AnsweredOK, TypeOK, Recorded, Calls, NoCall, Steps, Answers
<1>1. ASSUME NEW r \in Reqs, NEW u \in Users, NEW f \in Families, NEW j \in Jtis,
             CallRecordLogin(r, u, f, j)
      PROVE  OrphanOK'
  BY <1>1 DEF CallRecordLogin, Arrive, Goto, FreshJti
<1>2. ASSUME NEW r \in Reqs, NEW q \in Reqs, NEW j \in Jtis,
             CallRecordRotation(r, q, j)
      PROVE  OrphanOK'
  BY <1>2 DEF CallRecordRotation, Arrive, Goto, FreshJti
<1>3. ASSUME NEW r \in Reqs, NEW j \in Jtis, CallRotate(r, j) PROVE OrphanOK'
  BY <1>3 DEF CallRotate, Arrive, Goto, Members
<1>4. ASSUME NEW r \in Reqs, NEW j \in Jtis, CallRevokeByJti(r, j) PROVE OrphanOK'
  BY <1>4 DEF CallRevokeByJti, Arrive, Goto
<1>5. ASSUME NEW r \in Reqs, NEW f \in Families,
             CallRevokeByFamily(r, f)
      PROVE  OrphanOK'
  BY <1>5 DEF CallRevokeByFamily, Arrive, Goto
<1>6. ASSUME NEW r \in Reqs, CallMalformed(r) PROVE OrphanOK'
  BY <1>6 DEF CallMalformed, Reply
<1>7. ASSUME NEW r \in Reqs, RecordInsert(r) PROVE OrphanOK'
  BY <1>7 DEF RecordInsert, Reply
<1>8. ASSUME NEW r \in Reqs, RotateFind(r) PROVE OrphanOK'
  BY <1>8 DEF RotateFind, Reply, Goto
<1>9. ASSUME NEW r \in Reqs, RotateSave(r) PROVE OrphanOK'
  BY <1>9 DEF RotateSave, Reply, Goto
<1>10. ASSUME NEW r \in Reqs, RotateGetUser(r) PROVE OrphanOK'
  BY <1>10 DEF RotateGetUser, Reply, Goto
<1>11. ASSUME NEW r \in Reqs, RotateRevokeReused(r) PROVE OrphanOK'
  BY <1>11 DEF RotateRevokeReused, RevokeStep, RevokeFamily, Members, Reply
<1>12. ASSUME NEW r \in Reqs, RotateRevokeInactive(r) PROVE OrphanOK'
  BY <1>12 DEF RotateRevokeInactive, RevokeStep, RevokeFamily, Members, Reply
<1>13. ASSUME NEW r \in Reqs, RevokeFind(r) PROVE OrphanOK'
  BY <1>13 DEF RevokeFind, Reply, Goto
<1>14. ASSUME NEW r \in Reqs, RevokeUpdate(r) PROVE OrphanOK'
  BY <1>14 DEF RevokeUpdate, RevokeStep, RevokeFamily, Members, Reply
<1>15. ASSUME NEW r \in Reqs, DbError(r) PROVE OrphanOK'
  BY <1>15 DEF DbError, Running, Reply
<1>16. ASSUME Crash PROVE OrphanOK'
  BY <1>16 DEF Crash, Running
<1>17. ASSUME NEW u \in Users, DeleteUser(u) PROVE OrphanOK'
  BY <1>17 DEF DeleteUser
<1>18. CASE UNCHANGED vars
  BY <1>18 DEF vars
<1> QED
  BY <1>1, <1>2, <1>3, <1>4, <1>5, <1>6, <1>7, <1>8, <1>9, <1>10, <1>11,
     <1>12, <1>13, <1>14, <1>15, <1>16, <1>17, <1>18
  DEF Next, Call, Statement

\* revokeFamily takes the whole family the handler read, so every row that was
\* there on arrival is revoked before rotate answers.
LEMMA KinStep == Base /\ KinOK /\ [Next]_vars => KinOK'
<1> SUFFICES ASSUME Base, KinOK, [Next]_vars PROVE KinOK'
  OBVIOUS
<1> USE NoneAssumption, AnswersAssumption DEF Base, table, history, KinOK,
        AtRow, FoundOK, Members, AnsweredOK, TypeOK, Recorded, Calls, NoCall,
        Steps, Answers
<1>1. ASSUME NEW r \in Reqs, NEW u \in Users, NEW f \in Families, NEW j \in Jtis,
             CallRecordLogin(r, u, f, j)
      PROVE  KinOK'
  BY <1>1 DEF CallRecordLogin, Arrive, Goto, FreshJti
<1>2. ASSUME NEW r \in Reqs, NEW q \in Reqs, NEW j \in Jtis,
             CallRecordRotation(r, q, j)
      PROVE  KinOK'
  BY <1>2 DEF CallRecordRotation, Arrive, Goto, FreshJti
<1>3. ASSUME NEW r \in Reqs, NEW j \in Jtis, CallRotate(r, j) PROVE KinOK'
  BY <1>3 DEF CallRotate, Arrive, Goto
<1>4. ASSUME NEW r \in Reqs, NEW j \in Jtis, CallRevokeByJti(r, j) PROVE KinOK'
  BY <1>4 DEF CallRevokeByJti, Arrive, Goto
<1>5. ASSUME NEW r \in Reqs, NEW f \in Families,
             CallRevokeByFamily(r, f)
      PROVE  KinOK'
  BY <1>5 DEF CallRevokeByFamily, Arrive, Goto
<1>6. ASSUME NEW r \in Reqs, CallMalformed(r) PROVE KinOK'
  BY <1>6 DEF CallMalformed, Reply
<1>7. ASSUME NEW r \in Reqs, RecordInsert(r) PROVE KinOK'
  BY <1>7 DEF RecordInsert, Reply
<1>8. ASSUME NEW r \in Reqs, RotateFind(r) PROVE KinOK'
  BY <1>8 DEF RotateFind, Reply, Goto
<1>9. ASSUME NEW r \in Reqs, RotateSave(r) PROVE KinOK'
  BY <1>9 DEF RotateSave, Reply, Goto
<1>10. ASSUME NEW r \in Reqs, RotateGetUser(r) PROVE KinOK'
  BY <1>10 DEF RotateGetUser, Reply, Goto
<1>11. ASSUME NEW r \in Reqs, RotateRevokeReused(r) PROVE KinOK'
  BY <1>11 DEF RotateRevokeReused, RevokeStep, RevokeFamily, Reply
<1>12. ASSUME NEW r \in Reqs, RotateRevokeInactive(r) PROVE KinOK'
  BY <1>12 DEF RotateRevokeInactive, RevokeStep, RevokeFamily, Reply
<1>13. ASSUME NEW r \in Reqs, RevokeFind(r) PROVE KinOK'
  BY <1>13 DEF RevokeFind, Reply, Goto
<1>14. ASSUME NEW r \in Reqs, RevokeUpdate(r) PROVE KinOK'
  BY <1>14 DEF RevokeUpdate, RevokeStep, RevokeFamily, Reply
<1>15. ASSUME NEW r \in Reqs, DbError(r) PROVE KinOK'
  BY <1>15 DEF DbError, Running, Reply
<1>16. ASSUME Crash PROVE KinOK'
  BY <1>16 DEF Crash, Running
<1>17. ASSUME NEW u \in Users, DeleteUser(u) PROVE KinOK'
  BY <1>17 DEF DeleteUser
<1>18. CASE UNCHANGED vars
  BY <1>18 DEF vars
<1> QED
  BY <1>1, <1>2, <1>3, <1>4, <1>5, <1>6, <1>7, <1>8, <1>9, <1>10, <1>11,
     <1>12, <1>13, <1>14, <1>15, <1>16, <1>17, <1>18
  DEF Next, Call, Statement

\* A family id is drawn once, by the login, and no other handler inserts in it
\* before the login's record did.
LEMMA RootStep == Base /\ RootOK /\ [Next]_vars => RootOK'
<1> SUFFICES ASSUME Base, RootOK, [Next]_vars PROVE RootOK'
  OBVIOUS
<1> USE NoneAssumption, AnswersAssumption DEF Base, table, history, RootOK,
        Members, InsertOK, FoundOK, AtRow, FreshFamily, TypeOK, Recorded,
        Calls, NoCall, Steps, Answers
<1>1. ASSUME NEW r \in Reqs, NEW u \in Users, NEW f \in Families, NEW j \in Jtis,
             CallRecordLogin(r, u, f, j)
      PROVE  RootOK'
  BY <1>1 DEF CallRecordLogin, Arrive, Goto, FreshJti
<1>2. ASSUME NEW r \in Reqs, NEW q \in Reqs, NEW j \in Jtis,
             CallRecordRotation(r, q, j)
      PROVE  RootOK'
  BY <1>2 DEF CallRecordRotation, Arrive, Goto, FreshJti
<1>3. ASSUME NEW r \in Reqs, NEW j \in Jtis, CallRotate(r, j) PROVE RootOK'
  BY <1>3 DEF CallRotate, Arrive, Goto
<1>4. ASSUME NEW r \in Reqs, NEW j \in Jtis, CallRevokeByJti(r, j) PROVE RootOK'
  BY <1>4 DEF CallRevokeByJti, Arrive, Goto
<1>5. ASSUME NEW r \in Reqs, NEW f \in Families,
             CallRevokeByFamily(r, f)
      PROVE  RootOK'
  BY <1>5 DEF CallRevokeByFamily, Arrive, Goto
<1>6. ASSUME NEW r \in Reqs, CallMalformed(r) PROVE RootOK'
  BY <1>6 DEF CallMalformed, Reply
<1>7. ASSUME NEW r \in Reqs, RecordInsert(r) PROVE RootOK'
  BY <1>7 DEF RecordInsert, Reply
<1>8. ASSUME NEW r \in Reqs, RotateFind(r) PROVE RootOK'
  BY <1>8 DEF RotateFind, Reply, Goto
<1>9. ASSUME NEW r \in Reqs, RotateSave(r) PROVE RootOK'
  BY <1>9 DEF RotateSave, Reply, Goto
<1>10. ASSUME NEW r \in Reqs, RotateGetUser(r) PROVE RootOK'
  BY <1>10 DEF RotateGetUser, Reply, Goto
<1>11. ASSUME NEW r \in Reqs, RotateRevokeReused(r) PROVE RootOK'
  BY <1>11 DEF RotateRevokeReused, RevokeStep, RevokeFamily, Reply
<1>12. ASSUME NEW r \in Reqs, RotateRevokeInactive(r) PROVE RootOK'
  BY <1>12 DEF RotateRevokeInactive, RevokeStep, RevokeFamily, Reply
<1>13. ASSUME NEW r \in Reqs, RevokeFind(r) PROVE RootOK'
  BY <1>13 DEF RevokeFind, Reply, Goto
<1>14. ASSUME NEW r \in Reqs, RevokeUpdate(r) PROVE RootOK'
  BY <1>14 DEF RevokeUpdate, RevokeStep, RevokeFamily, Reply
<1>15. ASSUME NEW r \in Reqs, DbError(r) PROVE RootOK'
  BY <1>15 DEF DbError, Running, Reply
<1>16. ASSUME Crash PROVE RootOK'
  BY <1>16 DEF Crash, Running
<1>17. ASSUME NEW u \in Users, DeleteUser(u) PROVE RootOK'
  BY <1>17 DEF DeleteUser
<1>18. CASE UNCHANGED vars
  BY <1>18 DEF vars
<1> QED
  BY <1>1, <1>2, <1>3, <1>4, <1>5, <1>6, <1>7, <1>8, <1>9, <1>10, <1>11,
     <1>12, <1>13, <1>14, <1>15, <1>16, <1>17, <1>18
  DEF Next, Call, Statement

-----------------------------------------------------------------------------
(* The invariants that speak of the table alone. *)

\* INSERT adds a row whose parent is used and of its family; the UPDATEs only
\* add to used and revoked_at.
LEMMA LineageStep == Base /\ LineageWellFormed /\ [Next]_vars => LineageWellFormed'
<1> SUFFICES ASSUME Base, LineageWellFormed, [Next]_vars PROVE LineageWellFormed'
  OBVIOUS
<1> USE NoneAssumption, AnswersAssumption DEF Base, history,
        LineageWellFormed, RowsOK, FoundOK, AtRow, InsertOK, TypeOK, Recorded,
        Calls, NoCall, Steps, Answers
<1>1. ASSUME ReadOnly PROVE LineageWellFormed'
  BY <1>1, ReadOnlyLeavesTable
<1>2. ASSUME NEW r \in Reqs, RecordInsert(r) PROVE LineageWellFormed'
  BY <1>2 DEF RecordInsert
<1>3. ASSUME NEW r \in Reqs, RotateSave(r) PROVE LineageWellFormed'
  BY <1>3 DEF RotateSave
<1>4. ASSUME NEW r \in Reqs, NEW a, NEW step, RevokeStep(r, step, a)
      PROVE  LineageWellFormed'
  BY <1>4 DEF RevokeStep, RevokeFamily
<1> QED
  BY <1>1, <1>2, <1>3, <1>4, StepKinds DEF Write

\* revokeFamily's WHERE takes every row without revoked_at, so a live row beside
\* a revoked one was inserted later.
LEMMA TotalStep == Base /\ RevocationTotal /\ [Next]_vars => RevocationTotal'
<1> SUFFICES ASSUME Base, RevocationTotal, [Next]_vars PROVE RevocationTotal'
  OBVIOUS
<1> USE NoneAssumption, AnswersAssumption DEF Base, history, RevocationTotal,
        RowsOK, Members, FamilyRevoked, TypeOK, Recorded, Calls, NoCall,
        Steps, Answers
<1>1. ASSUME ReadOnly PROVE RevocationTotal'
  BY <1>1, ReadOnlyLeavesTable
<1>2. ASSUME NEW r \in Reqs, RecordInsert(r) PROVE RevocationTotal'
  BY <1>2 DEF RecordInsert
<1>3. ASSUME NEW r \in Reqs, RotateSave(r) PROVE RevocationTotal'
  BY <1>3 DEF RotateSave
<1>4. ASSUME NEW r \in Reqs, NEW a, NEW step, RevokeStep(r, step, a)
      PROVE  RevocationTotal'
  BY <1>4 DEF RevokeStep, RevokeFamily
<1> QED
  BY <1>1, <1>2, <1>3, <1>4, StepKinds DEF Write

-----------------------------------------------------------------------------
(* Theorems *)

\* The inductive invariant.
IInv ==
    /\ Base
    /\ LineageWellFormed
    /\ StaleOK
    /\ OrphanOK
    /\ KinOK
    /\ RevocationTotal
    /\ RootOK

\* An empty table and idle handlers satisfy every conjunct.
LEMMA InvInit == Init => IInv
<1>1. Init => Base
  BY BaseInit
<1>2. Init => LineageWellFormed /\ RevocationTotal
  BY DEF Init, LineageWellFormed, RevocationTotal, Recorded
<1>3. Init => StaleOK /\ OrphanOK /\ KinOK
  BY DEF Init, StaleOK, OrphanOK, KinOK
<1>4. Init => RootOK
  BY DEF Init, RootOK
<1> QED
  BY <1>1, <1>2, <1>3, <1>4 DEF IInv

\* The lemmas above, together: no step of any handler breaks IInv.
LEMMA InvStep == IInv /\ [Next]_vars => IInv'
BY BaseStep, LineageStep, StaleStep, OrphanStep, KinStep, TotalStep, RootStep DEF IInv

\* The table and every handler in flight are related as the conjuncts of IInv say
\* in every reachable state of record, rotate and revoke.
THEOREM Invariance == Spec => []IInv
BY InvInit, InvStep, PTL DEF Spec

\* Columns and handler locals have their types, and no statement is reached with
\* a parameter missing: the 400 checks and findOne's null check come first.
THEOREM TypeCorrect == Spec => []TypeOK
<1>1. IInv => TypeOK
  BY DEF IInv, Base
<1> QED
  BY <1>1, Invariance, PTL

\* A token presented after it was used or its family revoked is never exchanged,
\* however rotations, revocations, failures and restarts interleave.
THEOREM SpentTokensStaySpent == Spec => []SpentNeverRotates
<1>1. IInv => SpentNeverRotates
  BY DEF IInv, StaleOK, SpentNeverRotates
<1> QED
  BY <1>1, Invariance, PTL

\* A rotation that arrives after its user was soft-deleted is never answered 200.
THEOREM DeletedUsersLoseAccess == Spec => []DeletedNeverRotates
<1>1. IInv => DeletedNeverRotates
  BY DEF IInv, OrphanOK, DeletedNeverRotates
<1> QED
  BY <1>1, Invariance, PTL

\* When rotate answers reused-revoked or inactive, every row its family had on
\* arrival is revoked.
THEOREM ReuseEndsTheSession == Spec => []ReuseRevokesKin
<1>1. IInv => ReuseRevokesKin
  BY DEF IInv, Base, TypeOK, KinOK, ReuseRevokesKin
<1> QED
  BY <1>1, Invariance, PTL

\* revokeFamily leaves no live row behind: one beside a revoked row was recorded
\* after the revocation.
THEOREM RevocationIsTotal == Spec => []RevocationTotal
<1>1. IInv => RevocationTotal
  BY DEF IInv
<1> QED
  BY <1>1, Invariance, PTL

\* A row's parent is a used row of the same family and user, across every
\* interleaving of record with rotate.
THEOREM LineagesAreWellFormed == Spec => []LineageWellFormed
<1>1. IInv => LineageWellFormed
  BY DEF IInv
<1> QED
  BY <1>1, Invariance, PTL

\* record's INSERT starts a lineage after a login and extends one after a rotation.
LEMMA InsertImplements ==
    ASSUME IInv, NEW r \in Reqs, RecordInsert(r)
    PROVE  Lineage!Next
<1> USE NoneAssumption DEF IInv, Base
<1> DEFINE j == call[r].jti
           f == call[r].familyId
           p == call[r].parentJti
<1>1. j \in Jtis /\ f \in Families /\ p \in Jtis \cup {None}
  BY DEF RecordInsert, TypeOK, Steps, Calls
<1>2. Lineage!Issue(j, f)
  BY <1>1 DEF RecordInsert, Recorded, Lineage!Issue, Lineage!Issued
<1>3. CASE p = None
  <2>1. Lineage!TokensOf(f) = {}
    BY <1>3 DEF RecordInsert, RootOK, Members, Recorded, Lineage!TokensOf, Lineage!Issued
  <2>2. Lineage!StartLineage(j, f)
    BY <1>2, <2>1 DEF Lineage!StartLineage
  <2> QED
    BY <1>1, <2>2 DEF Lineage!Next
<1>4. CASE p # None
  <2>1. p \in Lineage!Issued \cap used /\ familyOf[p] = f
    BY <1>1, <1>4 DEF RecordInsert, InsertOK, Recorded, Lineage!Issued
  <2>2. Lineage!Succeed(j, p)
    BY <1>2, <2>1 DEF Lineage!Succeed
  <2> QED
    BY <1>1, <1>4, <2>2 DEF Lineage!Next
<1> QED
  BY <1>3, <1>4

\* rotate's save() spends an issued token.
LEMMA SaveImplements ==
    ASSUME IInv, NEW r \in Reqs, RotateSave(r)
    PROVE  Lineage!Next
<1>1. call[r].jti \in Lineage!Issued
  BY DEF IInv, Base, FoundOK, AtRow, RotateSave, Recorded, Lineage!Issued
<1>2. Lineage!Spend(call[r].jti)
  BY <1>1 DEF RotateSave, Lineage!Spend
<1> QED
  BY <1>1, <1>2 DEF Lineage!Next, Lineage!Issued

\* revokeFamily's UPDATE revokes all tokens the lineage has at that moment.
LEMMA RevokeImplements ==
    ASSUME IInv, NEW r \in Reqs, NEW a,
           NEW step \in {"revokeReused", "revokeInactive", "revokeFamily"},
           RevokeStep(r, step, a)
    PROVE  Lineage!Next
<1>1. call[r].familyId \in Families
  BY DEF IInv, Base, TypeOK, Steps, RevokeStep
<1>2. Members(call[r].familyId) = Lineage!TokensOf(call[r].familyId)
  BY DEF Members, Recorded, Lineage!TokensOf, Lineage!Issued
<1>3. Lineage!Revoke(call[r].familyId)
  BY <1>2 DEF RevokeStep, RevokeFamily, Lineage!Revoke
<1> QED
  BY <1>1, <1>3 DEF Lineage!Next

\* The handlers, cut at every SQL statement, implement the atomic operations of
\* SessionLineage: the table moves only by Issue, Spend and Revoke.
THEOREM Implementation == Spec => ImplementsLineage
<1>1. Init => Lineage!Init
  BY DEF Init, Lineage!Init
<1>2. IInv /\ [Next]_vars => [Lineage!Next]_(Lineage!vars)
  <2> SUFFICES ASSUME IInv, [Next]_vars PROVE [Lineage!Next]_(Lineage!vars)
    OBVIOUS
  <2>1. CASE ReadOnly
    BY <2>1, ReadOnlyLeavesTable DEF Lineage!vars
  <2>2. CASE \E r \in Reqs : Write(r)
    BY <2>2, InsertImplements, SaveImplements, RevokeImplements DEF Write
  <2> QED
    BY <2>1, <2>2, StepKinds
<1> QED
  BY <1>1, <1>2, Invariance, PTL DEF Spec, ImplementsLineage, Lineage!Spec

\* The action inside NothingUndone.
NothingUndoneStep ==
    /\ used \subseteq used'
    /\ revoked \subseteq revoked'
    /\ \A j \in Jtis : Recorded(j) =>
          /\ familyOf'[j] = familyOf[j]
          /\ userOf'[j] = userOf[j]
          /\ parentOf'[j] = parentOf[j]

\* The UPDATEs add to used and revoked_at, and an INSERT writes a new row only.
LEMMA UndoneStep == IInv /\ [Next]_vars => [NothingUndoneStep]_vars
<1> SUFFICES ASSUME IInv, [Next]_vars PROVE NothingUndoneStep
  OBVIOUS
<1>1. CASE ReadOnly
  BY <1>1, ReadOnlyLeavesTable DEF NothingUndoneStep
<1>2. ASSUME NEW r \in Reqs, RecordInsert(r) PROVE NothingUndoneStep
  BY <1>2 DEF NothingUndoneStep, RecordInsert, IInv, Base, TypeOK
<1>3. ASSUME NEW r \in Reqs, RotateSave(r) PROVE NothingUndoneStep
  BY <1>3 DEF NothingUndoneStep, RotateSave
<1>4. ASSUME NEW r \in Reqs, NEW step, NEW a, RevokeStep(r, step, a)
      PROVE  NothingUndoneStep
  BY <1>4 DEF NothingUndoneStep, RevokeStep, RevokeFamily
<1> QED
  BY <1>1, <1>2, <1>3, <1>4, StepKinds DEF Write

\* No step clears used or revoked_at or rewrites a row's family, user or parent.
THEOREM NothingIsUndone == Spec => NothingUndone
BY UndoneStep, Invariance, PTL DEF Spec, NothingUndone, NothingUndoneStep
=============================================================================
