----------------------- MODULE FederatedIdentityProofs -----------------------
(***************************************************************************)
(* Proofs about FederatedIdentity, for any users, providers, subjects,      *)
(* addresses and requests: an identity is one user, a claim gives nothing,  *)
(* a deleted user is not resolved, and the loser of a race finds the winner. *)
(***************************************************************************)
EXTENDS FederatedIdentity, TLAPS

\* What a handler holds at each of its statements. Before it has finished it has
\* answered nothing, and it is in the transaction only with a verified address.
FlowOK ==
    \A r \in Reqs :
        /\ pc[r] = "idle" => call[r] = None
        /\ pc[r] # "done" => answer[r] = "none"
        /\ pc[r] \in Steps \/ answer[r] = "resolved" => call[r] \in Calls
        /\ pc[r] \in {"findLocal", "createUser", "insertIdentity", "commit"}
              => call[r].verified

\* A user who has been deleted has a row, and none of a transaction's users was
\* deleted before its request arrived.
BarredOK ==
    /\ \A u \in deleted : email[u] # None
    /\ \A r \in Reqs :
        /\ barred[r] \subseteq deleted
        /\ pc[r] \in {"insertIdentity", "commit"} => user[r] \notin barred[r]

\* The unique indexes: identities, committed or not, do not clash.
IndexOK ==
    /\ \A i, j \in identities : Clash(i, j) => i = j
    /\ \A r \in Reqs : pc[r] = "commit" <=> r \in linked
    /\ \A r \in linked : \A i \in identities : ~Clash(i, Row(r))
    /\ \A q, r \in linked : Clash(Row(q), Row(r)) => q = r

\* A handler that looked an identity up, or has resolved one, holds its user.
HeldOK ==
    \A r \in Reqs :
        pc[r] \in {"getUser", "getRaced"} \/ answer[r] = "resolved"
            => Row(r) \in identities

IInv ==
    /\ TypeOK /\ FlowOK /\ BarredOK /\ IndexOK /\ HeldOK
    /\ DeletedNeverResolved /\ ClaimsGiveNothing /\ FederatedUserCanSignIn

\* Before the first request only the founders have rows, and nobody is ADMIN.
LEMMA InitInv == Init => IInv
<1> SUFFICES ASSUME Init PROVE IInv
  OBVIOUS
<1> USE DEF Init
<1>1. TypeOK
  BY FoundersAssumption DEF TypeOK, Steps, Answers, Permissions
<1>2. FlowOK /\ HeldOK
  BY DEF FlowOK, HeldOK, Steps
<1>3. BarredOK /\ IndexOK
  BY DEF BarredOK, IndexOK
<1>4. DeletedNeverResolved /\ FederatedUserCanSignIn
  BY DEF DeletedNeverResolved, FederatedUserCanSignIn
<1>5. ClaimsGiveNothing
  BY DEF ClaimsGiveNothing, AdminIsGranted, LinksAreVerified
<1> QED
  BY <1>1, <1>2, <1>3, <1>4, <1>5 DEF IInv

\* Every statement keeps the types, and one that binds a user id has it.
LEMMA TypeStep == TypeOK /\ FlowOK /\ [Next]_vars => TypeOK'
<1> SUFFICES ASSUME TypeOK, FlowOK, [Next]_vars PROVE TypeOK'
  OBVIOUS
<1> USE NormalAssumption, NoneAssumption DEF table, uncommitted, history, TypeOK,
        FlowOK, Steps, Answers, Calls, Identities, Row
<1>1. ASSUME NEW r \in Reqs, NEW p \in Providers, NEW s \in Subjects, NEW c \in Claims,
             NEW v \in BOOLEAN, NEW g \in SUBSET Permissions, Resolve(r, p, s, c, v, g)
      PROVE  TypeOK'
  BY <1>1 DEF Resolve, Goto
<1>2. ASSUME NEW r \in Reqs, Invalid(r) PROVE TypeOK'
  BY <1>2 DEF Invalid, Reply
<1>3. ASSUME NEW r \in Reqs, FindIdentity(r) PROVE TypeOK'
  BY <1>3 DEF FindIdentity, Known, Hold, Unknown, Goto, Reply
<1>4. ASSUME NEW r \in Reqs, GetUser(r) PROVE TypeOK'
  BY <1>4 DEF GetUser, Unknown, Goto, Reply
<1>5. ASSUME NEW r \in Reqs, FindLocal(r) PROVE TypeOK'
  BY <1>5 DEF FindLocal, Live, Hold, Goto
<1>6. ASSUME NEW r \in Reqs, CreateUser(r) PROVE TypeOK'
  BY <1>6 DEF CreateUser, Free, Hold, Rollback, Goto
<1>7. ASSUME NEW r \in Reqs, InsertIdentity(r) PROVE TypeOK'
  BY <1>7 DEF InsertIdentity, Rollback, Goto
<1>8. ASSUME NEW r \in Reqs, Commit(r) PROVE TypeOK'
  <2>1. Row(r) \in Identities /\ call[r].email \in Emails
    BY <1>8 DEF Commit
  <2>2. Sanitize(call[r].suggested) \in SUBSET Permissions
    BY <1>8 DEF Commit, Sanitize, Permissions
  <2>3. /\ email' \in [Users -> Emails \cup {None}]
        /\ permissions' \in [Users -> SUBSET Permissions]
        /\ federated' \subseteq Users
    BY <1>8, <2>1, <2>2 DEF Commit
  <2> QED
    BY <1>8, <2>1, <2>3 DEF Commit, Rollback, Reply
<1>9. ASSUME NEW r \in Reqs, FindRaced(r) PROVE TypeOK'
  BY <1>9 DEF FindRaced, Known, Hold, Goto, Reply
<1>10. ASSUME NEW r \in Reqs, GetRaced(r) PROVE TypeOK'
  BY <1>10 DEF GetRaced, Reply
<1>11. ASSUME NEW r \in Reqs, DbError(r) PROVE TypeOK'
  BY <1>11 DEF DbError, Running, Rollback, Reply
<1>12. ASSUME Crash PROVE TypeOK'
  BY <1>12 DEF Crash, Running
<1>13. ASSUME NEW u \in Users, DeleteUser(u) PROVE TypeOK'
  BY <1>13 DEF DeleteUser, Unchanged, Live
<1>14. ASSUME NEW u \in Users, NEW e \in Emails, ChangeEmail(u, e) PROVE TypeOK'
  BY <1>14 DEF ChangeEmail, Unchanged
<1>15. ASSUME NEW u \in Users, GrantAdmin(u) PROVE TypeOK'
  BY <1>15 DEF GrantAdmin, Unchanged, Permissions
<1>16. CASE UNCHANGED vars
  BY <1>16 DEF vars
<1>17. {{}, {"ADMIN", "WRITE_SOME_ENTITY"}} \subseteq SUBSET Permissions
  BY DEF Permissions
<1> QED
  BY <1>1, <1>2, <1>3, <1>4, <1>5, <1>6, <1>7, <1>8, <1>9, <1>10, <1>11, <1>12,
     <1>13, <1>14, <1>15, <1>16, <1>17
  DEF Next, Send, Statement

\* A handler moves with its request, and only a verified address enters the transaction.
LEMMA FlowStep == TypeOK /\ FlowOK /\ [Next]_vars => FlowOK'
<1> SUFFICES ASSUME TypeOK, FlowOK, [Next]_vars PROVE FlowOK'
  OBVIOUS
<1> USE NormalAssumption DEF table, uncommitted, history, TypeOK, FlowOK, Steps, Answers, Calls
<1>1. ASSUME NEW r \in Reqs, NEW p \in Providers, NEW s \in Subjects, NEW c \in Claims,
             NEW v \in BOOLEAN, NEW g \in SUBSET Permissions, Resolve(r, p, s, c, v, g)
      PROVE  FlowOK'
  BY <1>1 DEF Resolve, Goto
<1>2. ASSUME NEW r \in Reqs, Invalid(r) PROVE FlowOK'
  BY <1>2 DEF Invalid, Reply
<1>3. ASSUME NEW r \in Reqs, FindIdentity(r) PROVE FlowOK'
  BY <1>3 DEF FindIdentity, Known, Hold, Unknown, Goto, Reply
<1>4. ASSUME NEW r \in Reqs, GetUser(r) PROVE FlowOK'
  BY <1>4 DEF GetUser, Unknown, Goto, Reply
<1>5. ASSUME NEW r \in Reqs, FindLocal(r) PROVE FlowOK'
  BY <1>5 DEF FindLocal, Live, Hold, Goto
<1>6. ASSUME NEW r \in Reqs, CreateUser(r) PROVE FlowOK'
  BY <1>6 DEF CreateUser, Free, Hold, Rollback, Goto
<1>7. ASSUME NEW r \in Reqs, InsertIdentity(r) PROVE FlowOK'
  BY <1>7 DEF InsertIdentity, Rollback, Goto
<1>8. ASSUME NEW r \in Reqs, Commit(r) PROVE FlowOK'
  BY <1>8 DEF Commit, Rollback, Reply
<1>9. ASSUME NEW r \in Reqs, FindRaced(r) PROVE FlowOK'
  BY <1>9 DEF FindRaced, Known, Hold, Goto, Reply
<1>10. ASSUME NEW r \in Reqs, GetRaced(r) PROVE FlowOK'
  BY <1>10 DEF GetRaced, Reply
<1>11. ASSUME NEW r \in Reqs, DbError(r) PROVE FlowOK'
  BY <1>11 DEF DbError, Running, Rollback, Reply
<1>12. ASSUME Crash PROVE FlowOK'
  BY <1>12 DEF Crash, Running
<1>13. ASSUME NEW u \in Users, DeleteUser(u) PROVE FlowOK'
  BY <1>13 DEF DeleteUser, Unchanged, Live
<1>14. ASSUME NEW u \in Users, NEW e \in Emails, ChangeEmail(u, e) PROVE FlowOK'
  BY <1>14 DEF ChangeEmail, Unchanged
<1>15. ASSUME NEW u \in Users, GrantAdmin(u) PROVE FlowOK'
  BY <1>15 DEF GrantAdmin, Unchanged
<1>16. CASE UNCHANGED vars
  BY <1>16 DEF vars
<1>17. {{}, {"ADMIN", "WRITE_SOME_ENTITY"}} \subseteq SUBSET Permissions
  BY DEF Permissions
<1> HIDE DEF TypeOK, FlowOK, table, uncommitted, history
<1> QED
  BY <1>1, <1>2, <1>3, <1>4, <1>5, <1>6, <1>7, <1>8, <1>9, <1>10, <1>11, <1>12,
     <1>13, <1>14, <1>15, <1>16, <1>17
  DEF Next, Send, Statement

\* Deletions are final and addresses are never removed; both lookups skip deleted rows.
LEMMA BarredStep == TypeOK /\ FlowOK /\ BarredOK /\ [Next]_vars => BarredOK'
<1> SUFFICES ASSUME TypeOK, FlowOK, BarredOK, [Next]_vars PROVE BarredOK'
  OBVIOUS
<1> USE NoneAssumption DEF table, uncommitted, history, TypeOK, FlowOK, BarredOK, Steps, Calls
<1>1. ASSUME NEW r \in Reqs, NEW p \in Providers, NEW s \in Subjects, NEW c \in Claims,
             NEW v \in BOOLEAN, NEW g \in SUBSET Permissions, Resolve(r, p, s, c, v, g)
      PROVE  BarredOK'
  BY <1>1 DEF Resolve, Goto
<1>2. ASSUME NEW r \in Reqs, Invalid(r) PROVE BarredOK'
  BY <1>2 DEF Invalid, Reply
<1>3. ASSUME NEW r \in Reqs, FindIdentity(r) PROVE BarredOK'
  BY <1>3 DEF FindIdentity, Known, Hold, Unknown, Goto, Reply
<1>4. ASSUME NEW r \in Reqs, GetUser(r) PROVE BarredOK'
  BY <1>4 DEF GetUser, Unknown, Goto, Reply
<1>5. ASSUME NEW r \in Reqs, FindLocal(r) PROVE BarredOK'
  BY <1>5 DEF FindLocal, Live, Hold, Goto
<1>6. ASSUME NEW r \in Reqs, CreateUser(r) PROVE BarredOK'
  BY <1>6 DEF CreateUser, Free, Hold, Rollback, Goto
<1>7. ASSUME NEW r \in Reqs, InsertIdentity(r) PROVE BarredOK'
  BY <1>7 DEF InsertIdentity, Rollback, Goto
<1>8. ASSUME NEW r \in Reqs, Commit(r) PROVE BarredOK'
  BY <1>8 DEF Commit, Rollback, Reply
<1>9. ASSUME NEW r \in Reqs, FindRaced(r) PROVE BarredOK'
  BY <1>9 DEF FindRaced, Known, Hold, Goto, Reply
<1>10. ASSUME NEW r \in Reqs, GetRaced(r) PROVE BarredOK'
  BY <1>10 DEF GetRaced, Reply
<1>11. ASSUME NEW r \in Reqs, DbError(r) PROVE BarredOK'
  BY <1>11 DEF DbError, Running, Rollback, Reply
<1>12. ASSUME Crash PROVE BarredOK'
  BY <1>12 DEF Crash, Running
<1>13. ASSUME NEW u \in Users, DeleteUser(u) PROVE BarredOK'
  BY <1>13 DEF DeleteUser, Unchanged, Live
<1>14. ASSUME NEW u \in Users, NEW e \in Emails, ChangeEmail(u, e)
      PROVE  BarredOK'
  BY <1>14 DEF ChangeEmail, Unchanged
<1>15. ASSUME NEW u \in Users, GrantAdmin(u) PROVE BarredOK'
  BY <1>15 DEF GrantAdmin, Unchanged
<1>16. CASE UNCHANGED vars
  BY <1>16 DEF vars
<1>17. {{}, {"ADMIN", "WRITE_SOME_ENTITY"}} \subseteq SUBSET Permissions
  BY DEF Permissions
<1> QED
  BY <1>1, <1>2, <1>3, <1>4, <1>5, <1>6, <1>7, <1>8, <1>9, <1>10, <1>11, <1>12,
     <1>13, <1>14, <1>15, <1>16, <1>17
  DEF Next, Send, Statement

\* A row enters the index of identities only where nothing clashes with it.
LEMMA IndexStep == TypeOK /\ FlowOK /\ IndexOK /\ [Next]_vars => IndexOK'
<1> SUFFICES ASSUME TypeOK, FlowOK, IndexOK, [Next]_vars PROVE IndexOK'
  OBVIOUS
<1> USE DEF table, uncommitted, history, TypeOK, FlowOK, IndexOK, Row, Clash, Steps
<1>1. ASSUME NEW r \in Reqs, NEW p \in Providers, NEW s \in Subjects, NEW c \in Claims,
             NEW v \in BOOLEAN, NEW g \in SUBSET Permissions, Resolve(r, p, s, c, v, g)
      PROVE  IndexOK'
  BY <1>1 DEF Resolve, Goto
<1>2. ASSUME NEW r \in Reqs, Invalid(r) PROVE IndexOK'
  BY <1>2 DEF Invalid, Reply
<1>3. ASSUME NEW r \in Reqs, FindIdentity(r) PROVE IndexOK'
  BY <1>3 DEF FindIdentity, Known, Hold, Unknown, Goto, Reply
<1>4. ASSUME NEW r \in Reqs, GetUser(r) PROVE IndexOK'
  BY <1>4 DEF GetUser, Unknown, Goto, Reply
<1>5. ASSUME NEW r \in Reqs, FindLocal(r) PROVE IndexOK'
  BY <1>5 DEF FindLocal, Live, Hold, Goto
<1>6. ASSUME NEW r \in Reqs, CreateUser(r) PROVE IndexOK'
  BY <1>6 DEF CreateUser, Free, Hold, Rollback, Goto
<1>7. ASSUME NEW r \in Reqs, InsertIdentity(r) PROVE IndexOK'
  BY <1>7 DEF InsertIdentity, Rollback, Goto
<1>8. ASSUME NEW r \in Reqs, Commit(r) PROVE IndexOK'
  BY <1>8 DEF Commit, Rollback, Reply
<1>9. ASSUME NEW r \in Reqs, FindRaced(r) PROVE IndexOK'
  BY <1>9 DEF FindRaced, Known, Hold, Goto, Reply
<1>10. ASSUME NEW r \in Reqs, GetRaced(r) PROVE IndexOK'
  BY <1>10 DEF GetRaced, Reply
<1>11. ASSUME NEW r \in Reqs, DbError(r) PROVE IndexOK'
  BY <1>11 DEF DbError, Running, Rollback, Reply
<1>12. ASSUME Crash PROVE IndexOK'
  BY <1>12 DEF Crash, Running
<1>13. ASSUME NEW u \in Users, DeleteUser(u) PROVE IndexOK'
  BY <1>13 DEF DeleteUser, Unchanged, Live
<1>14. ASSUME NEW u \in Users, NEW e \in Emails, ChangeEmail(u, e)
      PROVE  IndexOK'
  BY <1>14 DEF ChangeEmail, Unchanged
<1>15. ASSUME NEW u \in Users, GrantAdmin(u) PROVE IndexOK'
  BY <1>15 DEF GrantAdmin, Unchanged
<1>16. CASE UNCHANGED vars
  BY <1>16 DEF vars
<1>17. {{}, {"ADMIN", "WRITE_SOME_ENTITY"}} \subseteq SUBSET Permissions
  BY DEF Permissions
<1> QED
  BY <1>1, <1>2, <1>3, <1>4, <1>5, <1>6, <1>7, <1>8, <1>9, <1>10, <1>11, <1>12,
     <1>13, <1>14, <1>15, <1>16, <1>17
  DEF Next, Send, Statement

\* Identities are never removed, and a finished request is never touched again.
LEMMA HeldStep == TypeOK /\ FlowOK /\ IndexOK /\ HeldOK /\ [Next]_vars => HeldOK'
<1> SUFFICES ASSUME TypeOK, FlowOK, IndexOK, HeldOK, [Next]_vars PROVE HeldOK'
  OBVIOUS
<1> USE DEF table, uncommitted, history, TypeOK, FlowOK, IndexOK, HeldOK, Row,
        Steps, Identities, Calls
<1>1. ASSUME NEW r \in Reqs, NEW p \in Providers, NEW s \in Subjects, NEW c \in Claims,
             NEW v \in BOOLEAN, NEW g \in SUBSET Permissions, Resolve(r, p, s, c, v, g)
      PROVE  HeldOK'
  BY <1>1 DEF Resolve, Goto
<1>2. ASSUME NEW r \in Reqs, Invalid(r) PROVE HeldOK'
  BY <1>2 DEF Invalid, Reply
<1>3. ASSUME NEW r \in Reqs, FindIdentity(r) PROVE HeldOK'
  BY <1>3 DEF FindIdentity, Known, Hold, Unknown, Goto, Reply
<1>4. ASSUME NEW r \in Reqs, GetUser(r) PROVE HeldOK'
  BY <1>4 DEF GetUser, Unknown, Goto, Reply
<1>5. ASSUME NEW r \in Reqs, FindLocal(r) PROVE HeldOK'
  BY <1>5 DEF FindLocal, Live, Hold, Goto
<1>6. ASSUME NEW r \in Reqs, CreateUser(r) PROVE HeldOK'
  BY <1>6 DEF CreateUser, Free, Hold, Rollback, Goto
<1>7. ASSUME NEW r \in Reqs, InsertIdentity(r) PROVE HeldOK'
  BY <1>7 DEF InsertIdentity, Rollback, Goto
<1>8. ASSUME NEW r \in Reqs, Commit(r) PROVE HeldOK'
  BY <1>8 DEF Commit, Rollback, Reply
<1>9. ASSUME NEW r \in Reqs, FindRaced(r) PROVE HeldOK'
  BY <1>9 DEF FindRaced, Known, Hold, Goto, Reply
<1>10. ASSUME NEW r \in Reqs, GetRaced(r) PROVE HeldOK'
  BY <1>10 DEF GetRaced, Reply
<1>11. ASSUME NEW r \in Reqs, DbError(r) PROVE HeldOK'
  BY <1>11 DEF DbError, Running, Rollback, Reply
<1>12. ASSUME Crash PROVE HeldOK'
  BY <1>12 DEF Crash, Running
<1>13. ASSUME NEW u \in Users, DeleteUser(u) PROVE HeldOK'
  BY <1>13 DEF DeleteUser, Unchanged, Live
<1>14. ASSUME NEW u \in Users, NEW e \in Emails, ChangeEmail(u, e) PROVE HeldOK'
  BY <1>14 DEF ChangeEmail, Unchanged
<1>15. ASSUME NEW u \in Users, GrantAdmin(u) PROVE HeldOK'
  BY <1>15 DEF GrantAdmin, Unchanged
<1>16. CASE UNCHANGED vars
  BY <1>16 DEF vars
<1>17. {{}, {"ADMIN", "WRITE_SOME_ENTITY"}} \subseteq SUBSET Permissions
  BY DEF Permissions
<1> QED
  BY <1>1, <1>2, <1>3, <1>4, <1>5, <1>6, <1>7, <1>8, <1>9, <1>10, <1>11, <1>12,
     <1>13, <1>14, <1>15, <1>16, <1>17
  DEF Next, Send, Statement

\* Who is resolved was live when looked up, or entered the transaction unbarred.
LEMMA DeletedStep ==
    TypeOK /\ FlowOK /\ BarredOK /\ DeletedNeverResolved /\ [Next]_vars
        => DeletedNeverResolved'
<1> SUFFICES ASSUME TypeOK, FlowOK, BarredOK, DeletedNeverResolved, [Next]_vars
             PROVE  DeletedNeverResolved'
  OBVIOUS
<1> USE DEF table, uncommitted, history, TypeOK, FlowOK, BarredOK, DeletedNeverResolved,
            Live, Steps
<1>1. ASSUME NEW r \in Reqs, NEW p \in Providers, NEW s \in Subjects, NEW c \in Claims,
             NEW v \in BOOLEAN, NEW g \in SUBSET Permissions, Resolve(r, p, s, c, v, g)
      PROVE  DeletedNeverResolved'
  BY <1>1 DEF Resolve, Goto
<1>2. ASSUME NEW r \in Reqs, Invalid(r) PROVE DeletedNeverResolved'
  BY <1>2 DEF Invalid, Reply
<1>3. ASSUME NEW r \in Reqs, FindIdentity(r) PROVE DeletedNeverResolved'
  BY <1>3 DEF FindIdentity, Known, Hold, Unknown, Goto, Reply
<1>4. ASSUME NEW r \in Reqs, GetUser(r) PROVE DeletedNeverResolved'
  BY <1>4 DEF GetUser, Unknown, Goto, Reply
<1>5. ASSUME NEW r \in Reqs, FindLocal(r) PROVE DeletedNeverResolved'
  BY <1>5 DEF FindLocal, Live, Hold, Goto
<1>6. ASSUME NEW r \in Reqs, CreateUser(r) PROVE DeletedNeverResolved'
  BY <1>6 DEF CreateUser, Free, Hold, Rollback, Goto
<1>7. ASSUME NEW r \in Reqs, InsertIdentity(r) PROVE DeletedNeverResolved'
  BY <1>7 DEF InsertIdentity, Rollback, Goto
<1>8. ASSUME NEW r \in Reqs, Commit(r) PROVE DeletedNeverResolved'
  BY <1>8 DEF Commit, Rollback, Reply
<1>9. ASSUME NEW r \in Reqs, FindRaced(r) PROVE DeletedNeverResolved'
  BY <1>9 DEF FindRaced, Known, Hold, Goto, Reply
<1>10. ASSUME NEW r \in Reqs, GetRaced(r) PROVE DeletedNeverResolved'
  BY <1>10 DEF GetRaced, Reply
<1>11. ASSUME NEW r \in Reqs, DbError(r) PROVE DeletedNeverResolved'
  BY <1>11 DEF DbError, Running, Rollback, Reply
<1>12. ASSUME Crash PROVE DeletedNeverResolved'
  BY <1>12 DEF Crash, Running
<1>13. ASSUME NEW u \in Users, DeleteUser(u) PROVE DeletedNeverResolved'
  BY <1>13 DEF DeleteUser, Unchanged, Live
<1>14. ASSUME NEW u \in Users, NEW e \in Emails, ChangeEmail(u, e)
      PROVE  DeletedNeverResolved'
  BY <1>14 DEF ChangeEmail, Unchanged
<1>15. ASSUME NEW u \in Users, GrantAdmin(u) PROVE DeletedNeverResolved'
  BY <1>15 DEF GrantAdmin, Unchanged
<1>16. CASE UNCHANGED vars
  BY <1>16 DEF vars
<1>17. {{}, {"ADMIN", "WRITE_SOME_ENTITY"}} \subseteq SUBSET Permissions
  BY DEF Permissions
<1> QED
  BY <1>1, <1>2, <1>3, <1>4, <1>5, <1>6, <1>7, <1>8, <1>9, <1>10, <1>11, <1>12,
     <1>13, <1>14, <1>15, <1>16, <1>17
  DEF Next, Send, Statement

\* A new user gets what Sanitize leaves; a new identity has a verified request.
LEMMA ClaimsStep == TypeOK /\ FlowOK /\ ClaimsGiveNothing /\ [Next]_vars => ClaimsGiveNothing'
<1> SUFFICES ASSUME TypeOK, FlowOK, ClaimsGiveNothing, [Next]_vars PROVE ClaimsGiveNothing'
  OBVIOUS
<1> USE NoCallAssumption DEF table, uncommitted, history, TypeOK, FlowOK, ClaimsGiveNothing,
        AdminIsGranted, LinksAreVerified, Row, Sanitize, Steps, Calls
<1>1. ASSUME NEW r \in Reqs, NEW p \in Providers, NEW s \in Subjects, NEW c \in Claims,
             NEW v \in BOOLEAN, NEW g \in SUBSET Permissions, Resolve(r, p, s, c, v, g)
      PROVE  ClaimsGiveNothing'
  BY <1>1 DEF Resolve, Goto
<1>2. ASSUME NEW r \in Reqs, Invalid(r) PROVE ClaimsGiveNothing'
  BY <1>2 DEF Invalid, Reply
<1>3. ASSUME NEW r \in Reqs, FindIdentity(r) PROVE ClaimsGiveNothing'
  BY <1>3 DEF FindIdentity, Known, Hold, Unknown, Goto, Reply
<1>4. ASSUME NEW r \in Reqs, GetUser(r) PROVE ClaimsGiveNothing'
  BY <1>4 DEF GetUser, Unknown, Goto, Reply
<1>5. ASSUME NEW r \in Reqs, FindLocal(r) PROVE ClaimsGiveNothing'
  BY <1>5 DEF FindLocal, Live, Hold, Goto
<1>6. ASSUME NEW r \in Reqs, CreateUser(r) PROVE ClaimsGiveNothing'
  BY <1>6 DEF CreateUser, Free, Hold, Rollback, Goto
<1>7. ASSUME NEW r \in Reqs, InsertIdentity(r) PROVE ClaimsGiveNothing'
  BY <1>7 DEF InsertIdentity, Rollback, Goto
<1>8. ASSUME NEW r \in Reqs, Commit(r) PROVE ClaimsGiveNothing'
  <2>1. AdminIsGranted'
    <3>1. "ADMIN" \notin Sanitize(call[r].suggested)
      OBVIOUS
    <3> QED
      BY <1>8, <3>1 DEF Commit
  <2>2. call' = call /\ identities' = identities \cup {Row(r)}
    BY <1>8 DEF Commit
  <2>3. call[r] # None /\ call[r].verified
    BY <1>8 DEF Commit
  <2>4. LinksAreVerified'
    BY <2>2, <2>3
  <2> QED
    BY <2>1, <2>4
<1>9. ASSUME NEW r \in Reqs, FindRaced(r) PROVE ClaimsGiveNothing'
  BY <1>9 DEF FindRaced, Known, Hold, Goto, Reply
<1>10. ASSUME NEW r \in Reqs, GetRaced(r) PROVE ClaimsGiveNothing'
  BY <1>10 DEF GetRaced, Reply
<1>11. ASSUME NEW r \in Reqs, DbError(r) PROVE ClaimsGiveNothing'
  BY <1>11 DEF DbError, Running, Rollback, Reply
<1>12. ASSUME Crash PROVE ClaimsGiveNothing'
  BY <1>12 DEF Crash, Running
<1>13. ASSUME NEW u \in Users, DeleteUser(u) PROVE ClaimsGiveNothing'
  BY <1>13 DEF DeleteUser, Unchanged, Live
<1>14. ASSUME NEW u \in Users, NEW e \in Emails, ChangeEmail(u, e)
      PROVE  ClaimsGiveNothing'
  BY <1>14 DEF ChangeEmail, Unchanged
<1>15. ASSUME NEW u \in Users, GrantAdmin(u) PROVE ClaimsGiveNothing'
  BY <1>15 DEF GrantAdmin, Unchanged
<1>16. CASE UNCHANGED vars
  BY <1>16 DEF vars
<1>17. {{}, {"ADMIN", "WRITE_SOME_ENTITY"}} \subseteq SUBSET Permissions
  BY DEF Permissions
<1> QED
  BY <1>1, <1>2, <1>3, <1>4, <1>5, <1>6, <1>7, <1>8, <1>9, <1>10, <1>11, <1>12,
     <1>13, <1>14, <1>15, <1>16, <1>17
  DEF Next, Send, Statement

\* A user and its identity are committed by one step.
LEMMA SignInStep == TypeOK /\ FederatedUserCanSignIn /\ [Next]_vars => FederatedUserCanSignIn'
<1> SUFFICES ASSUME TypeOK, FederatedUserCanSignIn, [Next]_vars PROVE FederatedUserCanSignIn'
  OBVIOUS
<1> USE DEF table, uncommitted, history, TypeOK, FederatedUserCanSignIn, Row
<1>1. ASSUME NEW r \in Reqs, NEW p \in Providers, NEW s \in Subjects, NEW c \in Claims,
             NEW v \in BOOLEAN, NEW g \in SUBSET Permissions, Resolve(r, p, s, c, v, g)
      PROVE  FederatedUserCanSignIn'
  BY <1>1 DEF Resolve, Goto
<1>2. ASSUME NEW r \in Reqs, Invalid(r) PROVE FederatedUserCanSignIn'
  BY <1>2 DEF Invalid, Reply
<1>3. ASSUME NEW r \in Reqs, FindIdentity(r) PROVE FederatedUserCanSignIn'
  BY <1>3 DEF FindIdentity, Known, Hold, Unknown, Goto, Reply
<1>4. ASSUME NEW r \in Reqs, GetUser(r) PROVE FederatedUserCanSignIn'
  BY <1>4 DEF GetUser, Unknown, Goto, Reply
<1>5. ASSUME NEW r \in Reqs, FindLocal(r) PROVE FederatedUserCanSignIn'
  BY <1>5 DEF FindLocal, Live, Hold, Goto
<1>6. ASSUME NEW r \in Reqs, CreateUser(r) PROVE FederatedUserCanSignIn'
  BY <1>6 DEF CreateUser, Free, Hold, Rollback, Goto
<1>7. ASSUME NEW r \in Reqs, InsertIdentity(r) PROVE FederatedUserCanSignIn'
  BY <1>7 DEF InsertIdentity, Rollback, Goto
<1>8. ASSUME NEW r \in Reqs, Commit(r) PROVE FederatedUserCanSignIn'
  <2>1. /\ identities' = identities \cup {Row(r)}
        /\ federated' \subseteq federated \cup {user[r]}
    BY <1>8 DEF Commit
  <2>2. Row(r).user = user[r]
    OBVIOUS
  <2> QED
    BY <2>1, <2>2
<1>9. ASSUME NEW r \in Reqs, FindRaced(r) PROVE FederatedUserCanSignIn'
  BY <1>9 DEF FindRaced, Known, Hold, Goto, Reply
<1>10. ASSUME NEW r \in Reqs, GetRaced(r) PROVE FederatedUserCanSignIn'
  BY <1>10 DEF GetRaced, Reply
<1>11. ASSUME NEW r \in Reqs, DbError(r) PROVE FederatedUserCanSignIn'
  BY <1>11 DEF DbError, Running, Rollback, Reply
<1>12. ASSUME Crash PROVE FederatedUserCanSignIn'
  BY <1>12 DEF Crash, Running
<1>13. ASSUME NEW u \in Users, DeleteUser(u) PROVE FederatedUserCanSignIn'
  BY <1>13 DEF DeleteUser, Unchanged, Live
<1>14. ASSUME NEW u \in Users, NEW e \in Emails, ChangeEmail(u, e)
      PROVE  FederatedUserCanSignIn'
  BY <1>14 DEF ChangeEmail, Unchanged
<1>15. ASSUME NEW u \in Users, GrantAdmin(u) PROVE FederatedUserCanSignIn'
  BY <1>15 DEF GrantAdmin, Unchanged
<1>16. CASE UNCHANGED vars
  BY <1>16 DEF vars
<1>17. {{}, {"ADMIN", "WRITE_SOME_ENTITY"}} \subseteq SUBSET Permissions
  BY DEF Permissions
<1> QED
  BY <1>1, <1>2, <1>3, <1>4, <1>5, <1>6, <1>7, <1>8, <1>9, <1>10, <1>11, <1>12,
     <1>13, <1>14, <1>15, <1>16, <1>17
  DEF Next, Send, Statement

\* All together.
LEMMA InvStep == IInv /\ [Next]_vars => IInv'
  BY TypeStep, FlowStep, BarredStep, IndexStep, HeldStep, DeletedStep, ClaimsStep,
     SignInStep
  DEF IInv

--------------------------------------------------------------------------------
\* The invariant holds in every reachable state.
THEOREM Invariance == Spec => []IInv
  BY InitInv, InvStep, PTL DEF Spec

\* The state is well typed; a statement that binds a user id has one.
THEOREM TypeCorrect == Spec => []TypeOK
<1>1. IInv => TypeOK
  BY DEF IInv
<1> QED
  BY <1>1, Invariance, PTL

\* Sessions of one subject of one provider are sessions of one user: both were
\* answered from rows of the identity table, and its index allows only one.
THEOREM OneUserPerIdentity == Spec => []SameIdentitySameUser
<1>1. IInv => SameIdentitySameUser
  <2> SUFFICES ASSUME IInv, NEW q \in Reqs, NEW r \in Reqs,
                      answer[q] = "resolved", answer[r] = "resolved",
                      call[q].provider = call[r].provider,
                      call[q].subject = call[r].subject
               PROVE  user[q] = user[r]
    BY DEF SameIdentitySameUser
  <2>1. Row(q) \in identities /\ Row(r) \in identities
    BY DEF IInv, HeldOK
  <2>2. Clash(Row(q), Row(r))
    BY DEF Clash, Row
  <2>3. Row(q) = Row(r)
    BY <2>1, <2>2 DEF IInv, IndexOK
  <2> QED
    BY <2>3 DEF Row
<1> QED
  BY <1>1, Invariance, PTL

\* A request never resolves to a user who was deleted when it arrived.
THEOREM DeletedUsersStayOut == Spec => []DeletedNeverResolved
<1>1. IInv => DeletedNeverResolved
  BY DEF IInv
<1> QED
  BY <1>1, Invariance, PTL

\* A claim gives neither ADMIN nor, without a verified address, an account.
THEOREM ClaimsAreHarmless == Spec => []ClaimsGiveNothing
<1>1. IInv => ClaimsGiveNothing
  BY DEF IInv
<1> QED
  BY <1>1, Invariance, PTL

\* A federated user always has the identity it signs in with.
THEOREM FederatedUsersHaveIdentities == Spec => []FederatedUserCanSignIn
<1>1. IInv => FederatedUserCanSignIn
  BY DEF IInv
<1> QED
  BY <1>1, Invariance, PTL

\* A verified request is refused only after a lookup that finds no live user.
LEMMA RefusalStep ==
  ASSUME IInv, [Next]_vars, NEW r \in Reqs,
         answer[r] # "refused", answer'[r] = "refused", call[r].verified,
         NEW i \in Known(r)
  PROVE  ~Live(i.user)
<1> USE DEF IInv, TypeOK, table, uncommitted, history, Answers
<1>1. ASSUME NEW q \in Reqs, NEW p \in Providers, NEW s \in Subjects, NEW c \in Claims,
             NEW v \in BOOLEAN, NEW g \in SUBSET Permissions, Resolve(q, p, s, c, v, g)
      PROVE  FALSE
  BY <1>1 DEF Resolve, Goto
<1>2. ASSUME NEW q \in Reqs, Invalid(q) PROVE FALSE
  BY <1>2 DEF Invalid, Reply
<1>3. ASSUME NEW q \in Reqs, FindIdentity(q) PROVE FALSE
  BY <1>3 DEF FindIdentity, Unknown, Goto, Reply
<1>4. ASSUME NEW q \in Reqs, GetUser(q) PROVE FALSE
  BY <1>4 DEF GetUser, Unknown, Goto, Reply
<1>5. ASSUME NEW q \in Reqs, FindLocal(q) PROVE FALSE
  BY <1>5 DEF FindLocal, Goto
<1>6. ASSUME NEW q \in Reqs, CreateUser(q) PROVE FALSE
  BY <1>6 DEF CreateUser, Goto
<1>7. ASSUME NEW q \in Reqs, InsertIdentity(q) PROVE FALSE
  BY <1>7 DEF InsertIdentity, Goto
<1>8. ASSUME NEW q \in Reqs, Commit(q) PROVE FALSE
  BY <1>8 DEF Commit, Reply
<1>9. ASSUME NEW q \in Reqs, FindRaced(q) PROVE FALSE
  BY <1>9 DEF FindRaced, Goto, Reply
<1>10. ASSUME NEW q \in Reqs, GetRaced(q) PROVE ~Live(i.user)
  <2>1. q = r /\ pc[r] = "getRaced" /\ ~Live(user[r])
    BY <1>10 DEF GetRaced, Reply
  <2>2. Row(r) \in identities
    BY <2>1 DEF HeldOK
  <2>3. i \in identities /\ Clash(i, Row(r))
    BY DEF Known, Clash, Row
  <2>4. i = Row(r)
    BY <2>2, <2>3 DEF IndexOK
  <2> QED
    BY <2>1, <2>4 DEF Row
<1>11. ASSUME NEW q \in Reqs, DbError(q) PROVE FALSE
  BY <1>11 DEF DbError, Reply
<1>12. ASSUME Crash PROVE FALSE
  BY <1>12 DEF Crash
<1>13. ASSUME NEW u \in Users, DeleteUser(u) PROVE FALSE
  BY <1>13 DEF DeleteUser, Unchanged
<1>14. ASSUME NEW u \in Users, NEW e \in Emails, ChangeEmail(u, e) PROVE FALSE
  BY <1>14 DEF ChangeEmail, Unchanged
<1>15. ASSUME NEW u \in Users, GrantAdmin(u) PROVE FALSE
  BY <1>15 DEF GrantAdmin, Unchanged
<1>16. CASE UNCHANGED vars
  BY <1>16 DEF vars
<1>17. {{}, {"ADMIN", "WRITE_SOME_ENTITY"}} \subseteq SUBSET Permissions
  BY DEF Permissions
<1> QED
  BY <1>1, <1>2, <1>3, <1>4, <1>5, <1>6, <1>7, <1>8, <1>9, <1>10, <1>11, <1>12,
     <1>13, <1>14, <1>15, <1>16, <1>17
  DEF Next, Send, Statement

\* The loser of a race for an identity is resolved to the winner.
THEOREM LosersFindWinners == Spec => LoserFindsWinner
<1>1. IInv /\ [Next]_vars =>
        [\A r \in Reqs :
           answer[r] # "refused" /\ answer'[r] = "refused" /\ call[r].verified
              => \A i \in Known(r) : ~Live(i.user)]_vars
  BY RefusalStep
<1> QED
  BY <1>1, Invariance, PTL DEF Spec, LoserFindsWinner

--------------------------------------------------------------------------------
\* What EveryRequestEnds rests on beside fairness: who waits in a unique index.

\* r waits there for the transaction of q to end: for its user's address, or for its
\* identity.
Awaits(r, q) ==
    \/ pc[r] = "createUser" /\ q \in created /\ call[q].email = call[r].email
    \/ pc[r] = "insertIdentity" /\ q \in linked /\ Clash(Row(q), Row(r))

\* Waiting goes one way: for a transaction that has its user's row, or for one that has
\* its identity's too and is about to commit, which waits for nobody.
WaitingIsForward ==
    \A r, q \in Reqs : Awaits(r, q) =>
        \/ pc[q] = "commit"
        \/ pc[q] = "insertIdentity" /\ pc[r] = "createUser"

\* A transaction with a new user is not over.
CreatedOK == \A r \in created : pc[r] \in {"insertIdentity", "commit"}

\* Every end of a transaction takes its rows out of the indexes.
LEMMA CreatedStep == TypeOK /\ CreatedOK /\ [Next]_vars => CreatedOK'
<1> SUFFICES ASSUME TypeOK, CreatedOK, [Next]_vars PROVE CreatedOK'
  OBVIOUS
<1> USE DEF table, uncommitted, history, TypeOK, CreatedOK, Steps
<1>1. ASSUME NEW r \in Reqs, NEW p \in Providers, NEW s \in Subjects, NEW c \in Claims,
             NEW v \in BOOLEAN, NEW g \in SUBSET Permissions, Resolve(r, p, s, c, v, g)
      PROVE  CreatedOK'
  BY <1>1 DEF Resolve, Goto
<1>2. ASSUME NEW r \in Reqs, Invalid(r) PROVE CreatedOK'
  BY <1>2 DEF Invalid, Reply
<1>3. ASSUME NEW r \in Reqs, FindIdentity(r) PROVE CreatedOK'
  BY <1>3 DEF FindIdentity, Unknown, Goto, Reply
<1>4. ASSUME NEW r \in Reqs, GetUser(r) PROVE CreatedOK'
  BY <1>4 DEF GetUser, Unknown, Goto, Reply
<1>5. ASSUME NEW r \in Reqs, FindLocal(r) PROVE CreatedOK'
  BY <1>5 DEF FindLocal, Goto
<1>6. ASSUME NEW r \in Reqs, CreateUser(r) PROVE CreatedOK'
  BY <1>6 DEF CreateUser, Rollback, Goto
<1>7. ASSUME NEW r \in Reqs, InsertIdentity(r) PROVE CreatedOK'
  BY <1>7 DEF InsertIdentity, Rollback, Goto
<1>8. ASSUME NEW r \in Reqs, Commit(r) PROVE CreatedOK'
  BY <1>8 DEF Commit, Rollback, Reply
<1>9. ASSUME NEW r \in Reqs, FindRaced(r) PROVE CreatedOK'
  BY <1>9 DEF FindRaced, Goto, Reply
<1>10. ASSUME NEW r \in Reqs, GetRaced(r) PROVE CreatedOK'
  BY <1>10 DEF GetRaced, Reply
<1>11. ASSUME NEW r \in Reqs, DbError(r) PROVE CreatedOK'
  BY <1>11 DEF DbError, Rollback, Reply
<1>12. ASSUME Crash PROVE CreatedOK'
  BY <1>12 DEF Crash
<1>13. CASE \/ UNCHANGED vars
            \/ \E u \in Users : DeleteUser(u) \/ GrantAdmin(u)
            \/ \E u \in Users, e \in Emails : ChangeEmail(u, e)
  BY <1>13 DEF vars, DeleteUser, GrantAdmin, ChangeEmail, Unchanged
<1>14. {{}, {"ADMIN", "WRITE_SOME_ENTITY"}} \subseteq SUBSET Permissions
  BY DEF Permissions
<1> QED
  BY <1>1, <1>2, <1>3, <1>4, <1>5, <1>6, <1>7, <1>8, <1>9, <1>10, <1>11, <1>12,
     <1>13, <1>14
  DEF Next, Send, Statement

\* Nobody waits in a circle, however many transactions race: the longest chain is a
\* new user's INSERT behind an identity's behind a COMMIT.
THEOREM NobodyWaitsInACircle == Spec => []WaitingIsForward
<1>1. Init => CreatedOK
  BY DEF Init, CreatedOK
<1>2. IInv /\ CreatedOK /\ [Next]_vars => CreatedOK'
  BY CreatedStep DEF IInv
<1>3. IInv /\ CreatedOK => WaitingIsForward
  BY DEF IInv, IndexOK, CreatedOK, WaitingIsForward, Awaits
<1> QED
  BY <1>1, <1>2, <1>3, Invariance, PTL DEF Spec
==============================================================================
