--------------------------- MODULE UserAdminProofs ---------------------------
(***************************************************************************)
(* Proofs about UserAdmin, for any users, founders and requests: the rule  *)
(* "one admin remains" holds while no two check-then-update sequences      *)
(* overlap, and a PUT never gets past the existence check of a user that   *)
(* was deleted before the request arrived.                                 *)
(***************************************************************************)
EXTENDS UserAdmin, TLAPS

\* What the reads of a current request are still worth: if its UPDATE is going to
\* take ADMIN from a user who has it, another live admin is left.
CheckedOK ==
    \A r \in current :
        /\ pc[r] \in {"count", "update"} => op[r].id \in rows
        /\ pc[r] = "update" /\ op[r].id \in admins /\ LosesAdmin(r)
              => OtherAdmins(op[r].id) # {}

\* A request in "gone" names a deleted user, and a PUT of it stays at its first
\* statement until it is refused.
GoneOK ==
    \A r \in gone :
        /\ pc[r] # "idle"
        /\ op[r].id \in deleted
        /\ op[r].verb = "put" => pc[r] \in {"exists", "done", "lost"}

IInv == TypeOK /\ CheckedOK /\ GoneOK /\ AdminRemainsUnlessTorn

\* Initially no request has arrived and every founder is a live admin.
LEMMA InitInv == Init => IInv
<1> SUFFICES ASSUME Init PROVE IInv
  OBVIOUS
<1>1. TypeOK
  BY FoundersAssumption DEF Init, TypeOK, Steps, Answers, Ops, NoOp, Perms
<1>2. CheckedOK /\ GoneOK
  BY DEF Init, CheckedOK, GoneOK
<1>3. AdminRemainsUnlessTorn
  BY FoundersAssumption DEF Init, AdminRemainsUnlessTorn, LiveAdmins
<1> QED
  BY <1>1, <1>2, <1>3 DEF IInv

\* A handler past findByPk works on a row that is there: rows are never removed.
LEMMA TypeStep == TypeOK /\ [Next]_vars => TypeOK'
<1> SUFFICES ASSUME TypeOK, [Next]_vars PROVE TypeOK'
  OBVIOUS
<1> USE NoneAssumption DEF Table, history, TypeOK, Steps, Answers, Ops, Perms
<1>1. ASSUME NEW r \in Reqs, NEW p \in Perms, Post(r, p) PROVE TypeOK'
  BY <1>1 DEF Post, Arrive, Goto
<1>2. ASSUME NEW r \in Reqs, NEW u \in Users, NEW p \in Perms, Put(r, u, p)
      PROVE  TypeOK'
  BY <1>2 DEF Put, Arrive, Goto
<1>3. ASSUME NEW r \in Reqs, NEW u \in Users, Delete(r, u) PROVE TypeOK'
  BY <1>3 DEF Delete, Arrive, Goto
<1>4. ASSUME NEW r \in Reqs, Invalid(r) PROVE TypeOK'
  BY <1>4 DEF Invalid, Reply
<1>5. ASSUME NEW r \in Reqs, PostInsert(r) PROVE TypeOK'
  BY <1>5 DEF PostInsert, Reply
<1>6. ASSUME NEW r \in Reqs, PutExists(r) PROVE TypeOK'
  BY <1>6 DEF PutExists, Goto, Reply
<1>7. ASSUME NEW r \in Reqs, Find(r) PROVE TypeOK'
  BY <1>7 DEF Find, Goto, Reply
<1>8. ASSUME NEW r \in Reqs, Count(r) PROVE TypeOK'
  BY <1>8 DEF Count, Goto, Reply
<1>9. ASSUME NEW r \in Reqs, PutUpdate(r) PROVE TypeOK'
  BY <1>9 DEF PutUpdate, Goto, Reply
<1>10. ASSUME NEW r \in Reqs, DeleteUpdate(r) PROVE TypeOK'
  BY <1>10 DEF DeleteUpdate, Reply
<1>11. ASSUME NEW r \in Reqs, PutReread(r) PROVE TypeOK'
  BY <1>11 DEF PutReread, Reply
<1>12. ASSUME NEW r \in Reqs, Throws(r) PROVE TypeOK'
  BY <1>12 DEF Throws, Reply, Running
<1>13. ASSUME Crash PROVE TypeOK'
  BY <1>13 DEF Crash, Running
<1>14. CASE UNCHANGED vars
  BY <1>14 DEF vars
<1> QED
  BY <1>1, <1>2, <1>3, <1>4, <1>5, <1>6, <1>7, <1>8, <1>9, <1>10, <1>11,
     <1>12, <1>13, <1>14
  DEF Next, Send, Statement

\* The count is worth something until the next UPDATE of any request: an INSERT
\* only adds admins.
LEMMA CheckedStep == TypeOK /\ CheckedOK /\ [Next]_vars => CheckedOK'
<1> SUFFICES ASSUME TypeOK, CheckedOK, [Next]_vars PROVE CheckedOK'
  OBVIOUS
<1> USE NoneAssumption DEF Table, history, TypeOK, CheckedOK, LosesAdmin,
        OtherAdmins, LiveAdmins, Steps, Ops, Perms
<1>1. ASSUME NEW r \in Reqs, NEW p \in Perms, Post(r, p) PROVE CheckedOK'
  BY <1>1 DEF Post, Arrive, Goto
<1>2. ASSUME NEW r \in Reqs, NEW u \in Users, NEW p \in Perms, Put(r, u, p)
      PROVE  CheckedOK'
  BY <1>2 DEF Put, Arrive, Goto
<1>3. ASSUME NEW r \in Reqs, NEW u \in Users, Delete(r, u) PROVE CheckedOK'
  BY <1>3 DEF Delete, Arrive, Goto
<1>4. ASSUME NEW r \in Reqs, Invalid(r) PROVE CheckedOK'
  BY <1>4 DEF Invalid, Reply
<1>5. ASSUME NEW r \in Reqs, PostInsert(r) PROVE CheckedOK'
  BY <1>5 DEF PostInsert, Reply
<1>6. ASSUME NEW r \in Reqs, PutExists(r) PROVE CheckedOK'
  BY <1>6 DEF PutExists, Goto, Reply
<1>7. ASSUME NEW r \in Reqs, Find(r) PROVE CheckedOK'
  BY <1>7 DEF Find, Goto, Reply
<1>8. ASSUME NEW r \in Reqs, Count(r) PROVE CheckedOK'
  BY <1>8 DEF Count, Goto, Reply
<1>9. ASSUME NEW r \in Reqs, PutUpdate(r) PROVE CheckedOK'
  BY <1>9 DEF PutUpdate, Goto, Reply
<1>10. ASSUME NEW r \in Reqs, DeleteUpdate(r) PROVE CheckedOK'
  BY <1>10 DEF DeleteUpdate, Reply
<1>11. ASSUME NEW r \in Reqs, PutReread(r) PROVE CheckedOK'
  BY <1>11 DEF PutReread, Reply
<1>12. ASSUME NEW r \in Reqs, Throws(r) PROVE CheckedOK'
  BY <1>12 DEF Throws, Reply, Running
<1>13. ASSUME Crash PROVE CheckedOK'
  BY <1>13 DEF Crash, Running
<1>14. CASE UNCHANGED vars
  BY <1>14 DEF vars
<1> QED
  BY <1>1, <1>2, <1>3, <1>4, <1>5, <1>6, <1>7, <1>8, <1>9, <1>10, <1>11,
     <1>12, <1>13, <1>14
  DEF Next, Send, Statement

\* The controller's getById excludes deleted rows, and no UPDATE clears deleted.
LEMMA GoneStep == TypeOK /\ GoneOK /\ [Next]_vars => GoneOK'
<1> SUFFICES ASSUME TypeOK, GoneOK, [Next]_vars PROVE GoneOK'
  OBVIOUS
<1> USE NoneAssumption DEF Table, history, TypeOK, GoneOK, Steps, Ops, Perms
<1>1. ASSUME NEW r \in Reqs, NEW p \in Perms, Post(r, p) PROVE GoneOK'
  BY <1>1 DEF Post, Arrive, Goto
<1>2. ASSUME NEW r \in Reqs, NEW u \in Users, NEW p \in Perms, Put(r, u, p)
      PROVE  GoneOK'
  BY <1>2 DEF Put, Arrive, Goto
<1>3. ASSUME NEW r \in Reqs, NEW u \in Users, Delete(r, u) PROVE GoneOK'
  BY <1>3 DEF Delete, Arrive, Goto
<1>4. ASSUME NEW r \in Reqs, Invalid(r) PROVE GoneOK'
  BY <1>4 DEF Invalid, Reply
<1>5. ASSUME NEW r \in Reqs, PostInsert(r) PROVE GoneOK'
  BY <1>5 DEF PostInsert, Reply
<1>6. ASSUME NEW r \in Reqs, PutExists(r) PROVE GoneOK'
  BY <1>6 DEF PutExists, Goto, Reply
<1>7. ASSUME NEW r \in Reqs, Find(r) PROVE GoneOK'
  BY <1>7 DEF Find, Goto, Reply
<1>8. ASSUME NEW r \in Reqs, Count(r) PROVE GoneOK'
  BY <1>8 DEF Count, Goto, Reply
<1>9. ASSUME NEW r \in Reqs, PutUpdate(r) PROVE GoneOK'
  BY <1>9 DEF PutUpdate, Goto, Reply
<1>10. ASSUME NEW r \in Reqs, DeleteUpdate(r) PROVE GoneOK'
  BY <1>10 DEF DeleteUpdate, Reply
<1>11. ASSUME NEW r \in Reqs, PutReread(r) PROVE GoneOK'
  BY <1>11 DEF PutReread, Reply
<1>12. ASSUME NEW r \in Reqs, Throws(r) PROVE GoneOK'
  BY <1>12 DEF Throws, Reply, Running
<1>13. ASSUME Crash PROVE GoneOK'
  BY <1>13 DEF Crash, Running
<1>14. CASE UNCHANGED vars
  BY <1>14 DEF vars
<1> QED
  BY <1>1, <1>2, <1>3, <1>4, <1>5, <1>6, <1>7, <1>8, <1>9, <1>10, <1>11,
     <1>12, <1>13, <1>14
  DEF Next, Send, Statement

\* An UPDATE of a current request takes ADMIN away only where another live admin
\* is left.
LEMMA RemainsStep ==
    TypeOK /\ CheckedOK /\ AdminRemainsUnlessTorn /\ [Next]_vars
        => AdminRemainsUnlessTorn'
<1> SUFFICES ASSUME TypeOK, CheckedOK, AdminRemainsUnlessTorn, [Next]_vars
             PROVE  AdminRemainsUnlessTorn'
  OBVIOUS
<1> USE NoneAssumption DEF Table, history, TypeOK, CheckedOK,
        AdminRemainsUnlessTorn, LosesAdmin, OtherAdmins, LiveAdmins, Steps,
        Ops, Perms
<1>1. ASSUME NEW r \in Reqs, NEW p \in Perms, Post(r, p)
      PROVE  AdminRemainsUnlessTorn'
  BY <1>1 DEF Post, Arrive, Goto
<1>2. ASSUME NEW r \in Reqs, NEW u \in Users, NEW p \in Perms, Put(r, u, p)
      PROVE  AdminRemainsUnlessTorn'
  BY <1>2 DEF Put, Arrive, Goto
<1>3. ASSUME NEW r \in Reqs, NEW u \in Users, Delete(r, u)
      PROVE  AdminRemainsUnlessTorn'
  BY <1>3 DEF Delete, Arrive, Goto
<1>4. ASSUME NEW r \in Reqs, Invalid(r) PROVE AdminRemainsUnlessTorn'
  BY <1>4 DEF Invalid, Reply
<1>5. ASSUME NEW r \in Reqs, PostInsert(r) PROVE AdminRemainsUnlessTorn'
  BY <1>5 DEF PostInsert, Reply
<1>6. ASSUME NEW r \in Reqs, PutExists(r) PROVE AdminRemainsUnlessTorn'
  BY <1>6 DEF PutExists, Goto, Reply
<1>7. ASSUME NEW r \in Reqs, Find(r) PROVE AdminRemainsUnlessTorn'
  BY <1>7 DEF Find, Goto, Reply
<1>8. ASSUME NEW r \in Reqs, Count(r) PROVE AdminRemainsUnlessTorn'
  BY <1>8 DEF Count, Goto, Reply
<1>9. ASSUME NEW r \in Reqs, PutUpdate(r) PROVE AdminRemainsUnlessTorn'
  <2> SUFFICES ASSUME ~torn' PROVE LiveAdmins' # {}
    OBVIOUS
  <2>1. ~torn /\ r \in current
    BY <1>9 DEF PutUpdate
  <2>2. pc[r] = "update" /\ op[r].id \in rows
    BY <1>9, <2>1 DEF PutUpdate
  <2>3. CASE op[r].id \in admins /\ LosesAdmin(r)
    <3>1. OtherAdmins(op[r].id) # {}
      BY <2>1, <2>2, <2>3
    <3> QED
      BY <1>9, <2>2, <3>1 DEF PutUpdate
  <2>4. CASE ~(op[r].id \in admins /\ LosesAdmin(r))
    BY <1>9, <2>1, <2>2, <2>4 DEF PutUpdate
  <2> QED
    BY <2>3, <2>4
<1>10. ASSUME NEW r \in Reqs, DeleteUpdate(r) PROVE AdminRemainsUnlessTorn'
  <2> SUFFICES ASSUME ~torn' PROVE LiveAdmins' # {}
    OBVIOUS
  <2>1. ~torn /\ r \in current
    BY <1>10 DEF DeleteUpdate
  <2>2. pc[r] = "update" /\ op[r].id \in rows
    BY <1>10, <2>1 DEF DeleteUpdate
  <2>3. CASE op[r].id \in admins /\ LosesAdmin(r)
    <3>1. OtherAdmins(op[r].id) # {}
      BY <2>1, <2>2, <2>3
    <3> QED
      BY <1>10, <2>2, <3>1 DEF DeleteUpdate
  <2>4. CASE ~(op[r].id \in admins /\ LosesAdmin(r))
    BY <1>10, <2>1, <2>2, <2>4 DEF DeleteUpdate
  <2> QED
    BY <2>3, <2>4
<1>11. ASSUME NEW r \in Reqs, PutReread(r) PROVE AdminRemainsUnlessTorn'
  BY <1>11 DEF PutReread, Reply
<1>12. ASSUME NEW r \in Reqs, Throws(r) PROVE AdminRemainsUnlessTorn'
  BY <1>12 DEF Throws, Reply, Running
<1>13. ASSUME Crash PROVE AdminRemainsUnlessTorn'
  BY <1>13 DEF Crash, Running
<1>14. CASE UNCHANGED vars
  BY <1>14 DEF vars
<1> QED
  BY <1>1, <1>2, <1>3, <1>4, <1>5, <1>6, <1>7, <1>8, <1>9, <1>10, <1>11,
     <1>12, <1>13, <1>14
  DEF Next, Send, Statement

\* The reads a handler holds, its position and the table stay related as IInv says
\* in every reachable state of POST, PUT and DELETE.
THEOREM Invariance == Spec => []IInv
<1>1. IInv /\ [Next]_vars => IInv'
  BY TypeStep, CheckedStep, GoneStep, RemainsStep DEF IInv
<1> QED
  BY InitInv, <1>1, PTL DEF Spec

\* The table, the requests and the handlers' positions have their types.
THEOREM TypeCorrect == Spec => []TypeOK
<1>1. IInv => TypeOK
  BY DEF IInv
<1> QED
  BY <1>1, Invariance, PTL

\* Removing or demoting users one after the other always leaves a live admin; it
\* takes an UPDATE between another request's reads and its UPDATE to lose the last.
THEOREM OneAdminRemains == Spec => []AdminRemainsUnlessTorn
<1>1. IInv => AdminRemainsUnlessTorn
  BY DEF IInv
<1> QED
  BY <1>1, Invariance, PTL

\* A PUT that arrives after the deletion of its user never reaches the service.
THEOREM DeletedUsersAreGone == Spec => []DeletedRowIsGone
<1>1. IInv => DeletedRowIsGone
  BY DEF IInv, GoneOK, DeletedRowIsGone
<1> QED
  BY <1>1, Invariance, PTL

\* No handler takes a row out of the table or clears deleted: a PUT writes the
\* columns of its body only.
THEOREM DeletionsAreFinal == Spec => DeletionIsFinal
<1>1. [Next]_vars => rows \subseteq rows' /\ deleted \subseteq deleted'
  <2> SUFFICES ASSUME [Next]_vars
               PROVE  rows \subseteq rows' /\ deleted \subseteq deleted'
    OBVIOUS
  <2> QED
    BY DEF Next, Send, Statement, Post, Put, Delete, Arrive, Invalid, PostInsert,
           PutExists, Find, Count, PutUpdate, DeleteUpdate, PutReread, Throws,
           Crash, Table, vars
<1> QED
  BY <1>1, PTL DEF Spec, DeletionIsFinal
=============================================================================
