------------------------------ MODULE UserAdmin ------------------------------
(***************************************************************************)
(* User administration in the api: POST, PUT and DELETE /user, the         *)
(* handlers of AbstractCrudController over UserCrudService.                *)
(*                                                                         *)
(* The rule "at least one user keeps the ADMIN permission" is checked by   *)
(* reading: the user, then the number of other admins; the UPDATE comes    *)
(* statements later and repeats neither condition.  As the handlers run    *)
(* concurrently and open no transaction, every statement is a step.        *)
(***************************************************************************)
EXTENDS FiniteSets

CONSTANTS
    Users,      \* ids of the user table, taken or still free
    Founders,   \* the users before the first request, all of them admins
    Reqs,       \* requests the admins send, each one sent once
    None        \* no id: a POST names no user

ASSUME FoundersAssumption == Founders \subseteq Users /\ Founders # {}
ASSUME NoneAssumption == None \notin Users

VARIABLES
    rows,       \* ids with a row
    admins,     \* rows whose permissions contain ADMIN
    deleted,    \* rows with deleted = true
    pc,         \* the statement the handler is about to run
    op,         \* the request: its verb, the :id, and the body's permissions
    answer,     \* the response
    \* History: written here, read by properties only.
    current,    \* requests no UPDATE of another has followed the findByPk of
    torn,       \* an UPDATE was made by a request that was not current
    gone        \* requests whose user was already deleted when they arrived

history == <<current, torn, gone>>
vars == <<rows, admins, deleted, pc, op, answer, current, torn, gone>>

Steps == {"insert", "exists", "find", "count", "update", "reread"}
Answers == {"none", "ok", "created", "not-found", "last-admin", "error", "bad-request"}

\* permissions in the body: left out, with ADMIN, or without it.
Perms == {"omitted", "admin", "plain"}
Ops == [verb: {"none", "post", "put", "delete"}, id: Users \cup {None},
        permissions: Perms]
NoOp == [verb |-> "none", id |-> None, permissions |-> "omitted"]

LiveAdmins == admins \ deleted

TypeOK ==
    /\ rows \subseteq Users
    /\ admins \subseteq rows
    /\ deleted \subseteq rows
    /\ pc \in [Reqs -> Steps \cup {"idle", "done", "lost"}]
    /\ op \in [Reqs -> Ops]
    /\ answer \in [Reqs -> Answers]
    /\ current \subseteq Reqs
    /\ torn \in BOOLEAN
    /\ gone \subseteq Reqs
    \* A handler past its findByPk works on a row that is there.
    /\ \A r \in Reqs : pc[r] \in {"count", "update", "reread"} => op[r].id \in rows

Init ==
    /\ rows = Founders
    /\ admins = Founders
    /\ deleted = {}
    /\ pc = [r \in Reqs |-> "idle"]
    /\ op = [r \in Reqs |-> NoOp]
    /\ answer = [r \in Reqs |-> "none"]
    /\ current = {}
    /\ torn = FALSE
    /\ gone = {}

-----------------------------------------------------------------------------
(* Helpers *)

Running(r) == pc[r] \in Steps

Goto(r, step) ==
    /\ pc' = [pc EXCEPT ![r] = step]
    /\ UNCHANGED answer

Reply(r, a) ==
    /\ pc' = [pc EXCEPT ![r] = "done"]
    /\ answer' = [answer EXCEPT ![r] = a]

Table == <<rows, admins, deleted>>

\* The request would leave its user without ADMIN, in the service's own test: a
\* body without permissions counts as one that takes ADMIN away.
LosesAdmin(r) == op[r].verb = "delete" \/ op[r].permissions # "admin"

OtherAdminsDeletedToo(u) == admins \ {u}   \* mutant of OtherAdmins: deleted: false dropped

OtherAdmins(u) == LiveAdmins \ {u}

-----------------------------------------------------------------------------
(* The request arrives, its body already validated *)

Arrive(r, verb, u, perms, step) ==
    /\ pc[r] = "idle"
    /\ Goto(r, step)
    /\ op' = [op EXCEPT ![r] = [verb |-> verb, id |-> u, permissions |-> perms]]
    /\ gone' = IF u \in deleted THEN gone \cup {r} ELSE gone
    /\ UNCHANGED <<Table, current, torn>>

Post(r, perms) == Arrive(r, "post", None, perms, "insert")
Put(r, u, perms) == Arrive(r, "put", u, perms, "exists")
Delete(r, u) == Arrive(r, "delete", u, "omitted", "find")

\* validate(schema) answers 400 before the controller runs.
Invalid(r) ==
    /\ pc[r] = "idle"
    /\ Reply(r, "bad-request")
    /\ UNCHANGED <<Table, op, history>>

-----------------------------------------------------------------------------
(* The handlers *)

\* create: the sequence gives a fresh id; a body without permissions gets the
\* column's default, READ alone.
PostInsert(r) ==
    /\ pc[r] = "insert"
    /\ \E u \in Users \ rows :
         /\ rows' = rows \cup {u}
         /\ admins' = IF op[r].permissions = "admin" THEN admins \cup {u} ELSE admins
    /\ \E a \in {"created", "error"} : Reply(r, a)
    /\ UNCHANGED <<deleted, op, history>>

PutExistsDeletedToo(r) ==   \* mutant of PutExists: deleted rows included
    /\ pc[r] = "exists"
    /\ IF op[r].id \in rows THEN Goto(r, "find") ELSE Reply(r, "not-found")
    /\ UNCHANGED <<Table, op, history>>

\* The controller of PUT looks for a live row first.
PutExists(r) ==
    /\ pc[r] = "exists"
    /\ IF op[r].id \in rows \ deleted THEN Goto(r, "find") ELSE Reply(r, "not-found")
    /\ UNCHANGED <<Table, op, history>>

FindUnchecked(r) ==   \* mutant of Find: a missing row is not refused
    /\ pc[r] = "find"
    /\ IF op[r].id \in admins /\ LosesAdmin(r) THEN Goto(r, "count") ELSE Goto(r, "update")
    /\ current' = current \cup {r}
    /\ UNCHANGED <<Table, op, torn, gone>>

\* findByPk, deleted rows included.
Find(r) ==
    /\ pc[r] = "find"
    /\ IF op[r].id \notin rows THEN Reply(r, "error")
       ELSE IF op[r].id \in admins /\ LosesAdmin(r) THEN Goto(r, "count")
       ELSE Goto(r, "update")
    /\ current' = current \cup {r}
    /\ UNCHANGED <<Table, op, torn, gone>>

\* count of the other live admins; none makes the service throw.
Count(r) ==
    /\ pc[r] = "count"
    /\ IF OtherAdmins(op[r].id) = {} THEN Reply(r, "last-admin") ELSE Goto(r, "update")
    /\ UNCHANGED <<Table, op, history>>

PutUpdateAllFields(r) ==   \* mutant of PutUpdate: the row is written back as it was read
    /\ pc[r] = "update" /\ op[r].verb = "put"
    /\ admins' = admins
    /\ deleted' = deleted \ {op[r].id}
    /\ Goto(r, "reread")
    /\ UNCHANGED <<rows, op, history>>

\* UPDATE ... WHERE id: permissions only if the body has them, never deleted.
PutUpdate(r) ==
    /\ pc[r] = "update" /\ op[r].verb = "put"
    /\ admins' = CASE op[r].permissions = "admin" -> admins \cup {op[r].id}
                   [] op[r].permissions = "plain" -> admins \ {op[r].id}
                   [] OTHER -> admins
    /\ Goto(r, "reread") \/ Reply(r, "error")
    /\ torn' = (torn \/ r \notin current)
    /\ current' = {}
    /\ UNCHANGED <<rows, deleted, op, gone>>

DeleteUpdate(r) ==
    /\ pc[r] = "update" /\ op[r].verb = "delete"
    /\ deleted' = deleted \cup {op[r].id}
    /\ \E a \in {"ok", "error"} : Reply(r, a)
    /\ torn' = (torn \/ r \notin current)
    /\ current' = {}
    /\ UNCHANGED <<rows, admins, op, gone>>

\* The controller answers with the row as it is now, null if it was deleted since.
PutReread(r) ==
    /\ pc[r] = "reread"
    /\ Reply(r, "ok")
    /\ UNCHANGED <<Table, op, history>>

\* A statement throws (the e-mail may be taken, by a deleted row as well), or the
\* hash of the password does: nothing is written.  That a statement throws after
\* it took effect is the "error" reply of the writing steps.
Throws(r) ==
    /\ Running(r)
    /\ Reply(r, "error")
    /\ UNCHANGED <<Table, op, history>>

Crash ==
    /\ \E r \in Reqs : Running(r)
    /\ pc' = [r \in Reqs |-> IF Running(r) THEN "lost" ELSE pc[r]]
    /\ UNCHANGED <<Table, op, answer, history>>

-----------------------------------------------------------------------------

Send(r) ==
    \/ \E p \in Perms : Post(r, p)
    \/ \E u \in Users, p \in Perms : Put(r, u, p)
    \/ \E u \in Users : Delete(r, u)
    \/ Invalid(r)

Statement(r) ==
    \/ PostInsert(r)
    \/ PutExists(r)
    \/ Find(r)
    \/ Count(r)
    \/ PutUpdate(r)
    \/ DeleteUpdate(r)
    \/ PutReread(r)

Next ==
    \/ \E r \in Reqs : Send(r) \/ Statement(r) \/ Throws(r)
    \/ Crash

Spec == Init /\ [][Next]_vars

-----------------------------------------------------------------------------
(* Properties *)

\* The rule of user-crud.service.ts:53-57 and 90-94 holds as long as no UPDATE
\* came between the reads of a request and its own UPDATE.
AdminRemainsUnlessTorn == ~torn => LiveAdmins # {}

\* The rule as the service's messages state it.
AdminRemains == LiveAdmins # {}

\* A PUT that arrives after its user was deleted changes nothing and answers 404.
DeletedRowIsGone ==
    \A r \in gone :
        op[r].verb = "put" => pc[r] \notin {"find", "count", "update", "reread"}

\* Nothing undeletes a user or takes a row out of the table, whatever a PUT brings.
DeletionIsFinal == [][rows \subseteq rows' /\ deleted \subseteq deleted']_vars
=============================================================================
