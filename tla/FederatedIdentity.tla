-------------------------- MODULE FederatedIdentity --------------------------
(***************************************************************************)
(* POST /internal/federated/resolve: the api turns an identity the gateway *)
(* has validated at an OIDC or SAML provider into a local user             *)
(* (FederatedIdentityService.resolveOrProvision).                          *)
(*                                                                         *)
(* A known identity is two SELECTs.  An unknown one is linked or           *)
(* provisioned in a READ COMMITTED transaction: its rows are seen by       *)
(* nobody before COMMIT, but they are in the unique indexes, where an      *)
(* INSERT of the same key waits for the transaction to end.  The catch     *)
(* around the transaction turns a unique violation into a second lookup.   *)
(***************************************************************************)
EXTENDS FiniteSets

CONSTANTS
    Users,          \* ids of the user table, taken or still free
    Founders,       \* the local users before the first request
    Emails,         \* e-mail addresses as the table stores them
    Claims,         \* e-mail claims as the providers write them
    Normal,         \* trim and lower case: the address each claim stands for
    HomeOf,         \* the address of each founder
    Providers, Subjects,
    Reqs,           \* requests the gateway sends, each one sent once
    None            \* a SQL NULL, or no row

ASSUME FoundersAssumption ==
    /\ Founders \subseteq Users
    /\ HomeOf \in [Founders -> Emails]
    /\ \A u, v \in Founders : HomeOf[u] = HomeOf[v] => u = v
ASSUME NormalAssumption == Normal \in [Claims -> Emails]
ASSUME NoneAssumption == None \notin Users \cup Emails

VARIABLES
    email,          \* committed rows of the user table: their address
    permissions,    \* and their permissions
    federated,      \* users with auth_source = 'federated'
    deleted,        \* users with deleted = true
    identities,     \* committed rows of federated_identity
    pc,             \* the statement the handler is about to run
    call,           \* the request
    user,           \* the user id the handler holds
    created,        \* transactions with an uncommitted row of the user table
    linked,         \* transactions with an uncommitted identity
    answer,         \* the outcome sent to the gateway
    \* History: written here, read by properties only.
    barred,         \* the users that were deleted when a request arrived
    granted         \* users an administrator gave ADMIN to

table == <<email, permissions, federated, deleted, identities>>
uncommitted == <<created, linked>>
history == <<barred, granted>>
vars == <<email, permissions, federated, deleted, identities, pc, call, user,
          created, linked, answer, barred, granted>>

Permissions == {"ADMIN", "WRITE_SOME_ENTITY", "READ_SOME_ENTITY"}
Steps == {"findIdentity", "getUser", "findLocal", "createUser", "insertIdentity",
          "commit", "findRaced", "getRaced"}
Calls == [provider: Providers, subject: Subjects, email: Emails,
          verified: BOOLEAN, suggested: SUBSET Permissions]
ASSUME NoCallAssumption == None \notin Calls

\* Every throw is the same 400 to the gateway; "failed" tells a fault of the
\* database from the service's own refusal.
Answers == {"none", "resolved", "refused", "failed", "bad-request"}

Identities == [provider: Providers, subject: Subjects, user: Users]

TypeOK ==
    /\ email \in [Users -> Emails \cup {None}]
    /\ permissions \in [Users -> SUBSET Permissions]
    /\ federated \subseteq Users
    /\ deleted \subseteq Users
    /\ identities \subseteq Identities
    /\ pc \in [Reqs -> Steps \cup {"idle", "done", "lost"}]
    /\ call \in [Reqs -> Calls \cup {None}]
    /\ user \in [Reqs -> Users \cup {None}]
    /\ created \cup linked \subseteq Reqs
    /\ answer \in [Reqs -> Answers]
    /\ barred \in [Reqs -> SUBSET Users]
    /\ granted \subseteq Users
    \* A statement that binds a user id has one; a resolved request names a user.
    /\ \A r \in Reqs :
         pc[r] \in {"getUser", "insertIdentity", "commit", "getRaced"}
            \/ answer[r] = "resolved" => user[r] \in Users

Init ==
    /\ email = [u \in Users |-> IF u \in Founders THEN HomeOf[u] ELSE None]
    /\ permissions = [u \in Users |-> IF u \in Founders THEN {"READ_SOME_ENTITY"} ELSE {}]
    /\ federated = {} /\ deleted = {} /\ identities = {}
    /\ pc = [r \in Reqs |-> "idle"]
    /\ call = [r \in Reqs |-> None]
    /\ user = [r \in Reqs |-> None]
    /\ created = {} /\ linked = {}
    /\ answer = [r \in Reqs |-> "none"]
    /\ barred = [r \in Reqs |-> {}]
    /\ granted = {}

-----------------------------------------------------------------------------
(* Rows and handlers *)

Row(r) == [provider |-> call[r].provider, subject |-> call[r].subject, user |-> user[r]]

\* The two partial unique indexes of federated_identity (no row of it is ever
\* soft-deleted by this code).
Clash(i, j) == i.provider = j.provider /\ (i.subject = j.subject \/ i.user = j.user)

\* The row findOne returns for the request's provider and subject.
Known(r) == {i \in identities : i.provider = call[r].provider /\ i.subject = call[r].subject}

Live(u) == email[u] # None /\ u \notin deleted
Free(u) == email[u] = None /\ \A q \in created : user[q] # u
EmailTaken(e) == \E u \in Users : email[u] = e      \* deleted rows included
EmailHeld(e) == \E q \in created : call[q].email = e

SanitizeKeepsAdmin(s) ==   \* mutant of Sanitize: the claim is taken as it is
    IF s = {} THEN {"READ_SOME_ENTITY"} ELSE s

Sanitize(s) == IF s \ {"ADMIN"} = {} THEN {"READ_SOME_ENTITY"} ELSE s \ {"ADMIN"}

Running(r) == pc[r] \in Steps

Goto(r, step) ==
    /\ pc' = [pc EXCEPT ![r] = step]
    /\ UNCHANGED answer

Reply(r, a) ==
    /\ pc' = [pc EXCEPT ![r] = "done"]
    /\ answer' = [answer EXCEPT ![r] = a]

RollbackForgotten(r) ==   \* mutant of Rollback: the transaction is left open
    UNCHANGED uncommitted

Rollback(r) == created' = created \ {r} /\ linked' = linked \ {r}

Hold(r, u) == user' = [user EXCEPT ![r] = u]

-----------------------------------------------------------------------------
(* resolve *)

Resolve(r, p, s, c, v, suggested) ==
    /\ pc[r] = "idle"
    /\ call' = [call EXCEPT ![r] = [provider |-> p, subject |-> s, email |-> Normal[c],
                                    verified |-> v, suggested |-> suggested]]
    /\ barred' = [barred EXCEPT ![r] = deleted]
    /\ Goto(r, "findIdentity")
    /\ UNCHANGED <<table, user, uncommitted, granted>>

\* The schema answers 400 before the handler runs.
Invalid(r) ==
    /\ pc[r] = "idle"
    /\ Reply(r, "bad-request")
    /\ UNCHANGED <<table, call, user, uncommitted, history>>

\* Neither an identity nor its live user: the branch on email_verified.
UnknownUnchecked(r) == Goto(r, "findLocal")   \* mutant of Unknown: email_verified is not asked for

Unknown(r) == IF call[r].verified THEN Goto(r, "findLocal") ELSE Reply(r, "refused")

FindIdentity(r) ==
    /\ pc[r] = "findIdentity"
    /\ \/ \E i \in Known(r) : Hold(r, i.user) /\ Goto(r, "getUser")
       \/ Known(r) = {} /\ UNCHANGED user /\ Unknown(r)
    /\ UNCHANGED <<table, call, uncommitted, history>>

GetUserDeletedToo(r) ==   \* mutant of GetUser: deleted rows included
    /\ pc[r] = "getUser"
    /\ Reply(r, "resolved")
    /\ UNCHANGED <<table, call, user, uncommitted, history>>

GetUser(r) ==
    /\ pc[r] = "getUser"
    /\ IF Live(user[r]) THEN Reply(r, "resolved") ELSE Unknown(r)
    /\ UNCHANGED <<table, call, user, uncommitted, history>>

FindLocalNotKept(r) ==   \* mutant of FindLocal: the id of the local user is not handed on
    /\ pc[r] = "findLocal"
    /\ IF \E u \in Users : Live(u) /\ email[u] = call[r].email
       THEN Goto(r, "insertIdentity") ELSE Goto(r, "createUser")
    /\ UNCHANGED <<table, call, user, uncommitted, history>>

\* In the transaction from here: the live user with the verified address.
FindLocal(r) ==
    /\ pc[r] = "findLocal"
    /\ \/ \E u \in Users :
            /\ Live(u) /\ email[u] = call[r].email
            /\ Hold(r, u) /\ Goto(r, "insertIdentity")
       \/ /\ ~ \E u \in Users : Live(u) /\ email[u] = call[r].email
          /\ UNCHANGED user /\ Goto(r, "createUser")
    /\ UNCHANGED <<table, call, uncommitted, history>>

CreateUserRethrows(r) ==   \* mutant of CreateUser: the catch does not look for the winner
    /\ pc[r] = "createUser"
    /\ ~EmailHeld(call[r].email)
    /\ \/ EmailTaken(call[r].email) /\ Reply(r, "refused") /\ UNCHANGED <<user, uncommitted>>
       \/ /\ ~EmailTaken(call[r].email)
          /\ \E u \in Users : Free(u) /\ Hold(r, u)
          /\ created' = created \cup {r}
          /\ Goto(r, "insertIdentity") /\ UNCHANGED linked
    /\ UNCHANGED <<table, call, history>>

CreateUserCommitted(r) ==   \* mutant of CreateUser: the INSERT is not given the transaction
    /\ pc[r] = "createUser"
    /\ ~EmailHeld(call[r].email)
    /\ \/ EmailTaken(call[r].email) /\ Goto(r, "findRaced")
          /\ UNCHANGED <<user, email, permissions, federated>>
       \/ /\ ~EmailTaken(call[r].email)
          /\ \E u \in Users :
               /\ Free(u) /\ Hold(r, u)
               /\ email' = [email EXCEPT ![u] = call[r].email]
               /\ permissions' = [permissions EXCEPT ![u] = Sanitize(call[r].suggested)]
               /\ federated' = federated \cup {u}
          /\ Goto(r, "insertIdentity")
    /\ UNCHANGED <<deleted, identities, call, uncommitted, history>>

\* INSERT of the user: it waits for an uncommitted row with the same address, and
\* a committed one, deleted or not, is a unique violation.
CreateUser(r) ==
    /\ pc[r] = "createUser"
    /\ ~EmailHeld(call[r].email)
    /\ \/ /\ EmailTaken(call[r].email)
          /\ Rollback(r) /\ Goto(r, "findRaced") /\ UNCHANGED user
       \/ /\ ~EmailTaken(call[r].email)
          /\ \E u \in Users : Free(u) /\ Hold(r, u)
          /\ created' = created \cup {r} /\ UNCHANGED linked
          /\ Goto(r, "insertIdentity")
    /\ UNCHANGED <<table, call, history>>

InsertIdentityUnindexed(r) ==   \* mutant of InsertIdentity: without the unique indexes
    /\ pc[r] = "insertIdentity"
    /\ linked' = linked \cup {r} /\ UNCHANGED created /\ Goto(r, "commit")
    /\ UNCHANGED <<table, call, user, history>>

\* INSERT of the identity, in the same way.
InsertIdentity(r) ==
    /\ pc[r] = "insertIdentity"
    /\ \A q \in linked : ~Clash(Row(q), Row(r))
    /\ \/ /\ \E i \in identities : Clash(i, Row(r))
          /\ Rollback(r) /\ Goto(r, "findRaced")
       \/ /\ \A i \in identities : ~Clash(i, Row(r))
          /\ linked' = linked \cup {r} /\ UNCHANGED created
          /\ Goto(r, "commit")
    /\ UNCHANGED <<table, call, user, history>>

\* COMMIT; the answer can be lost after it took effect.
Commit(r) ==
    /\ pc[r] = "commit"
    /\ identities' = identities \cup {Row(r)}
    /\ IF r \in created
       THEN /\ email' = [email EXCEPT ![user[r]] = call[r].email]
            /\ permissions' = [permissions EXCEPT ![user[r]] = Sanitize(call[r].suggested)]
            /\ federated' = federated \cup {user[r]}
       ELSE UNCHANGED <<email, permissions, federated>>
    /\ Rollback(r)
    /\ \E a \in {"resolved", "failed"} : Reply(r, a)
    /\ UNCHANGED <<deleted, call, user, history>>

\* The catch of a unique violation: the winner by its natural key, or rethrow.
FindRaced(r) ==
    /\ pc[r] = "findRaced"
    /\ \/ \E i \in Known(r) : Hold(r, i.user) /\ Goto(r, "getRaced")
       \/ Known(r) = {} /\ UNCHANGED user /\ Reply(r, "refused")
    /\ UNCHANGED <<table, call, uncommitted, history>>

GetRaced(r) ==
    /\ pc[r] = "getRaced"
    /\ IF Live(user[r]) THEN Reply(r, "resolved") ELSE Reply(r, "refused")
    /\ UNCHANGED <<table, call, user, uncommitted, history>>

\* A statement throws anything but a unique violation.
DbError(r) ==
    /\ Running(r)
    /\ Rollback(r)
    /\ Reply(r, "failed")
    /\ UNCHANGED <<table, call, user, history>>

\* The api restarts: the database rolls its open transactions back.
Crash ==
    /\ \E r \in Reqs : Running(r)
    /\ pc' = [r \in Reqs |-> IF Running(r) THEN "lost" ELSE pc[r]]
    /\ created' = {} /\ linked' = {}
    /\ UNCHANGED <<table, call, user, answer, history>>

-----------------------------------------------------------------------------
(* What the administrators do meanwhile: UserCrudService.put and delete *)

Unchanged == UNCHANGED <<identities, pc, call, user, uncommitted, answer, barred>>

DeleteUser(u) ==
    /\ Live(u)
    /\ deleted' = deleted \cup {u}
    /\ Unchanged /\ UNCHANGED <<email, permissions, federated, granted>>

ChangeEmail(u, e) ==
    /\ Live(u) /\ ~EmailTaken(e) /\ ~EmailHeld(e)
    /\ email' = [email EXCEPT ![u] = e]
    /\ Unchanged /\ UNCHANGED <<permissions, federated, deleted, granted>>

GrantAdmin(u) ==
    /\ Live(u)
    /\ permissions' = [permissions EXCEPT ![u] = @ \cup {"ADMIN"}]
    /\ granted' = granted \cup {u}
    /\ Unchanged /\ UNCHANGED <<email, federated, deleted>>

-----------------------------------------------------------------------------

Send(r) ==
    \/ \E p \in Providers, s \in Subjects, c \in Claims, v \in BOOLEAN,
          suggested \in {{}, {"ADMIN", "WRITE_SOME_ENTITY"}} : Resolve(r, p, s, c, v, suggested)
    \/ Invalid(r)

Statement(r) ==
    \/ FindIdentity(r)
    \/ GetUser(r)
    \/ FindLocal(r)
    \/ CreateUser(r)
    \/ InsertIdentity(r)
    \/ Commit(r)
    \/ FindRaced(r)
    \/ GetRaced(r)

Next ==
    \/ \E r \in Reqs : Send(r) \/ Statement(r) \/ DbError(r)
    \/ Crash
    \/ \E u \in Users : DeleteUser(u) \/ GrantAdmin(u)
    \/ \E u \in Users, e \in Emails : ChangeEmail(u, e)

\* Every statement ends unless it waits in a unique index, and what it waits for
\* is another transaction's next statement.
Fairness == \A r \in Reqs : WF_vars(Statement(r))

Spec == Init /\ [][Next]_vars
FairSpec == Spec /\ Fairness

-----------------------------------------------------------------------------
(* Properties *)

\* A provider's subject is the same local user in every session, whichever request
\* linked it and whichever lost the race and looked it up (service.ts:83-88).
SameIdentitySameUser ==
    \A q, r \in Reqs :
        /\ answer[q] = "resolved" /\ answer[r] = "resolved"
        /\ call[q].provider = call[r].provider /\ call[q].subject = call[r].subject
        => user[q] = user[r]

\* A user who was deleted when a request arrived is not who it resolves to, by the
\* identity, by the address, or by the lookup after a lost race.
DeletedNeverResolved ==
    \A r \in Reqs : answer[r] = "resolved" => user[r] \notin barred[r]

\* ADMIN is only ever given by an administrator, whatever groups a provider claims
\* and however its user came to be (service.ts:19-27).
AdminIsGranted == \A u \in Users : "ADMIN" \in permissions[u] => u \in granted

\* No identity is stored that no request with email_verified = true asked for
\* (service.ts:24-25).
LinksAreVerified ==
    \A i \in identities : \E r \in Reqs :
        /\ call[r] # None /\ call[r].verified
        /\ call[r].provider = i.provider /\ call[r].subject = i.subject

\* What a provider claims gives no ADMIN, and nothing is linked that no verified request
\* asked for.
ClaimsGiveNothing == AdminIsGranted /\ LinksAreVerified

\* User and identity are created together or not at all: no federated user, who has
\* no password, is left without an identity to sign in with.
FederatedUserCanSignIn ==
    \A u \in federated : \E i \in identities : i.user = u

\* A verified request is refused only where looking its identity up finds no live
\* user: the loser of a race for the same identity is resolved to the winner.
LoserFindsWinner ==
    [][\A r \in Reqs :
         answer[r] # "refused" /\ answer'[r] = "refused" /\ call[r].verified
            => \A i \in Known(r) : ~Live(i.user)]_vars

\* Nobody waits for ever in a unique index.
EveryRequestEnds == \A r \in Reqs : Running(r) ~> pc[r] \in {"done", "lost"}
=============================================================================
