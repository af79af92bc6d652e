----------------------------- MODULE AccessSync -----------------------------
(***************************************************************************)
(* The transactions of internal/repository/postgres that decide who may    *)
(* use which project (accounts, project_access, access_requests), and the  *)
(* journal sync_events through which client projects follow them.          *)
(*                                                                         *)
(* Every operation runs as a transaction at READ COMMITTED, one statement  *)
(* at a time, interleaved with the statements of the others.  A statement  *)
(* reads committed rows, takes row locks it keeps until the end, or waits  *)
(* for one; the journal is written under a transaction-scoped advisory     *)
(* lock.  Nothing is visible before Commit, and any transaction may roll   *)
(* back at any point (a failed statement, a cancelled request, a crash).   *)
(***************************************************************************)
EXTENDS Naturals, FiniteSets

CONSTANTS
    Users,          \* accounts, all with a verified email
    Projects,       \* client projects
    Txs,            \* slots for concurrently running operations
    RoleNames,      \* role names of a project
    AdminRole,      \* the role 'admin'
    Profiles,       \* contents of the profile columns
    FirstProfile,   \* what they hold at first
    InitialAccess,  \* Users \X Projects -> roles held at first
    Ops,            \* operations this instance runs
    MaxEvents,      \* bound: no operation starts once this many ids are used
    None            \* no transaction, no row, no value

Rows == Users \X Projects

NoAccess == {}      \* the roles of an absent project_access row

AccessKinds == {"access.granted", "roles.changed", "profile.updated",
                "access.revoked", "sessions.revoked", "none"}

(***************************************************************************)
(* The operations, each as the order of its statements: the field of a     *)
(* statement names the one that follows it.  The first group commits what  *)
(* it wrote at "commit"; RequestAccess and EnsureBootstrap run outside a   *)
(* transaction, each of their statements committing by itself.             *)
(***************************************************************************)
GrantAccess ==
    [start |-> "active", active |-> "probe", probe |-> "upsert",
     upsert |-> "close", close |-> "payload", payload |-> "insert",
     insert |-> "commit"]

RevokeAccess ==
    [start |-> "delete", delete |-> "insert", insert |-> "commit"]

(* A version of RevokeProjectAccess that forgets the journal. *)
SilentRevokeProjectAccess == [start |-> "delete", delete |-> "commit"]

RevokeProjectAccess ==
    [start |-> "delete", delete |-> "insert", insert |-> "commit"]

(* A version of SetProjectRoles that forgets the journal. *)
SilentSetProjectRoles ==
    [start |-> "update", update |-> "payload", payload |-> "commit"]

SetProjectRoles ==
    [start |-> "update", update |-> "payload", payload |-> "insert",
     insert |-> "commit"]

ApproveRequest ==
    [start |-> "claim", claim |-> "upsert", upsert |-> "payload",
     payload |-> "insert", insert |-> "commit"]

GrantProjectAdmin ==
    [start |-> "active", active |-> "merge", merge |-> "payload",
     payload |-> "insert", insert |-> "commit"]

UpdateProfile ==
    [start |-> "account", account |-> "projects", projects |-> "roles",
     roles |-> "insert", insert |-> "commit"]

(* A version of UpdateLegacyProfile that tells only the calling project. *)
OwnProjectLegacyProfile ==
    [start |-> "account", account |-> "ownRoles", ownRoles |-> "ownInsert",
     ownInsert |-> "commit"]

UpdateLegacyProfile ==
    [start |-> "account", account |-> "ownRoles", ownRoles |-> "ownInsert",
     ownInsert |-> "projects", projects |-> "roles", roles |-> "insert",
     insert |-> "commit"]

(* A version of DisableAccount that deletes the rows and queues no event. *)
SilentDisableAccount ==
    [start |-> "account", account |-> "scan", scan |-> "wipe",
     wipe |-> "commit"]

DisableAccount ==
    [start |-> "account", account |-> "projects", projects |-> "insert",
     insert |-> "scan", scan |-> "wipe", wipe |-> "commit"]

ActivateAccount == [start |-> "account", account |-> "commit"]

GrantGlobalAdmin == [start |-> "account", account |-> "commit"]

ResetPassword ==
    [start |-> "account", account |-> "projects", projects |-> "insert",
     insert |-> "commit"]

ChangePassword ==
    [start |-> "account", account |-> "projects", projects |-> "insert",
     insert |-> "commit"]

RequestAccess == [start |-> "read", read |-> "request"]

EnsureBootstrap == [start |-> "admin", admin |-> "adminAccess"]

Program ==
    [GrantAccess         |-> GrantAccess,
     RevokeAccess        |-> RevokeAccess,
     RevokeProjectAccess |-> RevokeProjectAccess,
     SetProjectRoles     |-> SetProjectRoles,
     ApproveRequest      |-> ApproveRequest,
     GrantProjectAdmin   |-> GrantProjectAdmin,
     UpdateProfile       |-> UpdateProfile,
     UpdateLegacyProfile |-> UpdateLegacyProfile,
     DisableAccount      |-> DisableAccount,
     ActivateAccount     |-> ActivateAccount,
     GrantGlobalAdmin    |-> GrantGlobalAdmin,
     ResetPassword       |-> ResetPassword,
     ChangePassword      |-> ChangePassword,
     RequestAccess       |-> RequestAccess,
     EnsureBootstrap     |-> EnsureBootstrap]

AllOps == DOMAIN Program

Statements == {"active", "probe", "upsert", "merge", "close", "claim", "payload",
               "update", "delete", "account", "projects", "roles", "ownRoles",
               "insert", "ownInsert", "scan", "wipe", "commit", "read",
               "request", "admin", "adminAccess", "idle"}

(* Operations about one user in one project, and those that write no event. *)
RowOps == {"GrantAccess", "RevokeAccess", "RevokeProjectAccess",
           "SetProjectRoles", "ApproveRequest", "GrantProjectAdmin",
           "UpdateLegacyProfile", "RequestAccess", "EnsureBootstrap"}

SilentOps == {"ActivateAccount", "GrantGlobalAdmin", "RequestAccess",
              "EnsureBootstrap"}

(* The roles a caller may assign: a non-empty list of valid, distinct names. *)
ValidRoles == (SUBSET RoleNames) \ {NoAccess}

RolesOf(op) ==
    IF op \in {"GrantAccess", "SetProjectRoles", "ApproveRequest"}
    THEN ValidRoles ELSE {NoAccess}

ProfilesOf(op) ==
    IF op \in {"UpdateProfile", "UpdateLegacyProfile"}
    THEN Profiles ELSE {None}

ProjectsOf(op) == IF op \in RowOps THEN Projects ELSE {None}

(* The event type the operation passes to QueueEvent. *)
KindOf(op) ==
    CASE op \in {"GrantAccess", "ApproveRequest", "GrantProjectAdmin"}
           -> "access.granted"
      [] op = "SetProjectRoles" -> "roles.changed"
      [] op \in {"UpdateProfile", "UpdateLegacyProfile"} -> "profile.updated"
      [] op \in {"RevokeAccess", "RevokeProjectAccess", "DisableAccount"}
           -> "access.revoked"
      [] op \in {"ResetPassword", "ChangePassword"} -> "sessions.revoked"
      [] op \in SilentOps -> "none"

ASSUME OpsAssumption == Ops \subseteq AllOps

ASSUME ValuesAssumption ==
    /\ AdminRole \in RoleNames
    /\ FirstProfile \in Profiles
    /\ InitialAccess \in [Rows -> SUBSET RoleNames]
    /\ MaxEvents \in Nat
    /\ None \notin Txs \cup Projects

VARIABLES
    account,      \* committed accounts: [status, admin, profile]
    access,       \* committed project_access: the roles, NoAccess if no row
    request,      \* committed access_requests: "none" if no row
    feed,         \* committed sync_events
    nextId,       \* the identity sequence of sync_events (never rolled back)
    accountLock,  \* holder of the lock on an accounts row
    accessLock,   \* holder of the lock on a project_access row
    requestLock,  \* holder of the lock on an access_requests row
    syncLock,     \* holder of the advisory lock 77213003
    tx            \* the running operations

tables == <<account, access, request, feed>>
locks == <<accountLock, accessLock, requestLock, syncLock>>
vars == <<tables, nextId, locks, tx>>

Statuses == {"pending", "active", "disabled"}
Accounts == [status : Statuses, admin : BOOLEAN, profile : Profiles]
Requests == {"none", "pending", "approved"}
Events == [id : Nat, project : Projects, kind : AccessKinds, user : Users,
           roles : SUBSET RoleNames, profile : Profiles \cup {None}]

Idle ==
    [op |-> "none", pc |-> "idle", user |-> None, project |-> None,
     kind |-> "none", roles |-> NoAccess, profile |-> None, row |-> None,
     todo |-> {}, events |-> {}]

Init ==
    /\ account \in [Users -> [status : {"pending", "active"}, admin : {FALSE},
                              profile : {FirstProfile}]]
    /\ access = InitialAccess
    /\ \A r \in Rows : access[r] # NoAccess => account[r[1]].status = "active"
    /\ request = [r \in Rows |-> "none"]
    /\ feed = {}
    /\ nextId = 1
    /\ accountLock = [u \in Users |-> None]
    /\ accessLock = [r \in Rows |-> None]
    /\ requestLock = [r \in Rows |-> None]
    /\ syncLock = None
    /\ tx = [t \in Txs |-> Idle]
-----------------------------------------------------------------------------
(***************************************************************************)
(* Waiting, advancing, rolling back.                                       *)
(***************************************************************************)
RowOfTx(t) == <<tx[t].user, tx[t].project>>

Others(t, holder) == {holder} \ {None, t}

(* ChangePassword reads the account FOR UPDATE, the only row lock that      *)
(* conflicts with the foreign-key check of an INSERT that refers to it.    *)
KeyLocked(t, u) ==
    {s \in Others(t, accountLock[u]) : tx[s].op = "ChangePassword"}

(* PostgreSQL: the transactions whose locks the pending statement of t must *)
(* wait for.  A row that another transaction has inserted and not yet      *)
(* committed is invisible to UPDATE, DELETE and SELECT, which do not wait  *)
(* for it; an INSERT of the same key does.                                 *)
BlockedBy(t) ==
    LET pc == tx[t].pc
        u == tx[t].user
        r == RowOfTx(t)
    IN  CASE pc \in {"probe", "update", "delete", "wipe"} ->
               {s \in Others(t, accessLock[r]) : access[r] # NoAccess}
          [] pc \in {"upsert", "merge", "adminAccess"} ->
               Others(t, accessLock[r])
                 \cup {s \in KeyLocked(t, u) : access[r] = NoAccess}
          [] pc \in {"claim", "close"} ->
               {s \in Others(t, requestLock[r]) : request[r] = "pending"}
          [] pc = "request" ->
               Others(t, requestLock[r])
                 \cup {s \in KeyLocked(t, u) : request[r] = "none"}
          [] pc \in {"account", "admin"} -> Others(t, accountLock[u])
          [] pc \in {"insert", "ownInsert"} -> Others(t, syncLock)
          [] OTHER -> {}

(* t is about to run the statement, and nothing holds it up. *)
At(t, statement) == tx[t].pc = statement /\ BlockedBy(t) = {}

After(t) == Program[tx[t].op][tx[t].pc]

Advance(t) == tx' = [tx EXCEPT ![t].pc = After(t)]

Freed(lock, t) == [k \in DOMAIN lock |-> IF lock[k] = t THEN None ELSE lock[k]]

ReleaseLocks(t) ==
    /\ accountLock' = Freed(accountLock, t)
    /\ accessLock' = Freed(accessLock, t)
    /\ requestLock' = Freed(requestLock, t)
    /\ syncLock' = IF syncLock = t THEN None ELSE syncLock

Rollback(t) == tx' = [tx EXCEPT ![t] = Idle] /\ ReleaseLocks(t)

(* The statement finds the row it needs, or the operation returns an error. *)
Require(t, found) ==
    IF found THEN Advance(t) /\ UNCHANGED locks ELSE Rollback(t)

(* Visit the projects of S in turn with the statement `each', then go on to *)
(* `done': the states in which the operation may continue from state n.    *)
Visits(n, S, each, done) ==
    IF S = {}
    THEN {[n EXCEPT !.pc = done]}
    ELSE {[n EXCEPT !.pc = each, !.project = p, !.todo = S \ {p}] : p \in S}

ProjectsWithAccess(u) == {p \in Projects : access[<<u, p>>] # NoAccess}

-----------------------------------------------------------------------------
(***************************************************************************)
(* The statements.                                                         *)
(***************************************************************************)
Started(op, u, p, R, f) ==
    [Idle EXCEPT !.op = op, !.pc = Program[op].start, !.user = u, !.project = p,
                 !.kind = KindOf(op), !.roles = R, !.profile = f]

(* A request, a management call or a CLI command arrives. *)
Begin(t) ==
    /\ tx[t].pc = "idle"
    /\ \E op \in Ops, u \in Users :
         \E p \in ProjectsOf(op), R \in RolesOf(op), f \in ProfilesOf(op) :
           /\ op \in SilentOps \/ nextId <= MaxEvents
           /\ tx' = [tx EXCEPT ![t] = Started(op, u, p, R, f)]
    /\ UNCHANGED <<tables, nextId, locks>>

(* The account must be active before access is granted (no lock is taken).  *)
CheckActive(t) ==
    /\ At(t, "active")
    /\ Require(t, account[tx[t].user].status = "active")
    /\ UNCHANGED <<tables, nextId>>

(* SELECT ... FOR UPDATE decides between access.granted and roles.changed.  *)
ProbeAccess(t) ==
    /\ At(t, "probe")
    /\ LET r == RowOfTx(t)
       IN  IF access[r] = NoAccess
           THEN Advance(t) /\ UNCHANGED accessLock
           ELSE /\ accessLock' = [accessLock EXCEPT ![r] = t]
                /\ tx' = [tx EXCEPT ![t].pc = After(t),
                                    ![t].kind = "roles.changed"]
    /\ UNCHANGED <<tables, nextId, accountLock, requestLock, syncLock>>

(* INSERT INTO project_access ... ON CONFLICT DO UPDATE SET roles. *)
UpsertAccess(t) ==
    /\ At(t, "upsert")
    /\ accessLock' = [accessLock EXCEPT ![RowOfTx(t)] = t]
    /\ Advance(t)
    /\ UNCHANGED <<tables, nextId, accountLock, requestLock, syncLock>>

(* The operator's variant adds 'admin' to the roles that are there. *)
MergeAdmin(t) ==
    /\ At(t, "merge")
    /\ accessLock' = [accessLock EXCEPT ![RowOfTx(t)] = t]
    /\ tx' = [tx EXCEPT ![t].pc = After(t),
                        ![t].roles = access[RowOfTx(t)] \cup {AdminRole}]
    /\ UNCHANGED <<tables, nextId, accountLock, requestLock, syncLock>>

(* UPDATE or DELETE of an existing project_access row. *)
LockExisting(t) ==
    LET r == RowOfTx(t)
    IN  IF access[r] = NoAccess
        THEN Rollback(t)
        ELSE /\ accessLock' = [accessLock EXCEPT ![r] = t]
             /\ Advance(t)
             /\ UNCHANGED <<accountLock, requestLock, syncLock>>

UpdateRoles(t) ==
    /\ At(t, "update")
    /\ LockExisting(t)
    /\ UNCHANGED <<tables, nextId>>

DeleteAccess(t) ==
    /\ At(t, "delete")
    /\ LockExisting(t)
    /\ UNCHANGED <<tables, nextId>>

(* A version of ClaimRequest without AND status='pending'. *)
ClaimAnyRequest(t) ==
    /\ At(t, "claim")
    /\ request[RowOfTx(t)] # "none"
    /\ requestLock' = [requestLock EXCEPT ![RowOfTx(t)] = t]
    /\ Advance(t)
    /\ UNCHANGED <<tables, nextId, accountLock, accessLock, syncLock>>

(* The request to approve must still be pending. *)
ClaimRequest(t) ==
    /\ At(t, "claim")
    /\ LET r == RowOfTx(t)
       IN  IF request[r] # "pending"
           THEN Rollback(t)
           ELSE /\ requestLock' = [requestLock EXCEPT ![r] = t]
                /\ Advance(t)
                /\ UNCHANGED <<accountLock, accessLock, syncLock>>
    /\ UNCHANGED <<tables, nextId>>

(* A direct grant closes the pending request, if there is one. *)
CloseRequest(t) ==
    /\ At(t, "close")
    /\ LET r == RowOfTx(t)
       IN  requestLock' = IF request[r] = "pending"
                          THEN [requestLock EXCEPT ![r] = t]
                          ELSE requestLock
    /\ Advance(t)
    /\ UNCHANGED <<tables, nextId, accountLock, accessLock, syncLock>>

(* The payload of a grant: the profile of an account that is still active. *)
AccountPayload(t) ==
    /\ At(t, "payload")
    /\ LET a == account[tx[t].user]
       IN  IF a.status = "active"
           THEN /\ tx' = [tx EXCEPT ![t].pc = After(t),
                                    ![t].profile = a.profile]
                /\ UNCHANGED locks
           ELSE Rollback(t)
    /\ UNCHANGED <<tables, nextId>>

(* The WHERE clauses with DisableAccount's lacking AND is_global_admin=false. *)
MatchesAnyAdmin(op, a) ==
    CASE op \in {"UpdateProfile", "GrantGlobalAdmin"} -> a.status = "active"
      [] op \in {"DisableAccount", "ChangePassword"} -> a.status # "disabled"
      [] op = "ActivateAccount" -> a.status # "active"
      [] OTHER -> TRUE

(* The WHERE clause of the UPDATE (SELECT FOR UPDATE) of the account. *)
Matches(op, a) ==
    CASE op \in {"UpdateProfile", "GrantGlobalAdmin"} -> a.status = "active"
      [] op = "DisableAccount" -> a.status # "disabled" /\ ~a.admin
      [] op = "ActivateAccount" -> a.status \in {"pending", "disabled"}
      [] op = "ChangePassword" -> a.status # "disabled"
      [] OTHER -> TRUE

(* A SET clause with a status the others do not know. *)
UpdatedToEnabled(op, a, f) ==
    IF op = "ActivateAccount" THEN [a EXCEPT !.status = "enabled"] ELSE a

(* Its SET clause. *)
Updated(op, a, f) ==
    CASE op \in {"UpdateProfile", "UpdateLegacyProfile"} ->
           [a EXCEPT !.profile = f]
      [] op = "DisableAccount" -> [a EXCEPT !.status = "disabled"]
      [] op = "ActivateAccount" -> [a EXCEPT !.status = "active"]
      [] op = "GrantGlobalAdmin" -> [a EXCEPT !.admin = TRUE]
      [] OTHER -> a

UpdateAccount(t) ==
    /\ At(t, "account")
    /\ LET u == tx[t].user
           op == tx[t].op
       IN  IF Matches(op, account[u])
           THEN /\ accountLock' = [accountLock EXCEPT ![u] = t]
                /\ tx' = [tx EXCEPT ![t].pc = After(t),
                            ![t].row = Updated(op, account[u], tx[t].profile)]
                /\ UNCHANGED <<accessLock, requestLock, syncLock>>
           ELSE Rollback(t)
    /\ UNCHANGED <<tables, nextId>>

(* The projects to notify, the origin of a legacy update excepted (it was  *)
(* notified first).                                                        *)
ProfileProjects(t) ==
    /\ At(t, "projects")
    /\ \E n \in Visits(tx[t], ProjectsWithAccess(tx[t].user) \ {tx[t].project},
                       After(t), Program[tx[t].op].insert) :
         tx' = [tx EXCEPT ![t] = n]
    /\ UNCHANGED <<tables, nextId, locks>>

(* QueueEvent completes a profile.updated payload with the roles of the row, *)
(* before it takes the advisory lock.                                        *)
ReadRoles(t) ==
    /\ \/ At(t, "roles")
       \/ At(t, "ownRoles")
    /\ LET R == access[RowOfTx(t)]
       IN  IF R = NoAccess
           THEN Rollback(t)
           ELSE /\ tx' = [tx EXCEPT ![t].pc = After(t), ![t].roles = R]
                /\ UNCHANGED locks
    /\ UNCHANGED <<tables, nextId>>

Event(t) ==
    [id |-> nextId, project |-> tx[t].project, kind |-> tx[t].kind,
     user |-> tx[t].user, roles |-> tx[t].roles, profile |-> tx[t].profile]

(* The event of the project at hand, then those of the other projects. *)
Queued(t) ==
    LET n == [tx[t] EXCEPT !.events = @ \cup {Event(t)}]
        each == IF n.kind = "profile.updated" THEN "roles" ELSE "insert"
    IN  Visits(n, n.todo, each, After(t))

(* A version of QueueEvent that takes no advisory lock. *)
UnlockedQueueEvent(t) ==
    /\ \/ At(t, "insert")
       \/ At(t, "ownInsert")
    /\ nextId' = nextId + 1
    /\ \E n \in Queued(t) : tx' = [tx EXCEPT ![t] = n]
    /\ UNCHANGED <<tables, locks>>

(* The advisory lock is taken, then the journal allocates the next id. *)
QueueEvent(t) ==
    /\ \/ At(t, "insert")
       \/ At(t, "ownInsert")
    /\ syncLock' = t
    /\ nextId' = nextId + 1
    /\ \E n \in Queued(t) : tx' = [tx EXCEPT ![t] = n]
    /\ UNCHANGED <<tables, accountLock, accessLock, requestLock>>

(* DELETE FROM project_access WHERE account_id: the rows its snapshot sees, *)
(* locked one after the other; a row deleted meanwhile is skipped.          *)
ScanAccess(t) ==
    /\ At(t, "scan")
    /\ \E n \in Visits(tx[t], ProjectsWithAccess(tx[t].user), "wipe", "commit") :
         tx' = [tx EXCEPT ![t] = n]
    /\ UNCHANGED <<tables, nextId, locks>>

WipeAccess(t) ==
    /\ At(t, "wipe")
    /\ accessLock' = IF access[RowOfTx(t)] = NoAccess THEN accessLock
                     ELSE [accessLock EXCEPT ![RowOfTx(t)] = t]
    /\ \E n \in Visits(tx[t], tx[t].todo, "wipe", After(t)) :
         tx' = [tx EXCEPT ![t] = n]
    /\ UNCHANGED <<tables, nextId, accountLock, requestLock, syncLock>>

(* A commit that keeps the advisory lock, as pg_advisory_lock would. *)
LeakyCommit(t) ==
    /\ At(t, "commit")
    /\ account' = [u \in Users |-> IF accountLock[u] = t THEN tx[t].row
                                   ELSE account[u]]
    /\ access' = [r \in Rows |-> IF accessLock[r] = t THEN tx[t].roles
                                 ELSE access[r]]
    /\ request' = [r \in Rows |-> IF requestLock[r] = t THEN "approved"
                                  ELSE request[r]]
    /\ feed' = feed \cup tx[t].events
    /\ tx' = [tx EXCEPT ![t] = Idle]
    /\ accountLock' = Freed(accountLock, t)
    /\ accessLock' = Freed(accessLock, t)
    /\ requestLock' = Freed(requestLock, t)
    /\ UNCHANGED <<nextId, syncLock>>

(* The new versions of the locked rows and the events become visible, and   *)
(* the locks are released, in one step.  NoAccess among the roles is a      *)
(* deleted row.                                                             *)
Commit(t) ==
    /\ At(t, "commit")
    /\ account' = [u \in Users |-> IF accountLock[u] = t THEN tx[t].row
                                   ELSE account[u]]
    /\ access' = [r \in Rows |-> IF accessLock[r] = t THEN tx[t].roles
                                 ELSE access[r]]
    /\ request' = [r \in Rows |-> IF requestLock[r] = t THEN "approved"
                                  ELSE request[r]]
    /\ feed' = feed \cup tx[t].events
    /\ tx' = [tx EXCEPT ![t] = Idle]
    /\ ReleaseLocks(t)
    /\ UNCHANGED nextId

(* RequestAccess of the service: nothing to ask for with access already. *)
ReadAccess(t) ==
    /\ At(t, "read")
    /\ IF access[RowOfTx(t)] = NoAccess THEN Advance(t)
       ELSE tx' = [tx EXCEPT ![t] = Idle]
    /\ UNCHANGED <<tables, nextId, locks>>

(* A new request, or a decided one asked again. *)
InsertRequest(t) ==
    /\ At(t, "request")
    /\ request' = [request EXCEPT ![RowOfTx(t)] = "pending"]
    /\ tx' = [tx EXCEPT ![t] = Idle]
    /\ UNCHANGED <<account, access, feed, nextId, locks>>

(* The configured administrator is made active and global administrator. *)
BootstrapAdmin(t) ==
    /\ At(t, "admin")
    /\ account' = [account EXCEPT ![tx[t].user].status = "active",
                                  ![tx[t].user].admin = TRUE]
    /\ Advance(t)
    /\ UNCHANGED <<access, request, feed, nextId, locks>>

(* ... and gets 'admin' in the bootstrap project unless it has access.      *)
BootstrapAccess(t) ==
    /\ At(t, "adminAccess")
    /\ access' = [access EXCEPT ![RowOfTx(t)] =
                                   IF @ = NoAccess THEN {AdminRole} ELSE @]
    /\ tx' = [tx EXCEPT ![t] = Idle]
    /\ UNCHANGED <<account, request, feed, nextId, locks>>

(* A statement fails, the request is cancelled or the process dies: what    *)
(* was not committed is lost.                                               *)
Fail(t) ==
    /\ tx[t].pc # "idle"
    /\ Rollback(t)
    /\ UNCHANGED <<tables, nextId>>

(* PostgreSQL aborts one transaction of a cycle of waits. *)
DeadlockAbort(t) ==
    /\ \E D \in SUBSET Txs :
         /\ t \in D
         /\ \A s \in D : /\ BlockedBy(s) \cap D # {}
                         /\ \E q \in D : s \in BlockedBy(q)
    /\ Rollback(t)
    /\ UNCHANGED <<tables, nextId>>

Step(t) ==
    \/ CheckActive(t)
    \/ ProbeAccess(t)
    \/ UpsertAccess(t)
    \/ MergeAdmin(t)
    \/ UpdateRoles(t)
    \/ DeleteAccess(t)
    \/ ClaimRequest(t)
    \/ CloseRequest(t)
    \/ AccountPayload(t)
    \/ UpdateAccount(t)
    \/ ProfileProjects(t)
    \/ ReadRoles(t)
    \/ QueueEvent(t)
    \/ ScanAccess(t)
    \/ WipeAccess(t)
    \/ Commit(t)
    \/ ReadAccess(t)
    \/ InsertRequest(t)
    \/ BootstrapAdmin(t)
    \/ BootstrapAccess(t)

Next == \E t \in Txs : Begin(t) \/ Step(t) \/ Fail(t) \/ DeadlockAbort(t)

Spec == Init /\ [][Next]_vars

(* Every statement that can go on does, a lock that is released again and    *)
(* again is obtained (PostgreSQL queues the waiters), and a deadlock is      *)
(* broken after deadlock_timeout.  Nothing makes operations begin or fail.   *)
Fairness ==
    /\ \A t \in Txs : SF_vars(Step(t))
    /\ WF_vars(\E t \in Txs : DeadlockAbort(t))

FairSpec == Spec /\ Fairness

-----------------------------------------------------------------------------
(***************************************************************************)
(* Properties.                                                             *)
(***************************************************************************)
TxState == [op : AllOps \cup {"none"}, pc : Statements, user : Users \cup {None},
            project : Projects \cup {None}, kind : AccessKinds,
            roles : SUBSET RoleNames, profile : Profiles \cup {None},
            row : Accounts \cup {None}, todo : SUBSET Projects,
            events : SUBSET Events]

(* Every variable has its type; locks are held by transactions. *)
TypeOK ==
    /\ account \in [Users -> Accounts]
    /\ access \in [Rows -> SUBSET RoleNames]
    /\ request \in [Rows -> Requests]
    /\ feed \in SUBSET Events
    /\ nextId \in Nat
    /\ accountLock \in [Users -> Txs \cup {None}]
    /\ accessLock \in [Rows -> Txs \cup {None}]
    /\ requestLock \in [Rows -> Txs \cup {None}]
    /\ syncLock \in Txs \cup {None}
    /\ tx \in [Txs -> TxState]

(* A client that has read the journal up to an id never misses a late       *)
(* commit: an event that becomes visible has a higher id than every event   *)
(* visible before (QueueEvent's advisory lock, events.go:12-13).            *)
CursorSafe == [][\A e \in feed' \ feed, d \in feed : d.id < e.id]_vars

(* The entry of the snapshot page (Snapshot): roles and profile of a user   *)
(* who has access and is active.                                            *)
Snapshot ==
    [r \in Rows |->
       IF access[r] = NoAccess \/ account[r[1]].status # "active" THEN None
       ELSE [roles |-> access[r], profile |-> account[r[1]].profile]]

InitialSnapshot ==
    [r \in Rows |-> IF InitialAccess[r] = NoAccess THEN None
                    ELSE [roles |-> InitialAccess[r], profile |-> FirstProfile]]

Feed == INSTANCE SyncFeed
          WITH table <- Snapshot, InitialTable <- InitialSnapshot

(* A replica that applied the journal up to its end shows what a fresh      *)
(* snapshot shows, whatever operations of the instance interleave: the      *)
(* events describe the committed rows, in the order of the commits.         *)
FeedMatchesTable == \A r \in Rows : Feed!Replica(r) = Snapshot[r]

(* The journal and the tables implement the abstract feed: every change of  *)
(* the table is published, with higher ids, in the step that makes it.      *)
ImplementsSyncFeed == Feed!Spec

(* A disabled account is gone from every replica that has read the whole    *)
(* journal, and so from the projects it had access to (DisableAccount       *)
(* queues access.revoked for each before it commits).                       *)
DisabledIsReported ==
    \A r \in Rows : account[r[1]].status = "disabled" => Feed!Replica(r) = None

(* Disabling and promoting never cross: no interleaving of DisableAccount,  *)
(* GrantGlobalAdmin and EnsureBootstrap leaves a global administrator       *)
(* disabled.                                                                *)
AdminsStayActive == \A u \in Users : account[u].admin => account[u].status = "active"

(* A request is decided once: a transaction that is to set it to approved    *)
(* finds it pending until it commits, whoever else approves the request,    *)
(* closes it by a direct grant or asks again meanwhile.                     *)
DecidedOnce == \A r \in Rows : requestLock[r] # None => request[r] = "pending"

(* Rule 4 of docs/code-architecture.ru.md: a change of roles is written     *)
(* together with its event.                                                 *)
RolesChangeWithEvent ==
    [][\A r \in Rows : access'[r] # access[r] =>
         \E e \in feed' \ feed : <<e.user, e.project>> = r]_vars

(* Every operation ends, by committing or by an error, however they wait    *)
(* for one another's locks.                                                 *)
EveryOperationEnds == \A t \in Txs : tx[t].pc # "idle" ~> tx[t].pc = "idle"
=============================================================================
