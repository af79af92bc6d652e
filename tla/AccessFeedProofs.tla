-------------------------- MODULE AccessFeedProofs --------------------------
(***************************************************************************)
(* Theorems about the journal of AccessSync: the order of its ids, and     *)
(* what a replica that follows it shows.  The first part, on cursors,      *)
(* holds for every set of operations.  The second, on replicas, is about   *)
(* the operations of one family (OneFamily): beside one another the two    *)
(* families do publish events about rows that are gone or profiles that    *)
(* are old, as grant_during_disable.cfg and stale_profile_event.cfg show.  *)
(***************************************************************************)
EXTENDS AccessSyncProofs

(***************************************************************************)
(* Cursors.  Events under way belong to the holder of the advisory lock,   *)
(* and their ids are above every published one.                            *)
(***************************************************************************)
CursorInv ==
    /\ \A e \in feed : e.id < nextId
    /\ \A t \in Txs : \A e \in tx[t].events : e.id < nextId
    /\ \A t \in Txs : tx[t].events # {} => syncLock = t
    /\ \A t \in Txs : \A e \in tx[t].events, d \in feed : d.id < e.id
    /\ \A t \in Txs : \A e, d \in tx[t].events : e.id = d.id => e = d

(* A step of t that leaves the journal alone: it may drop the events of t,  *)
(* and with them the lock.                                                  *)
Quiet(t) ==
    /\ UNCHANGED <<feed, nextId>>
    /\ \A s \in Txs \ {t} : tx'[s] = tx[s]
    /\ \/ tx'[t].events = tx[t].events /\ UNCHANGED syncLock
       \/ tx'[t].events = {} /\ syncLock' \in {syncLock, None}
                             /\ (syncLock' # syncLock => syncLock = t)

LEMMA RollbackIsQuiet ==
    ASSUME LockInv, NEW t \in Txs, Rollback(t), UNCHANGED <<tables, nextId>>
    PROVE  Quiet(t)
  BY DEF LockInv, TypeInv, TxTypeOK, Rollback, ReleaseLocks, tables, Quiet, Idle

LEMMA AdvanceIsQuiet ==
    ASSUME LockInv, NEW t \in Txs, Advance(t), UNCHANGED <<tables, nextId, syncLock>>
    PROVE  Quiet(t)
  BY DEF LockInv, TypeInv, TxTypeOK, TxState, Advance, tables, Quiet

LEMMA VisitIsQuiet ==
    ASSUME LockInv, NEW t \in Txs, NEW S, NEW each, NEW done,
           \E n \in Visits(tx[t], S, each, done) : tx' = [tx EXCEPT ![t] = n],
           UNCHANGED <<feed, nextId, syncLock>>
    PROVE  Quiet(t)
<1>1. PICK n \in Visits(tx[t], S, each, done) : tx' = [tx EXCEPT ![t] = n]
  OBVIOUS
<1>2. n.events = tx[t].events
  <2>1. CASE S = {}
    BY <2>1 DEF Visits, LockInv, TypeInv, TxTypeOK, TxState
  <2>2. CASE S # {}
    <3>1. PICK p \in S : n = [tx[t] EXCEPT !.pc = each, !.project = p,
                                           !.todo = S \ {p}]
      BY <2>2 DEF Visits
    <3> QED BY <3>1 DEF LockInv, TypeInv, TxTypeOK, TxState
  <2> QED BY <2>1, <2>2
<1> QED BY <1>1, <1>2 DEF LockInv, TypeInv, TxTypeOK, Quiet

(* Only QueueEvent and Commit touch the journal. *)
LEMMA MostStepsAreQuiet ==
    ASSUME LockInv, NEW t \in Txs, Begin(t) \/ Step(t) \/ Fail(t) \/ DeadlockAbort(t)
    PROVE  QueueEvent(t) \/ Commit(t) \/ Quiet(t)
<1> USE DEF tables, locks
<1>1. CASE Begin(t)
  <2>1. tx[t] = Idle
    BY <1>1, FlowStarts DEF Begin, LockInv, TypeInv, TxTypeOK, WellFormed, Running
  <2>2. PICK op \in Ops, u \in Users :
          \E p \in ProjectsOf(op), R \in RolesOf(op), f \in ProfilesOf(op) :
            tx' = [tx EXCEPT ![t] = Started(op, u, p, R, f)]
    BY <1>1 DEF Begin
  <2>3. PICK p \in ProjectsOf(op), R \in RolesOf(op), f \in ProfilesOf(op) :
          tx' = [tx EXCEPT ![t] = Started(op, u, p, R, f)]
    BY <2>2
  <2> QED
    BY <1>1, <2>1, <2>3
       DEF Begin, Started, Idle, Quiet, LockInv, TypeInv, TxTypeOK
<1>2. CASE CheckActive(t)
  BY <1>2, RollbackIsQuiet, AdvanceIsQuiet DEF CheckActive, Require
<1>3. CASE ProbeAccess(t)
  <2>1. CASE Advance(t)
    BY <1>3, <2>1, AdvanceIsQuiet DEF ProbeAccess
  <2>2. CASE tx' = [tx EXCEPT ![t].pc = After(t), ![t].kind = "roles.changed"]
    BY <1>3, <2>2 DEF ProbeAccess, Quiet, LockInv, TypeInv, TxTypeOK, TxState
  <2> QED BY <1>3, <2>1, <2>2 DEF ProbeAccess
<1>4. CASE UpsertAccess(t)
  BY <1>4, AdvanceIsQuiet DEF UpsertAccess
<1>5. CASE MergeAdmin(t)
  BY <1>5 DEF MergeAdmin, Quiet, LockInv, TypeInv, TxTypeOK, TxState
<1>6. CASE UpdateRoles(t) \/ DeleteAccess(t)
  BY <1>6, RollbackIsQuiet, AdvanceIsQuiet DEF UpdateRoles, DeleteAccess, LockExisting
<1>7. CASE ClaimRequest(t)
  BY <1>7, RollbackIsQuiet, AdvanceIsQuiet DEF ClaimRequest
<1>8. CASE CloseRequest(t)
  BY <1>8, AdvanceIsQuiet DEF CloseRequest
<1>9. CASE AccountPayload(t)
  <2>1. CASE Rollback(t)
    BY <1>9, <2>1, RollbackIsQuiet DEF AccountPayload
  <2>2. CASE ~Rollback(t)
    BY <1>9, <2>2
       DEF AccountPayload, Quiet, LockInv, TypeInv, TxTypeOK, TxState
  <2> QED BY <2>1, <2>2
<1>10. CASE UpdateAccount(t)
  <2>1. CASE Rollback(t)
    BY <1>10, <2>1, RollbackIsQuiet DEF UpdateAccount
  <2>2. CASE ~Rollback(t)
    BY <1>10, <2>2
       DEF UpdateAccount, Quiet, LockInv, TypeInv, TxTypeOK, TxState
  <2> QED BY <2>1, <2>2
<1>11. CASE ProfileProjects(t)
  BY <1>11, VisitIsQuiet DEF ProfileProjects
<1>12. CASE ReadRoles(t)
  <2>1. CASE Rollback(t)
    BY <1>12, <2>1, RollbackIsQuiet DEF ReadRoles
  <2>2. CASE ~Rollback(t)
    BY <1>12, <2>2 DEF ReadRoles, Quiet, LockInv, TypeInv, TxTypeOK, TxState
  <2> QED BY <2>1, <2>2
<1>13. CASE ScanAccess(t)
  BY <1>13, VisitIsQuiet DEF ScanAccess
<1>14. CASE WipeAccess(t)
  BY <1>14, VisitIsQuiet DEF WipeAccess
<1>15. CASE ReadAccess(t)
  <2>1. CASE Advance(t)
    BY <1>15, <2>1, AdvanceIsQuiet DEF ReadAccess
  <2>2. CASE tx' = [tx EXCEPT ![t] = Idle]
    BY <1>15, <2>2 DEF ReadAccess, Quiet, LockInv, TypeInv, TxTypeOK, Idle
  <2> QED BY <1>15, <2>1, <2>2 DEF ReadAccess
<1>16. CASE InsertRequest(t)
  BY <1>16 DEF InsertRequest, Quiet, LockInv, TypeInv, TxTypeOK, Idle
<1>17. CASE BootstrapAdmin(t)
  BY <1>17 DEF BootstrapAdmin, Advance, Quiet, LockInv, TypeInv, TxTypeOK, TxState
<1>18. CASE BootstrapAccess(t)
  BY <1>18 DEF BootstrapAccess, Quiet, LockInv, TypeInv, TxTypeOK, Idle
<1>19. CASE Fail(t) \/ DeadlockAbort(t)
  BY <1>19, RollbackIsQuiet DEF Fail, DeadlockAbort
<1> QED
  BY <1>1, <1>2, <1>3, <1>4, <1>5, <1>6, <1>7, <1>8, <1>9, <1>10, <1>11, <1>12,
     <1>13, <1>14, <1>15, <1>16, <1>17, <1>18, <1>19 DEF Step

LEMMA QueueEventCursor ==
    ASSUME LockInv, CursorInv, NEW t \in Txs, QueueEvent(t)
    PROVE  CursorInv' /\ UNCHANGED feed
<1> DEFINE n == [tx[t] EXCEPT !.events = @ \cup {Event(t)}]
<1>1. BlockedBy(t) = {} /\ tx[t].pc \in {"insert", "ownInsert"}
  BY DEF QueueEvent, At
<1>2. syncLock \in {None, t}
  BY <1>1 DEF BlockedBy, Others
<1>3. \A s \in Txs \ {t} : tx[s].events = {}
  BY <1>2, ValuesAssumption DEF CursorInv
<1>4. \A s \in Txs \ {t} : tx'[s] = tx[s]
  BY DEF QueueEvent, LockInv, TypeInv, TxTypeOK
<1>5. tx'[t].events = tx[t].events \cup {Event(t)}
  <2> DEFINE each == IF n.kind = "profile.updated" THEN "roles" ELSE "insert"
  <2>1. PICK m \in Visits(n, n.todo, each, After(t)) : tx' = [tx EXCEPT ![t] = m]
    BY DEF QueueEvent, Queued
  <2>2. n.events = tx[t].events \cup {Event(t)}
    BY DEF LockInv, TypeInv, TxTypeOK, TxState
  <2>3. m.events = n.events
    <3>1. CASE n.todo = {}
      BY <3>1 DEF Visits, LockInv, TypeInv, TxTypeOK, TxState
    <3>2. CASE n.todo # {}
      <4>1. PICK p \in n.todo : m = [n EXCEPT !.pc = each, !.project = p,
                                              !.todo = n.todo \ {p}]
        BY <3>2 DEF Visits
      <4> QED BY <4>1 DEF LockInv, TypeInv, TxTypeOK, TxState
    <3> QED BY <3>1, <3>2
  <2> HIDE DEF n
  <2> QED BY <2>1, <2>2, <2>3 DEF LockInv, TypeInv, TxTypeOK
<1>6. Event(t).id = nextId /\ nextId \in Nat /\ nextId' = nextId + 1
  BY DEF Event, QueueEvent, LockInv, TypeInv, DataTypeOK
<1>7. UNCHANGED feed /\ syncLock' = t
  BY DEF QueueEvent, tables
<1>8. /\ \A e \in feed : e.id \in Nat
      /\ \A e \in tx[t].events : e.id \in Nat
  BY DEF LockInv, TypeInv, DataTypeOK, TxTypeOK, TxState, Events
<1> QED BY <1>3, <1>4, <1>5, <1>6, <1>7, <1>8 DEF CursorInv

LEMMA CommitCursor ==
    ASSUME LockInv, CursorInv, NEW t \in Txs, Commit(t)
    PROVE  /\ CursorInv'
           /\ \A e \in feed' \ feed, d \in feed : d.id < e.id
<1>1. /\ feed' = feed \cup tx[t].events /\ UNCHANGED nextId
      /\ tx' = [tx EXCEPT ![t] = Idle]
      /\ syncLock' = IF syncLock = t THEN None ELSE syncLock
  BY DEF Commit, ReleaseLocks
<1>2. tx'[t].events = {} /\ \A s \in Txs \ {t} : tx'[s] = tx[s]
  BY <1>1 DEF LockInv, TypeInv, TxTypeOK, Idle
<1>3. tx[t].events # {} => \A s \in Txs \ {t} : tx[s].events = {}
  BY DEF CursorInv
<1> QED BY <1>1, <1>2, <1>3 DEF CursorInv

LEMMA QuietCursor ==
    ASSUME LockInv, CursorInv, NEW t \in Txs, Quiet(t)
    PROVE  CursorInv' /\ UNCHANGED feed
  BY ValuesAssumption DEF CursorInv, Quiet

LEMMA NextCursor ==
    ASSUME LockInv, CursorInv, [Next]_vars
    PROVE  CursorInv' /\ \A e \in feed' \ feed, d \in feed : d.id < e.id
<1>1. CASE UNCHANGED vars
  BY <1>1 DEF vars, tables, locks, CursorInv
<1>2. ASSUME NEW t \in Txs, Begin(t) \/ Step(t) \/ Fail(t) \/ DeadlockAbort(t)
      PROVE  CursorInv' /\ \A e \in feed' \ feed, d \in feed : d.id < e.id
  BY <1>2, MostStepsAreQuiet, QueueEventCursor, CommitCursor, QuietCursor
<1> QED BY <1>1, <1>2 DEF Next

LEMMA InitCursor == Init => CursorInv
  BY DEF Init, CursorInv, Idle

(* A cursor never skips an event: whatever operations run concurrently and  *)
(* wherever they fail, the ids of the events a commit publishes are above   *)
(* those of every event published before.                                   *)
THEOREM CursorsAreSafe == Spec => CursorSafe
<1>1. LockInv /\ CursorInv /\ [Next]_vars
        => [\A e \in feed' \ feed, d \in feed : d.id < e.id]_vars
  BY NextCursor
<1>2. LockInv /\ CursorInv /\ [Next]_vars => CursorInv'
  BY NextCursor
<1> QED BY <1>1, <1>2, InitCursor, LocksHeld, PTL DEF Spec, CursorSafe

-----------------------------------------------------------------------------
(***************************************************************************)
(* Replicas.  The argument: an operation that writes the row of one user   *)
(* (a writer) holds its lock when it queues the event, so the event says   *)
(* what the commit will show, unless the profile or the status of the      *)
(* account changes meanwhile, which only rewriters do.  A rewriter holds    *)
(* the lock of the account, and tells every project the user has access    *)
(* to once, unless somebody grants or revokes meanwhile, which only        *)
(* writers do.  FamilyInv says so, statement by statement.                 *)
(***************************************************************************)
(* Who removes a row, who writes one, and who changes what is told of it.  *)
Revokers == {"RevokeAccess", "RevokeProjectAccess"}

Granters == {"GrantAccess", "SetProjectRoles", "ApproveRequest", "GrantProjectAdmin"}

Writers == Revokers \cup Granters

(* The account operations whose events describe the user's rows. *)
Rewriters == {"UpdateProfile", "UpdateLegacyProfile", "DisableAccount"}

AccountOps == Rewriters \cup {"ActivateAccount", "GrantGlobalAdmin", "ResetPassword",
                              "ChangePassword"}

(* What the operations of an instance may be: those of one family. *)
OneFamily ==
    /\ "EnsureBootstrap" \notin Ops
    /\ Ops \cap Writers = {} \/ Ops \cap Rewriters = {}

(* A writer has locked its row; the event it has queued describes the row   *)
(* it commits, and a grant describes an account that is active.             *)
RowLocked == {"close", "payload", "insert", "commit"}

WriterOK(t) ==
    LET n == tx[t]
    IN  n.op \in Writers =>
          /\ n.pc \in RowLocked => accessLock[<<n.user, n.project>>] = t
          /\ n.todo = {}
          /\ n.pc # "commit" => n.events = {}
          /\ n.pc = "commit" =>
               \E e \in n.events :
                 /\ n.events = {e}
                 /\ e.user = n.user /\ e.project = n.project /\ e.kind = n.kind
                 /\ e.roles = n.roles /\ e.profile = n.profile
          /\ n.op \in Revokers => n.roles = NoAccess
          /\ n.op \in Granters =>
               /\ \/ n.roles # NoAccess
                  \/ n.op = "GrantProjectAdmin" /\ n.pc \in {"active", "merge"}
               /\ n.pc \in {"insert", "commit"} =>
                    /\ account[n.user].status = "active"
                    /\ account[n.user].profile = n.profile

(* The row an account operation will commit is made of the committed one.   *)
HolderOK(t) ==
    LET n == tx[t]
    IN  n.op \in AccountOps /\ n.pc # "account" =>
          /\ accountLock[n.user] = t
          /\ Matches(n.op, account[n.user])
          /\ n.row = Updated(n.op, account[n.user], n.profile)

(* The projects told already, and those whose rows are locked.              *)
Told(n) == {e.project : e \in n.events}

Wiped(t) == {p \in Projects : accessLock[<<tx[t].user, p>>] = t}

EventOK(e, n) ==
    /\ e.user = n.user /\ e.project \in Projects /\ e.kind = n.kind
    /\ n.kind = "profile.updated" =>
         e.roles = access[<<n.user, e.project>>] /\ e.profile = n.row.profile

(* A rewriter tells each project the user has access to once. *)
VisitsOK(t) ==
    LET n == tx[t]
        P == ProjectsWithAccess(n.user)
    IN  n.op \in Rewriters =>
          /\ \A e \in n.events : EventOK(e, n)
          /\ \A e, d \in n.events : e.project = d.project => e = d
          /\ n.op # "UpdateLegacyProfile" /\ n.pc \in {"account", "projects"} =>
               n.project = None
          /\ n.op = "DisableAccount" => n.roles = NoAccess
          /\ n.pc \in {"account", "ownRoles", "ownInsert"} => n.events = {}
          /\ n.pc \in {"account", "ownRoles", "ownInsert", "projects", "scan", "commit"}
               => n.todo = {}
          /\ n.pc \in {"insert", "ownInsert"} /\ n.kind = "profile.updated" =>
               n.roles = access[<<n.user, n.project>>]
          /\ n.pc = "ownInsert" => n.project \in P
          /\ n.pc = "projects" => Told(n) = {n.project} \cap Projects /\ Told(n) \subseteq P
          /\ n.pc \in {"roles", "insert"} =>
               /\ Told(n) \cup n.todo \cup {n.project} = P
               /\ n.project \notin Told(n) \cup n.todo
               /\ Told(n) \cap n.todo = {}
          /\ n.pc \in {"scan", "wipe", "commit"} => Told(n) = P
          /\ n.op = "DisableAccount" /\ n.pc \notin {"wipe", "commit"} => Wiped(t) = {}
          /\ n.pc = "wipe" => Wiped(t) \cup n.todo \cup {n.project} = P
          /\ n.pc = "commit" /\ n.op = "DisableAccount" => Wiped(t) = P

(* The other operations have no event about a row. *)
SilentOK(t) ==
    tx[t].op \notin Writers \cup Rewriters =>
      \A e \in tx[t].events : e.kind \notin Feed!ViewKinds

OperationOK(t) ==
    /\ tx[t].op \in Ops \cup {"none"}
    /\ WriterOK(t)
    /\ HolderOK(t)
    /\ VisitsOK(t)
    /\ SilentOK(t)

HoldersOK ==
    /\ \A u \in Users, t \in Txs : accountLock[u] = t => tx[t].op \in AccountOps
    /\ \A r \in Rows, t \in Txs : accessLock[r] = t =>
         \/ tx[t].op \in Writers /\ r = RowOfTx(t)
         \/ tx[t].op = "DisableAccount" /\ r[1] = tx[t].user

(* Who has access is active. *)
ActiveOK == \A r \in Rows : access[r] # NoAccess => account[r[1]].status = "active"

FamilyInv == ActiveOK /\ HoldersOK /\ \A t \in Txs : OperationOK(t)

-----------------------------------------------------------------------------
(* Which operations a statement belongs to, and which one follows it. *)
LEMMA FlowOfStatements ==
    ASSUME NEW op \in AllOps, NEW l \in StatementsOf(op)
    PROVE  LET next == Program[op][l]
           IN  /\ l = "active" => \/ op = "GrantAccess" /\ next = "probe"
                                  \/ op = "GrantProjectAdmin" /\ next = "merge"
               /\ l = "probe" => op = "GrantAccess" /\ next = "upsert"
               /\ l = "upsert" => \/ op = "GrantAccess" /\ next = "close"
                                  \/ op = "ApproveRequest" /\ next = "payload"
               /\ l = "merge" => op = "GrantProjectAdmin" /\ next = "payload"
               /\ l = "close" => op = "GrantAccess" /\ next = "payload"
               /\ l = "claim" => op = "ApproveRequest" /\ next = "upsert"
               /\ l = "payload" => op \in Granters /\ next = "insert"
               /\ l = "update" => op = "SetProjectRoles" /\ next = "payload"
               /\ l = "delete" => op \in Revokers /\ next = "insert"
               /\ l = "account" =>
                    \/ op = "UpdateLegacyProfile" /\ next = "ownRoles"
                    \/ op \in {"ActivateAccount", "GrantGlobalAdmin"} /\ next = "commit"
                    \/ op \in AccountOps \ {"UpdateLegacyProfile"} /\ next = "projects"
               /\ l = "ownRoles" => op = "UpdateLegacyProfile" /\ next = "ownInsert"
               /\ l = "ownInsert" => op = "UpdateLegacyProfile" /\ next = "projects"
               /\ l = "projects" =>
                    \/ /\ op \in {"UpdateProfile", "UpdateLegacyProfile"}
                       /\ next = "roles" /\ Program[op].insert = "commit"
                    \/ op = "DisableAccount" /\ next = "insert" /\ Program[op].insert = "scan"
                    \/ op \in {"ResetPassword", "ChangePassword"}
               /\ l = "roles" =>
                    op \in {"UpdateProfile", "UpdateLegacyProfile"} /\ next = "insert"
               /\ l = "insert" => IF op = "DisableAccount" THEN next = "scan"
                                  ELSE next = "commit"
               /\ l = "scan" => op = "DisableAccount"
               /\ l = "wipe" => op = "DisableAccount" /\ next = "commit"
               /\ l \in {"admin", "adminAccess"} => op = "EnsureBootstrap"
               /\ l \in {"read", "request"} => op = "RequestAccess"
<1> USE DEF StatementsOf, Program, Granters, Revokers, AccountOps, Rewriters
<1>1. CASE op = "GrantAccess" BY <1>1 DEF GrantAccess
<1>2. CASE op = "RevokeAccess" BY <1>2 DEF RevokeAccess
<1>3. CASE op = "RevokeProjectAccess" BY <1>3 DEF RevokeProjectAccess
<1>4. CASE op = "SetProjectRoles" BY <1>4 DEF SetProjectRoles
<1>5. CASE op = "ApproveRequest" BY <1>5 DEF ApproveRequest
<1>6. CASE op = "GrantProjectAdmin" BY <1>6 DEF GrantProjectAdmin
<1>7. CASE op = "UpdateProfile" BY <1>7 DEF UpdateProfile
<1>8. CASE op = "UpdateLegacyProfile" BY <1>8 DEF UpdateLegacyProfile
<1>9. CASE op = "DisableAccount" BY <1>9 DEF DisableAccount
<1>10. CASE op = "ActivateAccount" BY <1>10 DEF ActivateAccount
<1>11. CASE op = "GrantGlobalAdmin" BY <1>11 DEF GrantGlobalAdmin
<1>12. CASE op = "ResetPassword" BY <1>12 DEF ResetPassword
<1>13. CASE op = "ChangePassword" BY <1>13 DEF ChangePassword
<1>14. CASE op = "RequestAccess" BY <1>14 DEF RequestAccess
<1>15. CASE op = "EnsureBootstrap" BY <1>15 DEF EnsureBootstrap
<1>16. QED
  BY <1>1, <1>2, <1>3, <1>4, <1>5, <1>6, <1>7, <1>8, <1>9, <1>10, <1>11,
     <1>12, <1>13, <1>14, <1>15 DEF AllOps

(* Where operations start, and with what. *)
LEMMA FlowOfStarts ==
    ASSUME NEW op \in AllOps
    PROVE  /\ op \in Writers => Program[op].start \notin RowLocked
           /\ op \in Granters /\ RolesOf(op) # ValidRoles =>
                op = "GrantProjectAdmin" /\ Program[op].start = "active"
           /\ op \in Revokers \cup Rewriters => RolesOf(op) = {NoAccess}
           /\ op \in AccountOps => Program[op].start = "account"
           /\ op \in Rewriters \ {"UpdateLegacyProfile"} => ProjectsOf(op) = {None}
           /\ op \notin Writers \cup Rewriters => KindOf(op) \notin Feed!ViewKinds
           /\ op \in Revokers \cup {"DisableAccount"} => KindOf(op) = "access.revoked"
           /\ op \in Granters => KindOf(op) \in {"access.granted", "roles.changed"}
           /\ op \in Rewriters \ {"DisableAccount"} => KindOf(op) = "profile.updated"
<1> USE DEF Program, Granters, Revokers, Writers, AccountOps, Rewriters, RowLocked, RolesOf,
            ProjectsOf, KindOf, RowOps, SilentOps, Feed!ViewKinds
<1>1. CASE op = "GrantAccess" BY <1>1 DEF GrantAccess
<1>2. CASE op = "RevokeAccess" BY <1>2 DEF RevokeAccess
<1>3. CASE op = "RevokeProjectAccess" BY <1>3 DEF RevokeProjectAccess
<1>4. CASE op = "SetProjectRoles" BY <1>4 DEF SetProjectRoles
<1>5. CASE op = "ApproveRequest" BY <1>5 DEF ApproveRequest
<1>6. CASE op = "GrantProjectAdmin" BY <1>6 DEF GrantProjectAdmin
<1>7. CASE op = "UpdateProfile" BY <1>7 DEF UpdateProfile
<1>8. CASE op = "UpdateLegacyProfile" BY <1>8 DEF UpdateLegacyProfile
<1>9. CASE op = "DisableAccount" BY <1>9 DEF DisableAccount
<1>10. CASE op = "ActivateAccount" BY <1>10 DEF ActivateAccount
<1>11. CASE op = "GrantGlobalAdmin" BY <1>11 DEF GrantGlobalAdmin
<1>12. CASE op = "ResetPassword" BY <1>12 DEF ResetPassword
<1>13. CASE op = "ChangePassword" BY <1>13 DEF ChangePassword
<1>14. CASE op = "RequestAccess" BY <1>14 DEF RequestAccess
<1>15. CASE op = "EnsureBootstrap" BY <1>15 DEF EnsureBootstrap
<1>16. QED
  BY <1>1, <1>2, <1>3, <1>4, <1>5, <1>6, <1>7, <1>8, <1>9, <1>10, <1>11,
     <1>12, <1>13, <1>14, <1>15 DEF AllOps

-----------------------------------------------------------------------------
(* A step of t that changes no committed account or row of access, and takes *)
(* no lock away from another operation.                                     *)
Steady(t) ==
    /\ UNCHANGED <<account, access>>
    /\ \A s \in Txs \ {t} :
         /\ tx'[s] = tx[s]
         /\ \A u \in Users : accountLock'[u] = s <=> accountLock[u] = s
         /\ \A r \in Rows : accessLock'[r] = s <=> accessLock[r] = s

LocksOK(t) ==
    /\ \A u \in Users : accountLock[u] = t => tx[t].op \in AccountOps
    /\ \A r \in Rows : accessLock[r] = t =>
         \/ tx[t].op \in Writers /\ r = RowOfTx(t)
         \/ tx[t].op = "DisableAccount" /\ r[1] = tx[t].user

LEMMA SteadyKeepsOthers ==
    ASSUME LockInv, NEW t \in Txs, Steady(t), NEW s \in Txs \ {t},
           OperationOK(s), LocksOK(s)
    PROVE  OperationOK(s)' /\ LocksOK(s)'
<1>1. /\ tx'[s] = tx[s] /\ account' = account /\ access' = access
      /\ \A u \in Users : accountLock'[u] = s <=> accountLock[u] = s
      /\ \A r \in Rows : accessLock'[r] = s <=> accessLock[r] = s
  BY DEF Steady
<1>2. Running(tx[s]) \/ tx[s] = Idle
  BY DEF LockInv, TypeInv, TxTypeOK, WellFormed
<1>3. /\ Running(tx[s]) => tx[s].user \in Users
      /\ tx[s].op \in Writers => <<tx[s].user, tx[s].project>> \in Rows
  BY <1>2 DEF Running, Idle, Rows, Writers, Granters, Revokers, RowOps
<1>4. WriterOK(s)'
  BY <1>1, <1>3 DEF OperationOK, WriterOK
<1>5. HolderOK(s)'
  BY <1>1, <1>2, <1>3 DEF OperationOK, HolderOK, AccountOps, Rewriters, Idle
<1>6. VisitsOK(s)'
  <2>1. tx[s].op \in Rewriters => Wiped(s)' = Wiped(s)
    BY <1>1, <1>2, <1>3 DEF Wiped, Rewriters, Idle, Rows
  <2>2. \A e : EventOK(e, tx[s])' <=> EventOK(e, tx[s])
    BY <1>1 DEF EventOK
  <2> QED BY <1>1, <2>1, <2>2 DEF OperationOK, VisitsOK, ProjectsWithAccess, Told, EventOK
<1>7. SilentOK(s)'
  BY <1>1 DEF OperationOK, SilentOK, Feed!ViewKinds
<1>8. LocksOK(s)'
  BY <1>1 DEF LocksOK, RowOfTx
<1> QED BY <1>1, <1>4, <1>5, <1>6, <1>7, <1>8 DEF OperationOK

LEMMA SteadyInv ==
    ASSUME LockInv, FamilyInv, NEW t \in Txs, Steady(t), OperationOK(t)', LocksOK(t)'
    PROVE  FamilyInv'
<1>1. \A s \in Txs : OperationOK(s) /\ LocksOK(s)
  BY DEF FamilyInv, HoldersOK, LocksOK
<1>2. \A s \in Txs : OperationOK(s)' /\ LocksOK(s)'
  BY <1>1, SteadyKeepsOthers
<1>3. HoldersOK'
  BY <1>2 DEF HoldersOK, LocksOK
<1>4. ActiveOK'
  BY DEF FamilyInv, ActiveOK, Steady
<1> QED BY <1>2, <1>3, <1>4 DEF FamilyInv

LEMMA IdleOK ==
    ASSUME NEW t \in Txs, tx'[t] = Idle
    PROVE  OperationOK(t)'
  BY DEF OperationOK, WriterOK, HolderOK, VisitsOK, SilentOK, Idle, Writers, Granters,
         Revokers, AccountOps, Rewriters

(* Giving up. *)
LEMMA ReleasesOwn ==
    ASSUME LockInv, NEW t \in Txs, tx' = [tx EXCEPT ![t] = Idle], ReleaseLocks(t)
    PROVE  /\ tx'[t] = Idle
           /\ \A s \in Txs \ {t} :
                /\ tx'[s] = tx[s]
                /\ \A u \in Users : accountLock'[u] = s <=> accountLock[u] = s
                /\ \A r \in Rows : accessLock'[r] = s <=> accessLock[r] = s
           /\ \A u \in Users : accountLock'[u] # t
           /\ \A r \in Rows : accessLock'[r] # t
<1>1. /\ \A u \in Users : accountLock'[u] = IF accountLock[u] = t THEN None
                                            ELSE accountLock[u]
      /\ \A r \in Rows : accessLock'[r] = IF accessLock[r] = t THEN None
                                          ELSE accessLock[r]
  BY DEF ReleaseLocks, Freed, LockInv, TypeInv, LocksTypeOK
<1>2. tx'[t] = Idle /\ \A s \in Txs \ {t} : tx'[s] = tx[s]
  BY DEF LockInv, TypeInv, TxTypeOK
<1> QED BY <1>1, <1>2, ValuesAssumption

LEMMA RollbackFamily ==
    ASSUME LockInv, FamilyInv, NEW t \in Txs, Rollback(t), UNCHANGED <<tables, nextId>>
    PROVE  FamilyInv'
<1>1. UNCHANGED <<account, access>>
  BY DEF tables
<1>2. Steady(t) /\ OperationOK(t)' /\ LocksOK(t)'
  BY <1>1, ReleasesOwn, IdleOK DEF Rollback, Steady, LocksOK
<1> QED BY <1>2, SteadyInv

(* The operation goes on; it may take locks nobody else has. *)
Takes(t) ==
    /\ \A u \in Users : accountLock'[u] = accountLock[u]
                        \/ (accountLock[u] \in {None, t} /\ accountLock'[u] = t
                            /\ tx'[t].op \in AccountOps)
    /\ \A r \in Rows : accessLock'[r] = accessLock[r]
                       \/ (accessLock[r] \in {None, t} /\ accessLock'[r] = t
                           /\ \/ tx'[t].op \in Writers /\ r = RowOfTx(t)'
                              \/ tx'[t].op = "DisableAccount" /\ r[1] = tx'[t].user)

LEMMA GoesOn ==
    ASSUME LockInv, FamilyInv, NEW t \in Txs, NEW n, tx' = [tx EXCEPT ![t] = n],
           UNCHANGED <<account, access>>, Takes(t),
           n.op = tx[t].op, n.user = tx[t].user,
           n.op \in Writers => n.project = tx[t].project,
           OperationOK(t)'
    PROVE  FamilyInv'
<1>1. tx'[t] = n /\ \A s \in Txs \ {t} : tx'[s] = tx[s]
  BY DEF LockInv, TypeInv, TxTypeOK
<1>2. Steady(t)
  BY <1>1, ValuesAssumption DEF Steady, Takes
<1>3. \A u \in Users : accountLock'[u] = t => tx'[t].op \in AccountOps
  BY <1>1 DEF Takes, FamilyInv, HoldersOK
<1>4. ASSUME NEW r \in Rows, accessLock'[r] = t
      PROVE  \/ tx'[t].op \in Writers /\ r = RowOfTx(t)'
             \/ tx'[t].op = "DisableAccount" /\ r[1] = tx'[t].user
  <2>1. CASE accessLock[r] = t
    BY <1>1, <2>1 DEF FamilyInv, HoldersOK, RowOfTx
  <2>2. CASE accessLock[r] # t
    BY <1>4, <2>2 DEF Takes
  <2> QED BY <2>1, <2>2
<1>5. LocksOK(t)'
  BY <1>3, <1>4 DEF LocksOK
<1> QED BY <1>2, <1>5, SteadyInv

-----------------------------------------------------------------------------
(* Writers. *)
LEMMA AtRow ==
    ASSUME LockInv, NEW t \in Txs, NEW l, At(t, l), l # "idle"
    PROVE  /\ Running(tx[t]) /\ tx[t].op \in AllOps /\ tx[t].pc = l
           /\ l \in StatementsOf(tx[t].op)
           /\ tx[t].user \in Users
           /\ tx[t].op \in Writers => RowOfTx(t) \in Rows
  BY AtStatement DEF LockInv, Running, RowOfTx, Rows, Writers, Granters, Revokers, RowOps

LEMMA WriterGoesOn ==
    ASSUME LockInv, FamilyInv, NEW t \in Txs, NEW n, tx' = [tx EXCEPT ![t] = n],
           n.op = tx[t].op, n.op \in Writers, n.user = tx[t].user, n.project = tx[t].project,
           UNCHANGED <<account, access, accountLock>>,
           \/ UNCHANGED <<accessLock>>
           \/ /\ RowOfTx(t) \in Rows /\ accessLock[RowOfTx(t)] \in {None, t}
              /\ accessLock' = [accessLock EXCEPT ![RowOfTx(t)] = t],
           WriterOK(t)'
    PROVE  FamilyInv'
<1>1. tx'[t] = n
  BY DEF LockInv, TypeInv, TxTypeOK
<1>2. n.op \in Ops \cup {"none"}
  BY DEF FamilyInv, OperationOK
<1>3. OperationOK(t)'
  BY <1>1, <1>2 DEF OperationOK, HolderOK, VisitsOK, SilentOK, Writers, Granters, Revokers,
                    AccountOps, Rewriters
<1>4. Takes(t)
  BY <1>1 DEF Takes, RowOfTx, LockInv, TypeInv, LocksTypeOK
<1> QED BY <1>3, <1>4, GoesOn

LEMMA CheckActiveFamily ==
    ASSUME LockInv, FamilyInv, NEW t \in Txs, CheckActive(t) PROVE FamilyInv'
<1>1. CASE Rollback(t)
  BY <1>1, RollbackFamily DEF CheckActive
<1>2. CASE Advance(t) /\ UNCHANGED locks
  <2> DEFINE n == [tx[t] EXCEPT !.pc = After(t)]
  <2>1. At(t, "active") /\ UNCHANGED <<account, access>> /\ UNCHANGED <<accessLock>>
        /\ UNCHANGED <<account, access, accountLock>>
    BY <1>2 DEF CheckActive, tables, locks
  <2>2. Running(tx[t]) /\ tx[t].pc = "active" /\ "active" \in StatementsOf(tx[t].op)
        /\ tx[t].op \in AllOps
    BY <2>1, AtRow
  <2>3. \/ tx[t].op = "GrantAccess" /\ After(t) = "probe"
        \/ tx[t].op = "GrantProjectAdmin" /\ After(t) = "merge"
    BY <2>2, FlowOfStatements DEF After
  <2>4. /\ n.op = tx[t].op /\ n.user = tx[t].user /\ n.project = tx[t].project
        /\ n.pc = After(t) /\ n.events = tx[t].events /\ n.todo = tx[t].todo
        /\ n.roles = tx[t].roles
    BY <2>2 DEF Running, TxState
  <2>5. tx' = [tx EXCEPT ![t] = n]
    BY <1>2 DEF Advance
  <2> HIDE DEF n
  <2>6. tx'[t] = n
    BY <2>5 DEF LockInv, TypeInv, TxTypeOK
  <2>7. WriterOK(t)
    BY DEF FamilyInv, OperationOK
  <2>8. WriterOK(t)'
    BY <2>2, <2>3, <2>4, <2>6, <2>7
       DEF WriterOK, Writers, Granters, Revokers, RowLocked
  <2>9. n.op \in Writers
    BY <2>3, <2>4 DEF Writers, Granters
  <2> QED BY <2>1, <2>4, <2>5, <2>8, <2>9, WriterGoesOn
<1> QED BY <1>1, <1>2 DEF CheckActive, Require

LEMMA ProbeAccessFamily ==
    ASSUME LockInv, FamilyInv, NEW t \in Txs, ProbeAccess(t) PROVE FamilyInv'
<1> DEFINE r == RowOfTx(t)
           m == [tx[t] EXCEPT !.pc = After(t)]
           n == [tx[t] EXCEPT !.pc = After(t), !.kind = "roles.changed"]
<1>1. At(t, "probe") /\ UNCHANGED <<account, access, accountLock>>
  BY DEF ProbeAccess, tables
<1>2. Running(tx[t]) /\ tx[t].pc = "probe" /\ "probe" \in StatementsOf(tx[t].op)
      /\ tx[t].op \in AllOps
  BY <1>1, AtRow
<1>3. tx[t].op = "GrantAccess" /\ After(t) = "upsert"
  BY <1>2, FlowOfStatements DEF After
<1>4. tx[t].op \in Writers /\ r \in Rows
  BY <1>1, <1>3, AtRow DEF Writers, Granters
<1>5. WriterOK(t)
  BY DEF FamilyInv, OperationOK
<1>6. CASE access[r] = NoAccess
  <2>1. tx' = [tx EXCEPT ![t] = m] /\ UNCHANGED <<accessLock>>
    BY <1>6 DEF ProbeAccess, Advance
  <2>2. /\ m.op = tx[t].op /\ m.user = tx[t].user /\ m.project = tx[t].project
        /\ m.pc = After(t) /\ m.events = tx[t].events /\ m.todo = tx[t].todo
        /\ m.roles = tx[t].roles
    BY <1>2 DEF Running, TxState
  <2> HIDE DEF m
  <2>3. tx'[t] = m
    BY <2>1 DEF LockInv, TypeInv, TxTypeOK
  <2>4. WriterOK(t)'
    BY <1>2, <1>3, <1>5, <2>2, <2>3 DEF WriterOK, Writers, Granters, Revokers, RowLocked
  <2> QED BY <1>1, <1>4, <2>1, <2>2, <2>4, WriterGoesOn
<1>7. CASE access[r] # NoAccess
  <2>1. tx' = [tx EXCEPT ![t] = n] /\ accessLock' = [accessLock EXCEPT ![r] = t]
    BY <1>7 DEF ProbeAccess
  <2>2. /\ n.op = tx[t].op /\ n.user = tx[t].user /\ n.project = tx[t].project
        /\ n.pc = After(t) /\ n.events = tx[t].events /\ n.todo = tx[t].todo
        /\ n.roles = tx[t].roles
    BY <1>2 DEF Running, TxState
  <2> HIDE DEF n
  <2>3. tx'[t] = n
    BY <2>1 DEF LockInv, TypeInv, TxTypeOK
  <2>4. WriterOK(t)'
    BY <1>2, <1>3, <1>5, <2>2, <2>3 DEF WriterOK, Writers, Granters, Revokers, RowLocked
  <2>5. accessLock[r] \in {None, t}
    BY <1>1, <1>2, <1>7 DEF At, BlockedBy, Others
  <2> QED BY <1>1, <1>4, <2>1, <2>2, <2>4, <2>5, WriterGoesOn
<1> QED BY <1>6, <1>7

(* A writer goes on, with its row locked where it needs it. *)
LEMMA WriterAdvances ==
    ASSUME LockInv, FamilyInv, NEW t \in Txs, NEW l, At(t, l), Advance(t),
           l \notin {"idle", "active", "merge", "commit"}, tx[t].op \in Writers,
           After(t) \notin {"active", "merge", "commit"},
           After(t) = "insert" => tx[t].op \in Revokers,
           UNCHANGED <<account, access, accountLock>>,
           \/ UNCHANGED <<accessLock>>
           \/ /\ accessLock[RowOfTx(t)] \in {None, t}
              /\ accessLock' = [accessLock EXCEPT ![RowOfTx(t)] = t],
           After(t) \in RowLocked => accessLock'[RowOfTx(t)] = t
    PROVE  FamilyInv'
<1> DEFINE n == [tx[t] EXCEPT !.pc = After(t)]
<1>1. Running(tx[t]) /\ tx[t].pc = l /\ RowOfTx(t) \in Rows
  BY AtRow
<1>2. /\ n.op = tx[t].op /\ n.user = tx[t].user /\ n.project = tx[t].project
      /\ n.pc = After(t) /\ n.events = tx[t].events /\ n.todo = tx[t].todo
      /\ n.roles = tx[t].roles
  BY <1>1 DEF Running, TxState
<1>3. tx' = [tx EXCEPT ![t] = n]
  BY DEF Advance
<1> HIDE DEF n
<1>4. tx'[t] = n
  BY <1>3 DEF LockInv, TypeInv, TxTypeOK
<1>5. WriterOK(t)
  BY DEF FamilyInv, OperationOK
<1>6. Revokers \cap Granters = {}
  BY DEF Revokers, Granters
<1>7. WriterOK(t)'
  BY <1>1, <1>2, <1>4, <1>5, <1>6 DEF WriterOK, RowOfTx
<1> QED BY <1>1, <1>2, <1>3, <1>7, WriterGoesOn

LEMMA UpsertAccessFamily ==
    ASSUME LockInv, FamilyInv, NEW t \in Txs, UpsertAccess(t) PROVE FamilyInv'
<1>1. At(t, "upsert") /\ Advance(t) /\ UNCHANGED <<account, access, accountLock>>
      /\ accessLock' = [accessLock EXCEPT ![RowOfTx(t)] = t]
  BY DEF UpsertAccess, tables
<1>2. /\ tx[t].pc = "upsert"
      /\ tx[t].op \in {"GrantAccess", "ApproveRequest"} /\ After(t) \in {"close", "payload"}
  BY <1>1, AtRow, FlowOfStatements DEF After
<1>3. tx[t].op \in Writers
  BY <1>2 DEF Writers, Granters
<1>4. RowOfTx(t) \in Rows
  BY <1>1, <1>3, AtRow
<1>5. accessLock[RowOfTx(t)] \in {None, t}
  BY <1>1, <1>2 DEF At, BlockedBy, Others
<1>6. accessLock'[RowOfTx(t)] = t
  BY <1>1, <1>4 DEF LockInv, TypeInv, LocksTypeOK
<1> QED BY <1>1, <1>2, <1>3, <1>5, <1>6, WriterAdvances

LEMMA LockExistingFamily ==
    ASSUME LockInv, FamilyInv, NEW t \in Txs, UpdateRoles(t) \/ DeleteAccess(t)
    PROVE  FamilyInv'
<1>1. PICK l \in {"update", "delete"} : At(t, l)
  BY DEF UpdateRoles, DeleteAccess
<1>2. LockExisting(t) /\ UNCHANGED <<tables, nextId>> /\ UNCHANGED <<account, access>>
  BY DEF UpdateRoles, DeleteAccess, tables
<1>3. CASE Rollback(t)
  BY <1>2, <1>3, RollbackFamily
<1>4. CASE ~Rollback(t)
  <2>1. /\ access[RowOfTx(t)] # NoAccess /\ Advance(t)
        /\ accessLock' = [accessLock EXCEPT ![RowOfTx(t)] = t]
        /\ UNCHANGED <<account, access, accountLock>>
    BY <1>2, <1>4 DEF LockExisting
  <2>2. /\ tx[t].pc = l
        /\ \/ tx[t].op = "SetProjectRoles" /\ After(t) = "payload"
           \/ tx[t].op \in Revokers /\ After(t) = "insert"
    BY <1>1, AtRow, FlowOfStatements DEF After
  <2>3. tx[t].op \in Writers
    BY <2>2 DEF Writers, Granters
  <2>4. RowOfTx(t) \in Rows
    BY <1>1, <2>3, AtRow
  <2>5. accessLock[RowOfTx(t)] \in {None, t}
    BY <1>1, <2>1, <2>2 DEF At, BlockedBy, Others
  <2>6. accessLock'[RowOfTx(t)] = t
    BY <2>1, <2>4 DEF LockInv, TypeInv, LocksTypeOK
  <2> QED BY <1>1, <2>1, <2>2, <2>3, <2>5, <2>6, WriterAdvances
<1> QED BY <1>3, <1>4

LEMMA ClaimRequestFamily ==
    ASSUME LockInv, FamilyInv, NEW t \in Txs, ClaimRequest(t) PROVE FamilyInv'
<1>1. At(t, "claim") /\ UNCHANGED <<account, access>> /\ UNCHANGED <<tables, nextId>>
  BY DEF ClaimRequest, tables
<1>2. CASE Rollback(t)
  BY <1>1, <1>2, RollbackFamily
<1>3. CASE ~Rollback(t)
  <2>1. Advance(t) /\ UNCHANGED <<accessLock>> /\ UNCHANGED <<account, access, accountLock>>
    BY <1>1, <1>3 DEF ClaimRequest
  <2>2. tx[t].op = "ApproveRequest" /\ After(t) = "upsert" /\ tx[t].pc = "claim"
    BY <1>1, AtRow, FlowOfStatements DEF After
  <2>3. tx[t].op \in Writers /\ After(t) \notin RowLocked
    BY <2>2 DEF Writers, Granters, RowLocked
  <2> QED BY <1>1, <2>1, <2>2, <2>3, WriterAdvances
<1> QED BY <1>2, <1>3

LEMMA CloseRequestFamily ==
    ASSUME LockInv, FamilyInv, NEW t \in Txs, CloseRequest(t) PROVE FamilyInv'
<1>1. At(t, "close") /\ Advance(t) /\ UNCHANGED <<accessLock>>
      /\ UNCHANGED <<account, access, accountLock>>
  BY DEF CloseRequest, tables
<1>2. tx[t].op = "GrantAccess" /\ After(t) = "payload" /\ tx[t].pc = "close"
  BY <1>1, AtRow, FlowOfStatements DEF After
<1>3. tx[t].op \in Writers
  BY <1>2 DEF Writers, Granters
<1>4. accessLock'[RowOfTx(t)] = t
  BY <1>1, <1>2, <1>3 DEF FamilyInv, OperationOK, WriterOK, RowLocked, RowOfTx
<1> QED BY <1>1, <1>2, <1>3, <1>4, WriterAdvances

LEMMA MergeAdminFamily ==
    ASSUME LockInv, FamilyInv, NEW t \in Txs, MergeAdmin(t) PROVE FamilyInv'
<1> DEFINE r == RowOfTx(t)
           n == [tx[t] EXCEPT !.pc = After(t), !.roles = access[r] \cup {AdminRole}]
<1>1. At(t, "merge") /\ UNCHANGED <<account, access, accountLock>>
      /\ accessLock' = [accessLock EXCEPT ![r] = t]
      /\ tx' = [tx EXCEPT ![t] = n]
  BY DEF MergeAdmin, tables
<1>2. Running(tx[t]) /\ tx[t].pc = "merge"
      /\ tx[t].op = "GrantProjectAdmin" /\ After(t) = "payload"
  BY <1>1, AtRow, FlowOfStatements DEF After
<1>3. tx[t].op \in Writers /\ r \in Rows
  BY <1>1, <1>2, AtRow DEF Writers, Granters
<1>4. accessLock[r] \in {None, t} /\ accessLock'[r] = t
  BY <1>1, <1>2, <1>3 DEF At, BlockedBy, Others, LockInv, TypeInv, LocksTypeOK
<1>5. /\ n.op = tx[t].op /\ n.user = tx[t].user /\ n.project = tx[t].project
      /\ n.pc = After(t) /\ n.events = tx[t].events /\ n.todo = tx[t].todo
      /\ n.roles = access[r] \cup {AdminRole}
  BY <1>2 DEF Running, TxState
<1> HIDE DEF n
<1>6. tx'[t] = n /\ n.roles # NoAccess
  BY <1>1, <1>5 DEF LockInv, TypeInv, TxTypeOK, NoAccess
<1>7. WriterOK(t)
  BY DEF FamilyInv, OperationOK
<1>8. WriterOK(t)'
  BY <1>2, <1>3, <1>4, <1>5, <1>6, <1>7 DEF WriterOK, Granters, Revokers, RowOfTx
<1> QED BY <1>1, <1>3, <1>4, <1>5, <1>8, WriterGoesOn

(* The payload describes the account as it is, which stays active.          *)
LEMMA AccountPayloadFamily ==
    ASSUME LockInv, FamilyInv, NEW t \in Txs, AccountPayload(t) PROVE FamilyInv'
<1> DEFINE a == account[tx[t].user]
           n == [tx[t] EXCEPT !.pc = After(t), !.profile = a.profile]
<1>1. At(t, "payload") /\ UNCHANGED <<account, access>> /\ UNCHANGED <<tables, nextId>>
  BY DEF AccountPayload, tables
<1>2. CASE Rollback(t)
  BY <1>1, <1>2, RollbackFamily
<1>3. CASE ~Rollback(t)
  <2>1. /\ a.status = "active" /\ tx' = [tx EXCEPT ![t] = n]
        /\ UNCHANGED <<accessLock>> /\ UNCHANGED <<account, access, accountLock>>
    BY <1>1, <1>3 DEF AccountPayload, locks
  <2>2. Running(tx[t]) /\ tx[t].pc = "payload" /\ tx[t].op \in Granters /\ After(t) = "insert"
    BY <1>1, AtRow, FlowOfStatements DEF After
  <2>3. tx[t].op \in Writers
    BY <2>2 DEF Writers
  <2>4. a \in Accounts
    BY <2>2 DEF Running, LockInv, TypeInv, DataTypeOK
  <2>5. /\ n.op = tx[t].op /\ n.user = tx[t].user /\ n.project = tx[t].project
        /\ n.pc = After(t) /\ n.events = tx[t].events /\ n.todo = tx[t].todo
        /\ n.roles = tx[t].roles /\ n.profile = a.profile
    BY <2>2 DEF Running, TxState
  <2> HIDE DEF n
  <2>6. tx'[t] = n
    BY <2>1 DEF LockInv, TypeInv, TxTypeOK
  <2>7. WriterOK(t)
    BY DEF FamilyInv, OperationOK
  <2>8. tx[t].op \notin Revokers
    BY <2>2 DEF Granters, Revokers
  <2>9. WriterOK(t)'
    BY <2>1, <2>2, <2>3, <2>5, <2>6, <2>7, <2>8 DEF WriterOK, RowLocked
  <2> QED BY <2>1, <2>3, <2>5, <2>9, WriterGoesOn
<1> QED BY <1>2, <1>3

-----------------------------------------------------------------------------
(* Account operations. *)
LEMMA HolderGoesOn ==
    ASSUME LockInv, FamilyInv, NEW t \in Txs, NEW n, tx' = [tx EXCEPT ![t] = n],
           n.op = tx[t].op, n.op \in AccountOps, n.user = tx[t].user,
           UNCHANGED <<account, access>>, Takes(t),
           HolderOK(t)', VisitsOK(t)', SilentOK(t)'
    PROVE  FamilyInv'
<1>1. tx'[t] = n
  BY DEF LockInv, TypeInv, TxTypeOK
<1>2. n.op \in Ops \cup {"none"}
  BY DEF FamilyInv, OperationOK
<1>3. n.op \notin Writers
  BY DEF Writers, Granters, Revokers, AccountOps, Rewriters
<1>4. OperationOK(t)'
  BY <1>1, <1>2, <1>3 DEF OperationOK, WriterOK
<1> QED BY <1>3, <1>4, GoesOn

LEMMA UpdateAccountFamily ==
    ASSUME LockInv, FamilyInv, NEW t \in Txs, UpdateAccount(t) PROVE FamilyInv'
<1> DEFINE u == tx[t].user
           v == Updated(tx[t].op, account[u], tx[t].profile)
           n == [tx[t] EXCEPT !.pc = After(t), !.row = v]
<1>1. At(t, "account") /\ UNCHANGED <<account, access>> /\ UNCHANGED <<tables, nextId>>
  BY DEF UpdateAccount, tables
<1>2. CASE Rollback(t)
  BY <1>1, <1>2, RollbackFamily
<1>3. CASE ~Rollback(t)
  <2>1. /\ Matches(tx[t].op, account[u]) /\ tx' = [tx EXCEPT ![t] = n]
        /\ accountLock' = [accountLock EXCEPT ![u] = t]
        /\ UNCHANGED <<accessLock>>
    BY <1>1, <1>3 DEF UpdateAccount, locks
  <2>2. /\ Running(tx[t]) /\ tx[t].pc = "account" /\ u \in Users
        /\ \/ tx[t].op = "UpdateLegacyProfile" /\ After(t) = "ownRoles"
           \/ tx[t].op \in {"ActivateAccount", "GrantGlobalAdmin"} /\ After(t) = "commit"
           \/ tx[t].op \in AccountOps \ {"UpdateLegacyProfile"} /\ After(t) = "projects"
    BY <1>1, AtRow, FlowOfStatements DEF After
  <2>3. tx[t].op \in AccountOps
    BY <2>2 DEF AccountOps, Rewriters
  <2>4. /\ n.op = tx[t].op /\ n.user = u /\ n.project = tx[t].project
        /\ n.pc = After(t) /\ n.events = tx[t].events /\ n.todo = tx[t].todo
        /\ n.roles = tx[t].roles /\ n.row = v /\ n.profile = tx[t].profile
        /\ n.kind = tx[t].kind
    BY <2>2 DEF Running, TxState
  <2> HIDE DEF n
  <2>5. tx'[t] = n
    BY <2>1 DEF LockInv, TypeInv, TxTypeOK
  <2>6. accountLock'[u] = t /\ accountLock[u] \in {None, t}
    BY <1>1, <2>1, <2>2 DEF At, BlockedBy, Others, LockInv, TypeInv, LocksTypeOK
  <2>7. HolderOK(t)'
    BY <1>1, <2>1, <2>4, <2>5, <2>6 DEF HolderOK
  <2>8. VisitsOK(t)'
    <3>1. VisitsOK(t) /\ Wiped(t)' = Wiped(t)
      BY <2>1, <2>4, <2>5 DEF FamilyInv, OperationOK, Wiped
    <3> SUFFICES ASSUME tx[t].op \in Rewriters PROVE VisitsOK(t)'
      BY <2>4, <2>5 DEF VisitsOK
    <3>2. n.events = {} /\ n.todo = {} /\ n.pc \in {"ownRoles", "projects"}
      BY <2>2, <2>4, <3>1 DEF VisitsOK, Rewriters
    <3>3. n.pc = "projects" => n.project \notin Projects
      BY <2>2, <2>4, <3>1, ValuesAssumption DEF VisitsOK
    <3>4. Told(n) = {}
      BY <3>2 DEF Told
    <3> QED BY <2>2, <2>4, <2>5, <3>1, <3>2, <3>3, <3>4 DEF VisitsOK, Told
  <2>9. SilentOK(t)'
    BY <2>4, <2>5 DEF FamilyInv, OperationOK, SilentOK, Feed!ViewKinds
  <2>10. Takes(t)
    BY <2>1, <2>3, <2>4, <2>5, <2>6 DEF Takes, LockInv, TypeInv, LocksTypeOK
  <2> QED BY <1>1, <2>1, <2>3, <2>4, <2>7, <2>8, <2>9, <2>10, HolderGoesOn
<1> QED BY <1>2, <1>3

(* The two ways a visit goes on. *)
LEMMA VisitIs ==
    ASSUME NEW n \in TxState, NEW S, NEW each, NEW done, NEW m \in Visits(n, S, each, done)
    PROVE  /\ m.op = n.op /\ m.user = n.user /\ m.row = n.row /\ m.events = n.events
           /\ m.roles = n.roles /\ m.profile = n.profile /\ m.kind = n.kind
           /\ \/ S = {} /\ m.pc = done /\ m.project = n.project /\ m.todo = n.todo
              \/ \E p \in S : m.pc = each /\ m.project = p /\ m.todo = S \ {p}
<1>1. CASE S = {}
  BY <1>1 DEF Visits, TxState
<1>2. CASE S # {}
  <2>1. PICK p \in S : m = [n EXCEPT !.pc = each, !.project = p, !.todo = S \ {p}]
    BY <1>2 DEF Visits
  <2> QED BY <2>1 DEF TxState
<1> QED BY <1>1, <1>2

LEMMA HoldsStill ==
    ASSUME NEW t \in Txs, HolderOK(t), tx[t].pc # "account", NEW m, tx'[t] = m,
           m.op = tx[t].op, m.user = tx[t].user, m.row = tx[t].row, m.profile = tx[t].profile,
           UNCHANGED <<account, accountLock>>
    PROVE  HolderOK(t)'
  BY DEF HolderOK

LEMMA ProfileProjectsFamily ==
    ASSUME LockInv, FamilyInv, NEW t \in Txs, ProfileProjects(t) PROVE FamilyInv'
<1> DEFINE P == ProjectsWithAccess(tx[t].user)
           S == P \ {tx[t].project}
<1>1. At(t, "projects") /\ UNCHANGED <<account, access>> /\ UNCHANGED <<account, accountLock>>
      /\ UNCHANGED <<accessLock>>
  BY DEF ProfileProjects, tables, locks
<1>2. PICK m \in Visits(tx[t], S, After(t), Program[tx[t].op].insert) :
        tx' = [tx EXCEPT ![t] = m]
  BY DEF ProfileProjects
<1>3. /\ Running(tx[t]) /\ tx[t].pc = "projects" /\ tx[t].op \in AllOps
      /\ \/ /\ tx[t].op \in {"UpdateProfile", "UpdateLegacyProfile"}
            /\ After(t) = "roles" /\ Program[tx[t].op].insert = "commit"
         \/ /\ tx[t].op = "DisableAccount"
            /\ After(t) = "insert" /\ Program[tx[t].op].insert = "scan"
         \/ tx[t].op \in {"ResetPassword", "ChangePassword"}
  BY <1>1, AtRow, FlowOfStatements DEF After
<1>4. tx[t].op \in AccountOps
  BY <1>3 DEF AccountOps, Rewriters
<1>5. tx[t] \in TxState /\ tx'[t] = m
  BY <1>2 DEF LockInv, TypeInv, TxTypeOK
<1>6. /\ m.op = tx[t].op /\ m.user = tx[t].user /\ m.row = tx[t].row
      /\ m.events = tx[t].events /\ m.roles = tx[t].roles
      /\ m.profile = tx[t].profile /\ m.kind = tx[t].kind
      /\ \/ /\ S = {} /\ m.pc = Program[tx[t].op].insert
            /\ m.project = tx[t].project /\ m.todo = tx[t].todo
         \/ \E p \in S : m.pc = After(t) /\ m.project = p /\ m.todo = S \ {p}
  BY <1>5, VisitIs
<1>7. HolderOK(t)'
  BY <1>1, <1>3, <1>5, <1>6, HoldsStill DEF FamilyInv, OperationOK
<1>8. SilentOK(t)'
  BY <1>5, <1>6 DEF FamilyInv, OperationOK, SilentOK, Feed!ViewKinds
<1>9. VisitsOK(t)'
  <2> SUFFICES ASSUME tx[t].op \in Rewriters PROVE VisitsOK(t)'
    BY <1>5, <1>6 DEF VisitsOK
  <2>1. VisitsOK(t) /\ Wiped(t)' = Wiped(t)
    BY <1>1, <1>5, <1>6 DEF FamilyInv, OperationOK, Wiped
  <2>2. /\ Told(tx[t]) = {tx[t].project} \cap Projects /\ Told(tx[t]) \subseteq P
        /\ tx[t].todo = {} /\ P \subseteq Projects
    BY <1>3, <2>1 DEF VisitsOK, ProjectsWithAccess
  <2>3. Told(m) = Told(tx[t]) /\ ProjectsWithAccess(m.user)' = P
    BY <1>1, <1>6 DEF Told, ProjectsWithAccess
  <2>4. \A e : EventOK(e, m)' <=> EventOK(e, tx[t])
    BY <1>1, <1>6 DEF EventOK
  <2>5. tx[t].kind = KindOf(tx[t].op)
    BY <1>3, <2>1 DEF Running, Rewriters
  <2>6. tx[t].op = "DisableAccount" => m.kind # "profile.updated"
    BY <1>3, <1>6, <2>5, FlowOfStarts
  <2>7. CASE S = {}
    <3>1. Told(m) = P
      BY <2>2, <2>3, <2>7
    <3>2. m.todo = {} /\ m.pc \in {"commit", "scan"}
          /\ (m.pc = "commit" => m.op # "DisableAccount")
      BY <1>3, <1>6, <2>2, <2>7 DEF Rewriters
    <3> QED BY <1>3, <1>5, <1>6, <2>1, <2>3, <2>4, <3>1, <3>2 DEF VisitsOK, Told, EventOK
  <2>8. CASE S # {}
    <3>1. PICK p \in S : m.pc = After(t) /\ m.project = p /\ m.todo = S \ {p}
      BY <1>6, <2>8
    <3>2. /\ Told(m) \cup m.todo \cup {m.project} = P
          /\ m.project \notin Told(m) \cup m.todo
          /\ Told(m) \cap m.todo = {}
      BY <2>2, <2>3, <3>1
    <3>3. \/ m.pc = "roles" /\ m.op # "DisableAccount"
          \/ m.pc = "insert" /\ m.op = "DisableAccount"
      BY <1>3, <1>6, <3>1 DEF Rewriters
    <3> QED BY <1>3, <1>5, <1>6, <2>1, <2>3, <2>4, <2>6, <3>2, <3>3
            DEF VisitsOK, Told, EventOK
  <2> QED BY <2>7, <2>8
<1>10. Takes(t)
  BY <1>1 DEF Takes
<1> QED BY <1>1, <1>2, <1>4, <1>6, <1>7, <1>8, <1>9, <1>10, HolderGoesOn

LEMMA ReadRolesFamily ==
    ASSUME LockInv, FamilyInv, NEW t \in Txs, ReadRoles(t) PROVE FamilyInv'
<1> DEFINE R == access[RowOfTx(t)]
<1>1. PICK n : n = [tx[t] EXCEPT !.pc = After(t), !.roles = R]
  OBVIOUS
<1>2. PICK l \in {"roles", "ownRoles"} : At(t, l)
  BY DEF ReadRoles
<1>3. UNCHANGED <<account, access>> /\ UNCHANGED <<tables, nextId>>
  BY DEF ReadRoles, tables
<1>4. CASE Rollback(t)
  BY <1>3, <1>4, RollbackFamily
<1>5. CASE ~Rollback(t)
  <2>1. /\ R # NoAccess /\ tx' = [tx EXCEPT ![t] = n]
        /\ UNCHANGED <<account, accountLock>> /\ UNCHANGED <<accessLock>>
    BY <1>3, <1>5, <1>1 DEF ReadRoles, locks
  <2>2. /\ Running(tx[t]) /\ tx[t].user \in Users
        /\ tx[t].op \in {"UpdateProfile", "UpdateLegacyProfile"}
        /\ \/ tx[t].pc = "roles" /\ After(t) = "insert"
           \/ /\ tx[t].pc = "ownRoles" /\ After(t) = "ownInsert"
              /\ tx[t].op = "UpdateLegacyProfile"
    BY <1>2, AtRow, FlowOfStatements DEF After
  <2>3. tx[t].op \in AccountOps /\ tx[t].op \in Rewriters
    BY <2>2 DEF AccountOps, Rewriters
  <2>4. tx[t].project \in Projects
    BY <2>2 DEF Running, AtProject
  <2>5. /\ n.op = tx[t].op /\ n.user = tx[t].user /\ n.project = tx[t].project
        /\ n.pc = After(t) /\ n.events = tx[t].events /\ n.todo = tx[t].todo
        /\ n.roles = R /\ n.row = tx[t].row /\ n.profile = tx[t].profile
        /\ n.kind = tx[t].kind
    BY <1>1, <2>2 DEF Running, TxState
  <2>6. tx'[t] = n
    BY <2>1 DEF LockInv, TypeInv, TxTypeOK
  <2>7. HolderOK(t)'
    BY <2>1, <2>2, <2>5, <2>6, HoldsStill DEF FamilyInv, OperationOK
  <2>8. SilentOK(t)'
    BY <2>5, <2>6 DEF FamilyInv, OperationOK, SilentOK, Feed!ViewKinds
  <2>9. VisitsOK(t)'
    <3>1. VisitsOK(t)
      BY DEF FamilyInv, OperationOK
    <3>2. Told(n) = Told(tx[t])
          /\ ProjectsWithAccess(n.user)' = ProjectsWithAccess(tx[t].user)
      BY <1>3, <2>5 DEF Told, ProjectsWithAccess
    <3>3. \A e : EventOK(e, n)' <=> EventOK(e, tx[t])
      BY <1>3, <2>5 DEF EventOK
    <3>4. tx[t].project \in ProjectsWithAccess(tx[t].user)
      BY <2>1, <2>4 DEF ProjectsWithAccess, RowOfTx
    <3>5. n.roles = access'[<<n.user, n.project>>]
      BY <1>3, <2>5 DEF RowOfTx
    <3>6. Wiped(t)' = Wiped(t)
      BY <2>1, <2>5, <2>6 DEF Wiped
    <3> QED BY <2>2, <2>3, <2>5, <2>6, <3>1, <3>2, <3>3, <3>4, <3>5, <3>6
            DEF VisitsOK, Told, EventOK
  <2>10. Takes(t)
    BY <2>1 DEF Takes
  <2> QED BY <1>3, <2>1, <2>3, <2>5, <2>7, <2>8, <2>9, <2>10, HolderGoesOn
<1> QED BY <1>4, <1>5

LEMMA ScanAccessFamily ==
    ASSUME LockInv, FamilyInv, NEW t \in Txs, ScanAccess(t) PROVE FamilyInv'
<1> DEFINE P == ProjectsWithAccess(tx[t].user)
<1>1. At(t, "scan") /\ UNCHANGED <<account, access>> /\ UNCHANGED <<account, accountLock>>
      /\ UNCHANGED <<accessLock>>
  BY DEF ScanAccess, tables, locks
<1>2. PICK m \in Visits(tx[t], P, "wipe", "commit") : tx' = [tx EXCEPT ![t] = m]
  BY DEF ScanAccess
<1>3. Running(tx[t]) /\ tx[t].pc = "scan" /\ tx[t].op = "DisableAccount"
  BY <1>1, AtRow, FlowOfStatements
<1>4. tx[t].op \in AccountOps /\ tx[t].op \in Rewriters
  BY <1>3 DEF AccountOps, Rewriters
<1>5. tx[t] \in TxState /\ tx'[t] = m
  BY <1>2 DEF LockInv, TypeInv, TxTypeOK
<1>6. /\ m.op = tx[t].op /\ m.user = tx[t].user /\ m.row = tx[t].row
      /\ m.events = tx[t].events /\ m.roles = tx[t].roles
      /\ m.profile = tx[t].profile /\ m.kind = tx[t].kind
      /\ \/ P = {} /\ m.pc = "commit" /\ m.project = tx[t].project /\ m.todo = tx[t].todo
         \/ \E p \in P : m.pc = "wipe" /\ m.project = p /\ m.todo = P \ {p}
  BY <1>5, VisitIs
<1>7. HolderOK(t)'
  BY <1>1, <1>3, <1>5, <1>6, HoldsStill DEF FamilyInv, OperationOK
<1>8. SilentOK(t)'
  BY <1>5, <1>6 DEF FamilyInv, OperationOK, SilentOK, Feed!ViewKinds
<1>9. VisitsOK(t)'
  <2>1. VisitsOK(t) /\ Wiped(t)' = Wiped(t)
    BY <1>1, <1>5, <1>6 DEF FamilyInv, OperationOK, Wiped
  <2>2. Told(tx[t]) = P /\ tx[t].todo = {} /\ Wiped(t) = {} /\ tx[t].roles = NoAccess
    BY <1>3, <1>4, <2>1 DEF VisitsOK
  <2>3. Told(m) = Told(tx[t]) /\ ProjectsWithAccess(m.user)' = P
    BY <1>1, <1>6 DEF Told, ProjectsWithAccess
  <2>4. \A e : EventOK(e, m)' <=> EventOK(e, tx[t])
    BY <1>1, <1>6 DEF EventOK
  <2>5. CASE m.pc = "commit"
    <3>1. P = {} /\ m.todo = {}
      BY <1>6, <2>2, <2>5
    <3> QED BY <1>3, <1>4, <1>5, <1>6, <2>1, <2>2, <2>3, <2>4, <2>5, <3>1
            DEF VisitsOK, Told, EventOK
  <2>6. CASE m.pc = "wipe"
    <3>1. m.todo \cup {m.project} = P
      BY <1>6, <2>6
    <3> QED BY <1>3, <1>4, <1>5, <1>6, <2>1, <2>2, <2>3, <2>4, <2>6, <3>1
            DEF VisitsOK, Told, EventOK
  <2> QED BY <1>6, <2>5, <2>6
<1>10. Takes(t)
  BY <1>1 DEF Takes
<1> QED BY <1>1, <1>2, <1>4, <1>6, <1>7, <1>8, <1>9, <1>10, HolderGoesOn

-----------------------------------------------------------------------------
(* Events. *)
LEMMA QueuedIs ==
    ASSUME NEW t \in Txs, tx[t] \in TxState, NEW m \in Queued(t)
    PROVE  /\ m.op = tx[t].op /\ m.user = tx[t].user /\ m.row = tx[t].row
           /\ m.roles = tx[t].roles /\ m.profile = tx[t].profile /\ m.kind = tx[t].kind
           /\ m.events = tx[t].events \cup {Event(t)}
           /\ \/ /\ tx[t].todo = {} /\ m.pc = After(t) /\ m.project = tx[t].project
                 /\ m.todo = {}
              \/ \E p \in tx[t].todo :
                   /\ m.pc = IF tx[t].kind = "profile.updated" THEN "roles" ELSE "insert"
                   /\ m.project = p /\ m.todo = tx[t].todo \ {p}
<1> DEFINE n == [tx[t] EXCEPT !.events = @ \cup {Event(t)}]
           each == IF tx[t].kind = "profile.updated" THEN "roles" ELSE "insert"
<1>1. /\ n.op = tx[t].op /\ n.user = tx[t].user /\ n.row = tx[t].row
      /\ n.roles = tx[t].roles /\ n.profile = tx[t].profile /\ n.kind = tx[t].kind
      /\ n.todo = tx[t].todo /\ n.project = tx[t].project
      /\ n.events = tx[t].events \cup {Event(t)}
  BY DEF TxState
<1>2. m \in Visits(n, tx[t].todo, each, After(t))
  BY <1>1 DEF Queued
<1>3. CASE tx[t].todo = {}
  <2>1. m = [n EXCEPT !.pc = After(t)]
    BY <1>2, <1>3 DEF Visits
  <2> QED BY <1>1, <1>3, <2>1 DEF TxState
<1>4. CASE tx[t].todo # {}
  <2>1. PICK p \in tx[t].todo :
          m = [n EXCEPT !.pc = each, !.project = p, !.todo = tx[t].todo \ {p}]
    BY <1>2, <1>4 DEF Visits
  <2> QED BY <1>1, <2>1 DEF TxState
<1> QED BY <1>3, <1>4

LEMMA EventIs ==
    ASSUME NEW t
    PROVE  /\ Event(t).project = tx[t].project /\ Event(t).kind = tx[t].kind
           /\ Event(t).user = tx[t].user /\ Event(t).roles = tx[t].roles
           /\ Event(t).profile = tx[t].profile
  BY DEF Event

(* A writer queues its only event. *)
LEMMA WriterQueues ==
    ASSUME LockInv, FamilyInv, NEW t \in Txs, QueueEvent(t), tx[t].op \in Writers
    PROVE  FamilyInv'
<1>1. PICK l \in {"insert", "ownInsert"} : At(t, l)
  BY DEF QueueEvent
<1>2. PICK m \in Queued(t) : tx' = [tx EXCEPT ![t] = m]
  BY DEF QueueEvent
<1>3. tx[t] \in TxState /\ tx'[t] = m
  BY <1>2 DEF LockInv, TypeInv, TxTypeOK
<1>4. UNCHANGED <<account, access, accountLock>> /\ UNCHANGED <<accessLock>>
  BY DEF QueueEvent, tables
<1>5. Running(tx[t]) /\ tx[t].pc = "insert" /\ After(t) = "commit" /\ RowOfTx(t) \in Rows
  BY <1>1, AtRow, FlowOfStatements DEF After, Writers, Granters, Revokers
<1>6. WriterOK(t)
  BY DEF FamilyInv, OperationOK
<1>7. tx[t].todo = {} /\ tx[t].events = {} /\ accessLock[<<tx[t].user, tx[t].project>>] = t
  BY <1>5, <1>6 DEF WriterOK, RowLocked
<1>8. /\ m.op = tx[t].op /\ m.user = tx[t].user /\ m.roles = tx[t].roles
      /\ m.profile = tx[t].profile /\ m.kind = tx[t].kind /\ m.events = {Event(t)}
      /\ m.pc = "commit" /\ m.project = tx[t].project /\ m.todo = {}
  BY <1>3, <1>5, <1>7, QueuedIs
<1>9. WriterOK(t)'
  <2>1. \E e \in m.events :
           /\ m.events = {e}
           /\ e.user = m.user /\ e.project = m.project /\ e.kind = m.kind
           /\ e.roles = m.roles /\ e.profile = m.profile
    BY <1>8, EventIs
  <2> QED BY <1>3, <1>4, <1>5, <1>6, <1>7, <1>8, <2>1 DEF WriterOK, RowLocked
<1> QED BY <1>2, <1>4, <1>8, <1>9, WriterGoesOn

(* A rewriter queues the event of the project at hand. *)
LEMMA RewriterQueues ==
    ASSUME LockInv, FamilyInv, NEW t \in Txs, tx[t].op \in Rewriters,
           tx[t].pc \in {"insert", "ownInsert"}, Running(tx[t]),
           IF tx[t].pc = "ownInsert"
           THEN tx[t].op = "UpdateLegacyProfile" /\ After(t) = "projects"
           ELSE After(t) = IF tx[t].op = "DisableAccount" THEN "scan" ELSE "commit",
           UNCHANGED <<account, access>>, UNCHANGED <<accessLock>>,
           NEW m \in Queued(t), tx'[t] = m
    PROVE  VisitsOK(t)'
<1> DEFINE P == ProjectsWithAccess(tx[t].user)
<1>1. tx[t] \in TxState /\ tx[t].user \in Users /\ tx[t].project \in Projects
  BY DEF Running, AtProject
<1>2. /\ m.op = tx[t].op /\ m.user = tx[t].user /\ m.row = tx[t].row
      /\ m.roles = tx[t].roles /\ m.profile = tx[t].profile /\ m.kind = tx[t].kind
      /\ m.events = tx[t].events \cup {Event(t)}
      /\ \/ /\ tx[t].todo = {} /\ m.pc = After(t) /\ m.project = tx[t].project
            /\ m.todo = {}
         \/ \E p \in tx[t].todo :
              /\ m.pc = IF tx[t].kind = "profile.updated" THEN "roles" ELSE "insert"
              /\ m.project = p /\ m.todo = tx[t].todo \ {p}
  BY <1>1, QueuedIs
<1>3. VisitsOK(t) /\ HolderOK(t) /\ Wiped(t)' = Wiped(t)
  BY <1>2 DEF FamilyInv, OperationOK, Wiped
<1>4. tx[t].kind = KindOf(tx[t].op) /\ tx[t].op \in AllOps
  BY DEF Running, Rewriters
<1>5. tx[t].kind = IF tx[t].op = "DisableAccount" THEN "access.revoked"
                   ELSE "profile.updated"
  BY <1>4, FlowOfStarts DEF Rewriters
<1>6. tx[t].kind = "profile.updated" => tx[t].profile = tx[t].row.profile
  <2>1. account[tx[t].user] \in Accounts
    BY <1>1 DEF LockInv, TypeInv, DataTypeOK
  <2>2. tx[t].row = Updated(tx[t].op, account[tx[t].user], tx[t].profile)
    BY <1>3 DEF HolderOK, AccountOps
  <2>3. tx[t].op # "DisableAccount" =>
          tx[t].row = [account[tx[t].user] EXCEPT !.profile = tx[t].profile]
    BY <2>2 DEF Updated, Rewriters
  <2> QED BY <1>5, <2>1, <2>3 DEF Accounts
<1>7. Told(m) = Told(tx[t]) \cup {tx[t].project} /\ ProjectsWithAccess(m.user)' = P
  <2>1. Told(m) = Told(tx[t]) \cup {tx[t].project}
    BY <1>2, EventIs DEF Told
  <2> QED BY <1>2, <2>1 DEF ProjectsWithAccess
<1>8. /\ tx[t].project \notin Told(tx[t])
      /\ tx[t].pc = "insert" => /\ Told(tx[t]) \cup tx[t].todo \cup {tx[t].project} = P
                                /\ tx[t].project \notin tx[t].todo
                                /\ Told(tx[t]) \cap tx[t].todo = {}
      /\ tx[t].pc = "ownInsert" => /\ Told(tx[t]) = {} /\ tx[t].todo = {}
                                   /\ tx[t].project \in P
  BY <1>3 DEF VisitsOK, Told
<1>9. \A e, d \in m.events : e.project = d.project => e = d
  <2>1. \A e \in tx[t].events : e.project # Event(t).project
    BY <1>8, EventIs DEF Told
  <2> QED BY <1>2, <1>3, <2>1 DEF VisitsOK
<1>10. \A e \in m.events : EventOK(e, m)'
  <2>1. \A e : EventOK(e, m)' <=> EventOK(e, tx[t])
    BY <1>2 DEF EventOK
  <2>2. EventOK(Event(t), tx[t])
    <3>1. tx[t].kind = "profile.updated" => tx[t].roles = access[<<tx[t].user, tx[t].project>>]
      BY <1>3 DEF VisitsOK
    <3> QED BY <1>1, <1>6, <3>1, EventIs DEF EventOK
  <2> QED BY <1>2, <1>3, <2>1, <2>2 DEF VisitsOK
<1>11. m.op = "DisableAccount" => m.roles = NoAccess /\ Wiped(t)' = {}
  BY <1>2, <1>3 DEF VisitsOK
<1>12. CASE tx[t].pc = "ownInsert"
  <2>1. m.pc = "projects" /\ m.todo = {} /\ m.project = tx[t].project
        /\ Told(m) = {m.project} /\ m.op = "UpdateLegacyProfile"
    BY <1>2, <1>7, <1>8, <1>12
  <2> QED BY <1>1, <1>2, <1>7, <1>8, <1>9, <1>10, <1>12, <2>1 DEF VisitsOK, Told, EventOK
<1>13. CASE tx[t].pc = "insert" /\ m.pc = After(t)
  <2>1. tx[t].todo = {} /\ m.todo = {}
    BY <1>2, <1>5, <1>13
  <2>2. Told(m) = P
    BY <1>7, <1>8, <1>13, <2>1
  <2>3. IF m.op = "DisableAccount" THEN m.pc = "scan" ELSE m.pc = "commit"
    BY <1>2, <1>13
  <2> QED BY <1>2, <1>7, <1>9, <1>10, <1>11, <2>1, <2>2, <2>3 DEF VisitsOK, Told, EventOK
<1>14. CASE tx[t].pc = "insert" /\ m.pc # After(t)
  <2>1. PICK p \in tx[t].todo : m.project = p /\ m.todo = tx[t].todo \ {p}
    BY <1>2, <1>14
  <2>2. m.pc = IF m.op = "DisableAccount" THEN "insert" ELSE "roles"
    BY <1>2, <1>5, <1>14
  <2>3. /\ Told(m) \cup m.todo \cup {m.project} = P
        /\ m.project \notin Told(m) \cup m.todo
        /\ Told(m) \cap m.todo = {}
    BY <1>7, <1>8, <1>14, <2>1
  <2>4. m.pc = "insert" => m.kind # "profile.updated"
    BY <1>2, <1>5, <2>2
  <2> QED BY <1>2, <1>7, <1>9, <1>10, <1>11, <2>2, <2>3, <2>4 DEF VisitsOK, Told, EventOK
<1> QED BY <1>12, <1>13, <1>14

LEMMA QueueEventFamily ==
    ASSUME LockInv, FamilyInv, NEW t \in Txs, QueueEvent(t) PROVE FamilyInv'
<1>1. CASE tx[t].op \in Writers
  BY <1>1, WriterQueues
<1>2. CASE tx[t].op \notin Writers
  <2>1. PICK l \in {"insert", "ownInsert"} : At(t, l)
    BY DEF QueueEvent
  <2>2. PICK m \in Queued(t) : tx' = [tx EXCEPT ![t] = m]
    BY DEF QueueEvent
  <2>3. tx[t] \in TxState /\ tx'[t] = m
    BY <2>2 DEF LockInv, TypeInv, TxTypeOK
  <2>4. UNCHANGED <<account, access>> /\ UNCHANGED <<account, accountLock>>
        /\ UNCHANGED <<accessLock>>
    BY DEF QueueEvent, tables
  <2>5. /\ Running(tx[t]) /\ tx[t].pc = l /\ tx[t].op \in AllOps
        /\ IF tx[t].pc = "ownInsert"
           THEN tx[t].op = "UpdateLegacyProfile" /\ After(t) = "projects"
           ELSE After(t) = IF tx[t].op = "DisableAccount" THEN "scan" ELSE "commit"
    BY <2>1, AtRow, FlowOfStatements DEF After
  <2>6. tx[t].op \in AccountOps
    <3>1. tx[t].op \notin AutoOps
      BY <2>1, <2>5, FlowOfAutocommit DEF Running, AutoStatements
    <3> QED BY <1>2, <2>5, <3>1 DEF AutoOps, AllOps, Program, Writers, Granters, Revokers,
                                    AccountOps, Rewriters
  <2>7. /\ m.op = tx[t].op /\ m.user = tx[t].user /\ m.row = tx[t].row
        /\ m.profile = tx[t].profile /\ m.kind = tx[t].kind
        /\ m.events = tx[t].events \cup {Event(t)}
    BY <2>3, QueuedIs
  <2>8. HolderOK(t)'
    BY <2>3, <2>4, <2>5, <2>7, HoldsStill DEF FamilyInv, OperationOK
  <2>9. VisitsOK(t)'
    <3>1. CASE tx[t].op \in Rewriters
      BY <2>3, <2>4, <2>5, <3>1, RewriterQueues
    <3>2. CASE tx[t].op \notin Rewriters
      BY <2>3, <2>7, <3>2 DEF VisitsOK
    <3> QED BY <3>1, <3>2
  <2>10. SilentOK(t)'
    <3> SUFFICES ASSUME tx[t].op \notin Rewriters
                 PROVE  \A e \in m.events : e.kind \notin Feed!ViewKinds
      BY <2>3, <2>7 DEF SilentOK, Feed!ViewKinds
    <3>1. tx[t].kind = KindOf(tx[t].op)
      BY <1>2, <2>5 DEF Running, Writers, Granters
    <3>2. Event(t).kind \notin Feed!ViewKinds
      BY <1>2, <2>5, <3>1, FlowOfStarts, EventIs
    <3> QED BY <1>2, <2>7, <3>2 DEF FamilyInv, OperationOK, SilentOK
  <2>11. Takes(t)
    BY <2>4 DEF Takes
  <2> QED BY <2>2, <2>4, <2>6, <2>7, <2>8, <2>9, <2>10, <2>11, HolderGoesOn
<1> QED BY <1>1, <1>2

(* Every row DisableAccount comes to is still there: it locks them all. *)
LEMMA WipeAccessFamily ==
    ASSUME LockInv, FamilyInv, NEW t \in Txs, WipeAccess(t) PROVE FamilyInv'
<1> DEFINE P == ProjectsWithAccess(tx[t].user)
           r == RowOfTx(t)
<1>1. At(t, "wipe") /\ UNCHANGED <<account, access>> /\ UNCHANGED <<account, accountLock>>
  BY DEF WipeAccess, tables
<1>2. PICK m \in Visits(tx[t], tx[t].todo, "wipe", After(t)) : tx' = [tx EXCEPT ![t] = m]
  BY DEF WipeAccess
<1>3. /\ Running(tx[t]) /\ tx[t].pc = "wipe" /\ tx[t].op = "DisableAccount"
      /\ After(t) = "commit" /\ tx[t].user \in Users /\ tx[t].project \in Projects
  BY <1>1, AtRow, FlowOfStatements DEF After, Running, AtProject
<1>4. tx[t].op \in AccountOps /\ tx[t].op \in Rewriters
  BY <1>3 DEF AccountOps, Rewriters
<1>5. tx[t] \in TxState /\ tx'[t] = m
  BY <1>2 DEF LockInv, TypeInv, TxTypeOK
<1>6. /\ m.op = tx[t].op /\ m.user = tx[t].user /\ m.row = tx[t].row
      /\ m.events = tx[t].events /\ m.roles = tx[t].roles
      /\ m.profile = tx[t].profile /\ m.kind = tx[t].kind
      /\ \/ /\ tx[t].todo = {} /\ m.pc = "commit"
            /\ m.project = tx[t].project /\ m.todo = tx[t].todo
         \/ \E p \in tx[t].todo : m.pc = "wipe" /\ m.project = p /\ m.todo = tx[t].todo \ {p}
  BY <1>3, <1>5, VisitIs
<1>7. HolderOK(t)'
  BY <1>1, <1>3, <1>5, <1>6, HoldsStill DEF FamilyInv, OperationOK
<1>8. SilentOK(t)'
  BY <1>5, <1>6 DEF FamilyInv, OperationOK, SilentOK, Feed!ViewKinds
<1>9. VisitsOK(t) /\ Told(tx[t]) = P /\ Wiped(t) \cup tx[t].todo \cup {tx[t].project} = P
      /\ tx[t].roles = NoAccess
  BY <1>3, <1>4 DEF FamilyInv, OperationOK, VisitsOK
<1>10. r \in Rows /\ access[r] # NoAccess
  BY <1>3, <1>9 DEF RowOfTx, Rows, ProjectsWithAccess
<1>11. accessLock' = [accessLock EXCEPT ![r] = t] /\ accessLock[r] \in {None, t}
  BY <1>1, <1>3, <1>10 DEF WipeAccess, At, BlockedBy, Others
<1>12. /\ accessLock'[r] = t
       /\ \A q \in Rows : q # r => accessLock'[q] = accessLock[q]
  BY <1>10, <1>11 DEF LockInv, TypeInv, LocksTypeOK
<1>13. Wiped(t)' = Wiped(t) \cup {tx[t].project}
  <2>1. ASSUME NEW p \in Projects
        PROVE  accessLock'[<<tx[t].user, p>>] = t
                 <=> p = tx[t].project \/ accessLock[<<tx[t].user, p>>] = t
    BY <1>3, <1>12 DEF RowOfTx, Rows
  <2> QED BY <1>3, <1>5, <1>6, <2>1 DEF Wiped
<1>14. VisitsOK(t)'
  <2>1. Told(m) = P /\ ProjectsWithAccess(m.user)' = P
    BY <1>1, <1>6, <1>9 DEF Told, ProjectsWithAccess
  <2>2. \A e : EventOK(e, m)' <=> EventOK(e, tx[t])
    BY <1>1, <1>6 DEF EventOK
  <2>3. CASE m.pc = "commit"
    <3>1. m.todo = {} /\ Wiped(t)' = P
      BY <1>6, <1>9, <1>13, <2>3
    <3> QED BY <1>3, <1>4, <1>5, <1>6, <1>9, <2>1, <2>2, <2>3, <3>1
            DEF VisitsOK, Told, EventOK
  <2>4. CASE m.pc = "wipe"
    <3>1. Wiped(t)' \cup m.todo \cup {m.project} = P
      BY <1>6, <1>9, <1>13, <2>4
    <3> QED BY <1>3, <1>4, <1>5, <1>6, <1>9, <2>1, <2>2, <2>4, <3>1
            DEF VisitsOK, Told, EventOK
  <2> QED BY <1>6, <2>3, <2>4
<1>15. Takes(t)
  BY <1>1, <1>3, <1>5, <1>6, <1>11, <1>12 DEF Takes, RowOfTx
<1> QED BY <1>1, <1>2, <1>4, <1>6, <1>7, <1>8, <1>14, <1>15, HolderGoesOn

-----------------------------------------------------------------------------
(* Beginning, and the operations outside a transaction. *)
LEMMA BeginFamily ==
    ASSUME LockInv, FamilyInv, NEW t \in Txs, Begin(t) PROVE FamilyInv'
<1>1. PICK op \in Ops, u \in Users :
        \E p \in ProjectsOf(op), R \in RolesOf(op), f \in ProfilesOf(op) :
          tx' = [tx EXCEPT ![t] = Started(op, u, p, R, f)]
  BY DEF Begin
<1>2. PICK p \in ProjectsOf(op), R \in RolesOf(op), f \in ProfilesOf(op) :
          tx' = [tx EXCEPT ![t] = Started(op, u, p, R, f)]
  BY <1>1
<1>3. PICK n : n = Started(op, u, p, R, f)
  OBVIOUS
<1>4. /\ n.op = op /\ n.pc = Program[op].start /\ n.user = u /\ n.project = p
      /\ n.kind = KindOf(op) /\ n.roles = R /\ n.profile = f
      /\ n.todo = {} /\ n.events = {}
  BY <1>3 DEF Started, Idle
<1>5. op \in AllOps /\ op \in Ops
  BY OpsAssumption
<1>6. tx'[t] = n /\ (\A s \in Txs \ {t} : tx'[s] = tx[s])
  BY <1>2, <1>3 DEF LockInv, TypeInv, TxTypeOK
<1>7. UNCHANGED <<account, access>> /\ UNCHANGED <<accountLock, accessLock>>
      /\ tx[t].pc = "idle"
  BY DEF Begin, tables, locks
<1>8. /\ \A w \in Users : accountLock[w] # t
      /\ \A r \in Rows : accessLock[r] # t
  BY <1>7 DEF LockInv, HeldByTransactions, InTransaction
<1>9. Steady(t) /\ LocksOK(t)'
  BY <1>6, <1>7, <1>8 DEF Steady, LocksOK
<1>10. /\ op \in Writers => Program[op].start \notin RowLocked
       /\ op \in Granters /\ RolesOf(op) # ValidRoles =>
            op = "GrantProjectAdmin" /\ Program[op].start = "active"
       /\ op \in Revokers \cup Rewriters => RolesOf(op) = {NoAccess}
       /\ op \in AccountOps => Program[op].start = "account"
       /\ op \in Rewriters \ {"UpdateLegacyProfile"} => ProjectsOf(op) = {None}
  BY <1>5, FlowOfStarts
<1>11. WriterOK(t)'
  <2>1. op \in Granters => \/ R # NoAccess
                           \/ op = "GrantProjectAdmin" /\ n.pc = "active"
    BY <1>4, <1>10 DEF ValidRoles
  <2>2. op \in Revokers => R = NoAccess
    BY <1>10
  <2>3. op \in Writers => n.pc \notin {"close", "payload", "insert", "commit"}
    BY <1>4, <1>10 DEF RowLocked
  <2> QED BY <1>4, <1>6, <2>1, <2>2, <2>3 DEF WriterOK, RowLocked
<1>12. HolderOK(t)'
  BY <1>4, <1>6, <1>10 DEF HolderOK
<1>13. VisitsOK(t)'
  <2> SUFFICES ASSUME op \in Rewriters PROVE VisitsOK(t)'
    BY <1>4, <1>6 DEF VisitsOK
  <2>1. n.pc = "account" /\ n.roles = NoAccess
    BY <1>4, <1>10 DEF AccountOps
  <2>2. n.op # "UpdateLegacyProfile" => n.project = None
    BY <1>4, <1>10
  <2>3. Wiped(t)' = {}
    <3>1. n.user \in Users
      BY <1>4
    <3> QED BY <1>6, <1>7, <1>8, <3>1 DEF Wiped, Rows
  <2> QED BY <1>4, <1>6, <2>1, <2>2, <2>3 DEF VisitsOK
<1>14. SilentOK(t)'
  BY <1>4, <1>6 DEF SilentOK
<1>15. OperationOK(t)'
  BY <1>4, <1>5, <1>6, <1>11, <1>12, <1>13, <1>14 DEF OperationOK
<1> QED BY <1>9, <1>15, SteadyInv

LEMMA AutocommitFamily ==
    ASSUME LockInv, FamilyInv, NEW t \in Txs, ReadAccess(t) \/ InsertRequest(t)
    PROVE  FamilyInv'
<1>1. PICK l \in {"read", "request"} : At(t, l)
  BY DEF ReadAccess, InsertRequest
<1>2. Running(tx[t]) /\ tx[t].op = "RequestAccess"
  BY <1>1, AtRow, FlowOfStatements
<1>3. UNCHANGED <<account, access>> /\ UNCHANGED <<accountLock, accessLock>>
  BY DEF ReadAccess, InsertRequest, tables, locks
<1>4. tx[t].op \notin Writers \cup AccountOps \cup Rewriters
  BY <1>2 DEF Writers, Granters, Revokers, AccountOps, Rewriters
<1>5. PICK n : n \in {Idle, [tx[t] EXCEPT !.pc = After(t)]} /\ tx' = [tx EXCEPT ![t] = n]
  BY DEF ReadAccess, InsertRequest, Advance
<1>6. tx'[t] = n /\ (\A s \in Txs \ {t} : tx'[s] = tx[s])
  BY <1>5 DEF LockInv, TypeInv, TxTypeOK
<1>7. \/ n = Idle
      \/ n.op = tx[t].op /\ n.events = tx[t].events
  BY <1>2, <1>5 DEF Running, TxState
<1>8. OperationOK(t)'
  BY <1>4, <1>6, <1>7, IdleOK
     DEF FamilyInv, OperationOK, WriterOK, HolderOK, VisitsOK, SilentOK, Feed!ViewKinds
<1>9. /\ \A w \in Users : accountLock[w] # t
      /\ \A r \in Rows : accessLock[r] # t
  BY <1>2 DEF LockInv, HeldByTransactions, InTransaction, AutoOps
<1>10. Steady(t) /\ LocksOK(t)'
  BY <1>3, <1>6, <1>9 DEF Steady, LocksOK
<1> QED BY <1>8, <1>10, SteadyInv

LEMMA NoBootstrap ==
    ASSUME OneFamily, LockInv, FamilyInv, NEW t \in Txs,
           BootstrapAdmin(t) \/ BootstrapAccess(t)
    PROVE  FALSE
<1>1. PICK l \in {"admin", "adminAccess"} : At(t, l)
  BY DEF BootstrapAdmin, BootstrapAccess
<1>2. tx[t].op = "EnsureBootstrap"
  BY <1>1, AtRow, FlowOfStatements
<1> QED BY <1>2 DEF OneFamily, FamilyInv, OperationOK

-----------------------------------------------------------------------------
(* Committing: which rows become visible, and what the other operations see. *)
LEMMA CommittedAccount ==
    ASSUME LockInv, FamilyInv, NEW t \in Txs, Commit(t), NEW w \in Users
    PROVE  \/ accountLock[w] # t /\ account'[w] = account[w]
           \/ /\ accountLock[w] = t /\ w = tx[t].user /\ tx[t].op \in AccountOps
              /\ account'[w] = Updated(tx[t].op, account[w], tx[t].profile)
<1>1. account'[w] = IF accountLock[w] = t THEN tx[t].row ELSE account[w]
  BY DEF Commit
<1>2. tx[t].pc = "commit"
  BY DEF Commit, At
<1>3. CASE accountLock[w] = t
  <2>1. w = tx[t].user /\ tx[t].op \in AccountOps
    BY <1>3 DEF LockInv, HeldByTransactions, FamilyInv, HoldersOK
  <2>2. HolderOK(t)
    BY DEF FamilyInv, OperationOK
  <2> QED BY <1>1, <1>2, <1>3, <2>1, <2>2 DEF HolderOK
<1> QED BY <1>1, <1>3

LEMMA CommittedAccess ==
    ASSUME LockInv, FamilyInv, NEW t \in Txs, Commit(t), NEW r \in Rows
    PROVE  \/ accessLock[r] # t /\ access'[r] = access[r]
           \/ /\ accessLock[r] = t /\ access'[r] = tx[t].roles
              /\ \/ tx[t].op \in Writers /\ r = RowOfTx(t)
                 \/ tx[t].op = "DisableAccount" /\ r[1] = tx[t].user
  BY DEF Commit, FamilyInv, HoldersOK

(* What an account operation leaves of an account. *)
LEMMA UpdatedIs ==
    ASSUME NEW op \in AccountOps, NEW a \in Accounts, NEW f
    PROVE  /\ op \notin Rewriters => Updated(op, a, f).profile = a.profile
           /\ op = "DisableAccount" => Updated(op, a, f).profile = a.profile
           /\ op \in Rewriters \ {"DisableAccount"} =>
                /\ Updated(op, a, f).profile = f
                /\ Updated(op, a, f).status = a.status
           /\ op # "DisableAccount" /\ a.status = "active" =>
                Updated(op, a, f).status = "active"
           /\ op = "DisableAccount" => Updated(op, a, f).status = "disabled"
<1>1. CASE op \in {"UpdateProfile", "UpdateLegacyProfile"}
  BY <1>1 DEF Updated, Accounts, Rewriters
<1>2. CASE op = "DisableAccount"
  BY <1>2 DEF Updated, Accounts, Rewriters
<1>3. CASE op = "ActivateAccount"
  BY <1>3 DEF Updated, Accounts, Rewriters
<1>4. CASE op \notin {"UpdateProfile", "UpdateLegacyProfile", "DisableAccount",
                      "ActivateAccount"}
  BY <1>4 DEF Updated, Accounts, Rewriters
<1> QED BY <1>1, <1>2, <1>3, <1>4

(* Beside a writer no account loses its status or changes its profile.      *)
LEMMA AccountsStayBesideWriters ==
    ASSUME OneFamily, LockInv, FamilyInv, NEW t \in Txs, Commit(t),
           Ops \cap Writers # {}, NEW w \in Users
    PROVE  /\ account'[w].profile = account[w].profile
           /\ account[w].status = "active" => account'[w].status = "active"
<1>1. tx[t].op \notin Rewriters
  BY DEF OneFamily, FamilyInv, OperationOK, Rewriters
<1>2. account[w] \in Accounts
  BY DEF LockInv, TypeInv, DataTypeOK
<1> QED BY <1>1, <1>2, CommittedAccount, UpdatedIs DEF Rewriters

LEMMA CommitKeepsOthers ==
    ASSUME OneFamily, LockInv, FamilyInv, NEW t \in Txs, Commit(t), NEW s \in Txs \ {t}
    PROVE  OperationOK(s)' /\ LocksOK(s)'
<1>1. tx' = [tx EXCEPT ![t] = Idle] /\ ReleaseLocks(t) /\ tx[t].pc = "commit"
  BY DEF Commit, At
<1>2. /\ tx'[s] = tx[s]
      /\ \A u \in Users : accountLock'[u] = s <=> accountLock[u] = s
      /\ \A r \in Rows : accessLock'[r] = s <=> accessLock[r] = s
  BY <1>1, ReleasesOwn
<1>3. Running(tx[s]) \/ tx[s] = Idle
  BY DEF LockInv, TypeInv, TxTypeOK, WellFormed
<1>4. /\ Running(tx[s]) => tx[s].user \in Users
      /\ tx[s].op \in Writers => <<tx[s].user, tx[s].project>> \in Rows
  BY <1>3 DEF Running, Idle, Rows, Writers, Granters, Revokers, RowOps
<1>5. OperationOK(s) /\ OperationOK(t)
  BY DEF FamilyInv
<1>6. WriterOK(s)'
  <2> SUFFICES ASSUME tx[s].op \in Writers PROVE WriterOK(s)'
    BY <1>2 DEF WriterOK
  <2>1. Ops \cap Writers # {} /\ tx[s].user \in Users
    BY <1>3, <1>4, <1>5 DEF OperationOK, Idle, Writers, Granters, Revokers
  <2>2. /\ account'[tx[s].user].profile = account[tx[s].user].profile
        /\ account[tx[s].user].status = "active" => account'[tx[s].user].status = "active"
    BY <2>1, AccountsStayBesideWriters
  <2> QED BY <1>2, <1>4, <1>5, <2>2 DEF OperationOK, WriterOK
<1>7. HolderOK(s)'
  <2> SUFFICES ASSUME tx[s].op \in AccountOps, tx[s].pc # "account" PROVE HolderOK(s)'
    BY <1>2 DEF HolderOK
  <2>1. tx[s].user \in Users /\ accountLock[tx[s].user] = s
    BY <1>3, <1>4, <1>5 DEF OperationOK, HolderOK, AccountOps, Rewriters, Idle
  <2>2. account'[tx[s].user] = account[tx[s].user]
    BY <2>1, CommittedAccount
  <2> QED BY <1>2, <1>5, <2>1, <2>2 DEF OperationOK, HolderOK
<1>8. VisitsOK(s)'
  <2> SUFFICES ASSUME tx[s].op \in Rewriters PROVE VisitsOK(s)'
    BY <1>2 DEF VisitsOK
  <2>1. tx[s].user \in Users /\ VisitsOK(s) /\ tx[s].op \in AccountOps
    BY <1>3, <1>4, <1>5 DEF OperationOK, Rewriters, Idle, AccountOps
  <2>2. Wiped(s)' = Wiped(s)
    BY <1>2, <2>1 DEF Wiped, Rows
  <2>3. CASE tx[s].pc = "account"
    <3>1. tx[s].events = {}
      BY <2>1, <2>3 DEF VisitsOK
    <3> QED BY <1>2, <2>1, <2>2, <2>3, <3>1 DEF VisitsOK
  <2>4. CASE tx[s].pc # "account"
    <3>1. accountLock[tx[s].user] = s
      BY <1>5, <2>1, <2>4 DEF OperationOK, HolderOK
    <3>2. ASSUME NEW p \in Projects
          PROVE  access'[<<tx[s].user, p>>] = access[<<tx[s].user, p>>]
      <4>1. <<tx[s].user, p>> \in Rows
        BY <2>1 DEF Rows
      <4>2. tx[t].op \notin Writers
        BY <1>5 DEF OneFamily, OperationOK, Rewriters, Writers, Granters, Revokers
      <4>3. tx[t].op = "DisableAccount" => accountLock[tx[t].user] = t
        BY <1>1, <1>5 DEF OperationOK, HolderOK, AccountOps, Rewriters
      <4>4. tx[t].op = "DisableAccount" => tx[s].user # tx[t].user
        BY <3>1, <4>3
      <4> QED BY <4>1, <4>2, <4>4, CommittedAccess
    <3>3. ProjectsWithAccess(tx[s].user)' = ProjectsWithAccess(tx[s].user)
      BY <1>2, <3>2 DEF ProjectsWithAccess
    <3>4. \A e : EventOK(e, tx[s])' <=> EventOK(e, tx[s])
      BY <1>2, <3>2 DEF EventOK
    <3>5. tx[s].pc \in {"insert", "ownInsert"} =>
            access'[<<tx[s].user, tx[s].project>>] = access[<<tx[s].user, tx[s].project>>]
      BY <1>3, <3>2 DEF Running, AtProject, Idle
    <3> QED BY <1>2, <2>1, <2>2, <3>3, <3>4, <3>5 DEF VisitsOK, Told, EventOK
  <2> QED BY <2>3, <2>4
<1>9. SilentOK(s)'
  BY <1>2, <1>5 DEF OperationOK, SilentOK, Feed!ViewKinds
<1>10. LocksOK(s)'
  BY <1>2 DEF LocksOK, RowOfTx, FamilyInv, HoldersOK
<1> QED BY <1>2, <1>5, <1>6, <1>7, <1>8, <1>9, <1>10 DEF OperationOK

LEMMA CommitActive ==
    ASSUME OneFamily, LockInv, FamilyInv, NEW t \in Txs, Commit(t)
    PROVE  ActiveOK'
<1> SUFFICES ASSUME NEW r \in Rows, access'[r] # NoAccess
             PROVE  account'[r[1]].status = "active"
  BY DEF ActiveOK
<1>1. r[1] \in Users /\ r[2] \in Projects /\ r = <<r[1], r[2]>>
  BY DEF Rows
<1>2. tx[t].pc = "commit" /\ OperationOK(t) /\ account[r[1]] \in Accounts
  BY <1>1 DEF Commit, At, FamilyInv, LockInv, TypeInv, DataTypeOK
<1>3. CASE tx[t].op \in Writers /\ r = RowOfTx(t) /\ access'[r] = tx[t].roles
  <2>1. tx[t].op \in Granters
    BY <1>2, <1>3 DEF OperationOK, WriterOK, Writers
  <2>2. account[r[1]].status = "active"
    BY <1>2, <1>3, <2>1 DEF OperationOK, WriterOK, RowOfTx
  <2>3. tx[t].op \notin AccountOps
    BY <2>1 DEF Granters, AccountOps, Rewriters
  <2> QED BY <1>1, <2>2, <2>3, CommittedAccount
<1>4. CASE accessLock[r] # t /\ access'[r] = access[r]
  <2>1. account[r[1]].status = "active"
    BY <1>4 DEF FamilyInv, ActiveOK
  <2>2. CASE tx[t].op = "DisableAccount" /\ r[1] = tx[t].user
    <3>1. Wiped(t) = ProjectsWithAccess(tx[t].user)
      BY <1>2, <2>2 DEF OperationOK, VisitsOK, Rewriters
    <3>2. r[2] \in ProjectsWithAccess(tx[t].user)
      BY <1>1, <1>4, <2>2 DEF ProjectsWithAccess
    <3> QED BY <1>1, <1>4, <2>2, <3>1, <3>2 DEF Wiped
  <2>3. CASE ~(tx[t].op = "DisableAccount" /\ r[1] = tx[t].user)
    BY <1>1, <1>2, <2>1, <2>3, CommittedAccount, UpdatedIs
  <2> QED BY <2>2, <2>3
<1>5. CASE tx[t].op = "DisableAccount" /\ access'[r] = tx[t].roles
  BY <1>2, <1>5 DEF OperationOK, VisitsOK, Rewriters
<1> QED BY <1>3, <1>4, <1>5, CommittedAccess

LEMMA CommitFamily ==
    ASSUME OneFamily, LockInv, FamilyInv, NEW t \in Txs, Commit(t) PROVE FamilyInv'
<1>1. \A s \in Txs \ {t} : OperationOK(s)' /\ LocksOK(s)'
  BY CommitKeepsOthers
<1>2. tx' = [tx EXCEPT ![t] = Idle] /\ ReleaseLocks(t)
  BY DEF Commit
<1>3. OperationOK(t)' /\ LocksOK(t)'
  BY <1>2, ReleasesOwn, IdleOK DEF LocksOK
<1>4. \A s \in Txs : OperationOK(s)' /\ LocksOK(s)'
  BY <1>1, <1>3
<1>5. HoldersOK'
  BY <1>4 DEF HoldersOK, LocksOK
<1> QED BY <1>4, <1>5, CommitActive DEF FamilyInv

LEMMA InitFamily == ASSUME Init PROVE FamilyInv
<1>1. ActiveOK
  BY DEF Init, ActiveOK
<1>2. HoldersOK
  BY ValuesAssumption DEF Init, HoldersOK
<1>3. \A t \in Txs : OperationOK(t)
  BY DEF Init, OperationOK, WriterOK, HolderOK, VisitsOK, SilentOK, Idle, Writers, Granters,
         Revokers, AccountOps, Rewriters
<1> QED BY <1>1, <1>2, <1>3 DEF FamilyInv

LEMMA NextFamily ==
    ASSUME OneFamily, LockInv, FamilyInv, [Next]_vars PROVE FamilyInv'
<1>1. CASE UNCHANGED vars
  <2>1. UNCHANGED <<account, access>> /\ UNCHANGED <<accountLock, accessLock>>
        /\ UNCHANGED <<tx>>
    BY <1>1 DEF vars, tables, locks
  <2>2. CASE Txs = {}
    BY <2>1, <2>2 DEF FamilyInv, ActiveOK, HoldersOK
  <2>3. ASSUME NEW t \in Txs PROVE FamilyInv'
    <3>1. tx' = [tx EXCEPT ![t] = tx[t]] /\ tx'[t] = tx[t]
      BY <2>1 DEF LockInv, TypeInv, TxTypeOK
    <3>2. Takes(t)
      BY <2>1 DEF Takes
    <3>3. OperationOK(t)'
      <4>1. OperationOK(t)
        BY DEF FamilyInv
      <4>2. WriterOK(t)' /\ HolderOK(t)' /\ SilentOK(t)'
        BY <2>1, <4>1 DEF OperationOK, WriterOK, HolderOK, SilentOK, Feed!ViewKinds
      <4>3. \A e : EventOK(e, tx[t])' <=> EventOK(e, tx[t])
        BY <2>1 DEF EventOK
      <4>4. VisitsOK(t)'
        BY <2>1, <4>1, <4>3
           DEF OperationOK, VisitsOK, Told, Wiped, EventOK, ProjectsWithAccess
      <4> QED BY <2>1, <4>1, <4>2, <4>4 DEF OperationOK
    <3> QED BY <2>1, <3>1, <3>2, <3>3, GoesOn
  <2> QED BY <2>2, <2>3
<1>2. ASSUME NEW t \in Txs, Begin(t) \/ Step(t) \/ Fail(t) \/ DeadlockAbort(t)
      PROVE  FamilyInv'
  <2>1. CASE Fail(t) \/ DeadlockAbort(t)
    BY <2>1, RollbackFamily DEF Fail, DeadlockAbort
  <2>2. CASE Begin(t)
    BY <2>2, BeginFamily
  <2>3. CASE Step(t)
    BY <2>3, CheckActiveFamily, ProbeAccessFamily, UpsertAccessFamily, MergeAdminFamily,
       LockExistingFamily, ClaimRequestFamily, CloseRequestFamily, AccountPayloadFamily,
       UpdateAccountFamily, ProfileProjectsFamily, ReadRolesFamily, QueueEventFamily,
       ScanAccessFamily, WipeAccessFamily, CommitFamily, AutocommitFamily, NoBootstrap
       DEF Step
  <2> QED BY <1>2, <2>1, <2>2, <2>3
<1> QED BY <1>1, <1>2 DEF Next

-----------------------------------------------------------------------------
(* Publishing: the events of a commit and the rows it makes visible. *)
Entry(r) ==
    IF access[r] = NoAccess THEN None
    ELSE [roles |-> access[r], profile |-> account[r[1]].profile]

LEMMA SnapshotIs ==
    ASSUME ActiveOK, NEW r \in Rows PROVE Snapshot[r] = Entry(r)
  BY DEF ActiveOK, Snapshot, Entry

LEMMA SnapshotWillBe ==
    ASSUME ActiveOK', NEW r \in Rows PROVE Snapshot'[r] = Entry(r)'
  BY DEF ActiveOK, Snapshot, Entry

LEMMA WriterPublishes ==
    ASSUME LockInv, FamilyInv, NEW t \in Txs, Commit(t), tx[t].op \in Writers,
           NEW r \in Rows
    PROVE  LET known == Feed!About(r, tx[t].events)
           IN  \/ known = {} /\ Entry(r)' = Entry(r)
               \/ \E e : known = {e} /\ Entry(r)' = Feed!Effect(e)
<1> DEFINE n == tx[t]
<1>1. n.pc = "commit" /\ Running(n) /\ n.op \in AllOps /\ RowOfTx(t) \in Rows
  BY AtRow DEF Commit, At
<1>2. WriterOK(t)
  BY DEF FamilyInv, OperationOK
<1>3. PICK e \in n.events :
        /\ n.events = {e}
        /\ e.user = n.user /\ e.project = n.project /\ e.kind = n.kind
        /\ e.roles = n.roles /\ e.profile = n.profile
  BY <1>1, <1>2 DEF WriterOK
<1>4. r[1] \in Users /\ tx[t].op \notin AccountOps /\ tx[t].op # "DisableAccount"
  BY DEF Rows, Writers, Granters, Revokers, AccountOps, Rewriters
<1>5. account'[r[1]] = account[r[1]]
  BY <1>4, CommittedAccount
<1>6. Feed!RowOf(e) = RowOfTx(t)
  BY <1>3 DEF Feed!RowOf, RowOfTx
<1>7. CASE r # RowOfTx(t)
  <2>1. access'[r] = access[r]
    BY <1>4, <1>7, CommittedAccess
  <2>2. Feed!About(r, tx[t].events) = {}
    BY <1>3, <1>6, <1>7 DEF Feed!About
  <2> QED BY <1>5, <2>1, <2>2 DEF Entry
<1>8. CASE r = RowOfTx(t)
  <2>1. access'[r] = n.roles
    <3>1. accessLock[r] = t
      BY <1>1, <1>2, <1>8 DEF WriterOK, RowLocked, RowOfTx
    <3> QED BY <3>1, CommittedAccess
  <2>2. IF n.op \in Revokers THEN n.kind = "access.revoked"
        ELSE n.kind \in {"access.granted", "roles.changed"}
    <3>1. n.kind = KindOf(n.op) \/ (n.op = "GrantAccess" /\ n.kind = "roles.changed")
      BY <1>1 DEF Running
    <3>2. n.op \in Granters \/ n.op \in Revokers
      BY DEF Writers
    <3>3. n.op = "GrantAccess" => n.op \notin Revokers
      BY DEF Revokers
    <3> QED BY <1>1, <3>1, <3>2, <3>3, FlowOfStarts
  <2>3. Feed!About(r, tx[t].events) = {e}
    BY <1>3, <1>6, <1>8, <2>2 DEF Feed!About, Feed!ViewKinds
  <2>4. CASE n.op \in Revokers
    <3>1. access'[r] = NoAccess
      BY <1>2, <2>1, <2>4 DEF WriterOK
    <3> QED BY <1>3, <2>2, <2>3, <2>4, <3>1 DEF Entry, Feed!Effect
  <2>5. CASE n.op \notin Revokers
    <3>1. /\ n.roles # NoAccess /\ account[n.user].profile = n.profile
          /\ r[1] = n.user
      BY <1>1, <1>2, <1>8, <2>5 DEF WriterOK, Writers, RowOfTx
    <3>2. Feed!Effect(e) = [roles |-> n.roles, profile |-> n.profile]
      BY <1>3, <2>2, <2>5 DEF Feed!Effect
    <3> QED BY <1>5, <2>1, <2>3, <3>1, <3>2 DEF Entry
  <2> QED BY <2>4, <2>5
<1> QED BY <1>7, <1>8

LEMMA RewriterPublishes ==
    ASSUME LockInv, FamilyInv, NEW t \in Txs, Commit(t), tx[t].op \in Rewriters,
           NEW r \in Rows
    PROVE  LET known == Feed!About(r, tx[t].events)
           IN  \/ known = {} /\ Entry(r)' = Entry(r)
               \/ \E e : known = {e} /\ Entry(r)' = Feed!Effect(e)
<1> DEFINE n == tx[t]
           P == ProjectsWithAccess(n.user)
<1>1. n.pc = "commit" /\ Running(n) /\ n.op \in AllOps /\ n.user \in Users
  BY AtRow DEF Commit, At
<1>2. VisitsOK(t) /\ HolderOK(t) /\ n.op \in AccountOps
  BY DEF FamilyInv, OperationOK, AccountOps
<1>3. /\ Told(n) = P /\ (\A e \in n.events : EventOK(e, n))
      /\ \A e, d \in n.events : e.project = d.project => e = d
      /\ n.op = "DisableAccount" => Wiped(t) = P /\ n.roles = NoAccess
  BY <1>1, <1>2 DEF VisitsOK
<1>4. n.kind = IF n.op = "DisableAccount" THEN "access.revoked" ELSE "profile.updated"
  <2>1. n.kind = KindOf(n.op)
    BY <1>1 DEF Running, Rewriters
  <2> QED BY <1>1, <2>1, FlowOfStarts DEF Rewriters
<1>5. r[1] \in Users /\ r[2] \in Projects /\ r = <<r[1], r[2]>>
  BY DEF Rows
<1>6. n.op \notin Writers
  BY DEF Rewriters, Writers, Granters, Revokers
<1>7. CASE r[1] # n.user
  <2>1. access'[r] = access[r] /\ account'[r[1]] = account[r[1]]
    BY <1>5, <1>6, <1>7, CommittedAccess, CommittedAccount
  <2>2. \A e \in n.events : e.user = n.user
    BY <1>3 DEF EventOK
  <2>3. \A e \in n.events : Feed!RowOf(e) # r
    BY <1>5, <1>7, <2>2 DEF Feed!RowOf
  <2>4. Feed!About(r, tx[t].events) = {}
    BY <2>3 DEF Feed!About
  <2> QED BY <2>1, <2>4 DEF Entry
<1>8. CASE r[1] = n.user /\ r[2] \notin P
  <2>1. access[r] = NoAccess
    BY <1>5, <1>8 DEF ProjectsWithAccess
  <2>2. access'[r] = NoAccess
    BY <1>3, <1>6, <2>1, CommittedAccess
  <2>3. \A e \in n.events : e.project \in P
    BY <1>3 DEF Told
  <2>4. Feed!About(r, tx[t].events) = {}
    BY <1>5, <1>8, <2>3 DEF Feed!About, Feed!RowOf
  <2> QED BY <2>1, <2>2, <2>4 DEF Entry
<1>9. CASE r[1] = n.user /\ r[2] \in P
  <2>1. PICK e \in n.events : e.project = r[2]
    BY <1>3, <1>9 DEF Told
  <2>2. EventOK(e, n) /\ Feed!RowOf(e) = r
    BY <1>3, <1>5, <1>9, <2>1 DEF EventOK, Feed!RowOf
  <2>3. \A d \in n.events : Feed!RowOf(d) = r => d = e
    BY <1>3, <1>5, <2>1 DEF Feed!RowOf
  <2>4. e.kind = n.kind
    BY <2>2 DEF EventOK
  <2>5. Feed!About(r, tx[t].events) = {e}
    <3>1. e.kind \in Feed!ViewKinds
      BY <1>4, <2>4 DEF Feed!ViewKinds
    <3> QED BY <2>1, <2>2, <2>3, <3>1 DEF Feed!About
  <2>6. access[r] # NoAccess
    BY <1>5, <1>9 DEF ProjectsWithAccess
  <2>7. CASE n.op = "DisableAccount"
    <3>1. accessLock[r] = t
      BY <1>3, <1>5, <1>9, <2>7 DEF Wiped
    <3>2. access'[r] = NoAccess
      BY <1>3, <2>7, <3>1, CommittedAccess
    <3>3. Feed!Effect(e) = None
      BY <1>4, <2>4, <2>7 DEF Feed!Effect
    <3> QED BY <2>5, <3>2, <3>3 DEF Entry
  <2>8. CASE n.op # "DisableAccount"
    <3>1. access'[r] = access[r]
      BY <1>6, <2>8, CommittedAccess
    <3>2. account'[r[1]].profile = n.row.profile
      <4>1. accountLock[n.user] = t /\ n.row = Updated(n.op, account[n.user], n.profile)
        BY <1>1, <1>2 DEF HolderOK
      <4> QED BY <1>5, <1>9, <4>1, CommittedAccount
    <3>3. e.roles = access[r] /\ e.profile = n.row.profile
      BY <1>4, <1>5, <1>9, <2>1, <2>2, <2>8 DEF EventOK
    <3>4. Feed!Effect(e) = [roles |-> access[r], profile |-> n.row.profile]
      BY <1>4, <2>4, <2>8, <3>3 DEF Feed!Effect
    <3> QED BY <2>5, <2>6, <3>1, <3>2, <3>4 DEF Entry
  <2> QED BY <2>7, <2>8
<1> QED BY <1>7, <1>8, <1>9

LEMMA SilentPublishes ==
    ASSUME LockInv, FamilyInv, NEW t \in Txs, Commit(t), tx[t].op \notin Writers \cup Rewriters,
           NEW r \in Rows
    PROVE  Feed!About(r, tx[t].events) = {} /\ Entry(r)' = Entry(r)
<1>1. Feed!About(r, tx[t].events) = {}
  BY DEF FamilyInv, OperationOK, SilentOK, Feed!About
<1>2. r[1] \in Users /\ account[r[1]] \in Accounts
  BY DEF Rows, LockInv, TypeInv, DataTypeOK
<1>3. access'[r] = access[r]
  BY CommittedAccess DEF Rewriters
<1>4. account'[r[1]].profile = account[r[1]].profile
  BY <1>2, CommittedAccount, UpdatedIs
<1> QED BY <1>1, <1>3, <1>4 DEF Entry

LEMMA CommitShows ==
    ASSUME OneFamily, LockInv, FamilyInv, NEW t \in Txs, Commit(t), NEW r \in Rows
    PROVE  LET known == Feed!About(r, tx[t].events)
           IN  \/ known = {} /\ Snapshot'[r] = Snapshot[r]
               \/ \E e : known = {e} /\ Snapshot'[r] = Feed!Effect(e)
<1>1. Snapshot[r] = Entry(r)
  BY SnapshotIs DEF FamilyInv
<1>2. Snapshot'[r] = Entry(r)'
  BY CommitActive, SnapshotWillBe
<1> QED BY <1>1, <1>2, WriterPublishes, RewriterPublishes, SilentPublishes

(* Only a commit changes what clients see. *)
LEMMA OnlyCommitsShow ==
    ASSUME OneFamily, LockInv, FamilyInv, NEW t \in Txs,
           Begin(t) \/ Step(t) \/ Fail(t) \/ DeadlockAbort(t), ~Commit(t)
    PROVE  UNCHANGED <<account, access, feed>>
<1>1. ~BootstrapAdmin(t) /\ ~BootstrapAccess(t)
  BY NoBootstrap
<1>2. CASE InsertRequest(t)
  BY <1>2 DEF InsertRequest
<1>3. CASE QueueEvent(t) \/ Begin(t) \/ Fail(t) \/ DeadlockAbort(t)
  BY <1>3 DEF QueueEvent, Begin, Fail, DeadlockAbort, tables
<1>4. CASE Step(t) /\ ~InsertRequest(t) /\ ~QueueEvent(t)
  BY <1>1, <1>4
     DEF Step, CheckActive, ProbeAccess, UpsertAccess, MergeAdmin, UpdateRoles, DeleteAccess,
         ClaimRequest, CloseRequest, AccountPayload, UpdateAccount, ProfileProjects, ReadRoles,
         ScanAccess, WipeAccess, ReadAccess, tables
<1> QED BY <1>2, <1>3, <1>4

LEMMA ShownStays ==
    ASSUME UNCHANGED <<account, access, feed>>
    PROVE  UNCHANGED <<Snapshot, feed>>
  BY DEF Snapshot

(* The step of the abstract feed that a commit is. *)
LEMMA CommitPublishes ==
    ASSUME OneFamily, LockInv, FamilyInv, CursorInv, NEW t \in Txs, Commit(t)
    PROVE  Feed!Publish \/ UNCHANGED <<Snapshot, feed>>
<1> DEFINE new == feed' \ feed
<1>1. feed' = feed \cup tx[t].events /\ tx[t] \in TxState
  BY DEF Commit, LockInv, TypeInv, TxTypeOK
<1>2. \A e \in tx[t].events : e.id \in Nat
  BY <1>1 DEF TxState, Events
<1>3. \A e \in tx[t].events, d \in feed : d.id < e.id
  BY DEF CursorInv
<1>4. tx[t].events \cap feed = {}
  BY <1>2, <1>3
<1>5. new = tx[t].events
  BY <1>1, <1>4
<1>6. /\ Snapshot = [r \in Rows |-> Snapshot[r]]
      /\ Snapshot' = [r \in Rows |-> Snapshot'[r]]
  BY DEF Snapshot
<1>7. CASE new = {}
  <2>1. feed' = feed
    BY <1>1, <1>5, <1>7
  <2>2. ASSUME NEW r \in Rows PROVE Snapshot'[r] = Snapshot[r]
    <3>1. Feed!About(r, tx[t].events) = {}
      BY <1>5, <1>7 DEF Feed!About
    <3> QED BY <3>1, CommitShows
  <2>3. Snapshot' = Snapshot
    BY <1>6, <2>2
  <2> QED BY <2>1, <2>3
<1>8. CASE new # {}
  <2>1. ASSUME NEW r \in Rows
        PROVE  Snapshot'[r] = IF Feed!About(r, new) = {} THEN Snapshot[r]
                              ELSE Feed!Effect(CHOOSE e \in Feed!About(r, new) :
                                     Feed!IsLatest(e, Feed!About(r, new)))
    <3>1. CASE Feed!About(r, new) = {} /\ Snapshot'[r] = Snapshot[r]
      BY <3>1
    <3>2. CASE \E e : Feed!About(r, new) = {e} /\ Snapshot'[r] = Feed!Effect(e)
      <4>1. PICK e : Feed!About(r, new) = {e} /\ Snapshot'[r] = Feed!Effect(e)
        BY <3>2
      <4>2. e \in tx[t].events
        BY <1>5, <4>1 DEF Feed!About
      <4>3. Feed!IsLatest(e, {e})
        BY <1>2, <4>2 DEF Feed!IsLatest
      <4>4. (CHOOSE d \in {e} : Feed!IsLatest(d, {e})) = e
        BY <4>3
      <4> QED BY <4>1, <4>4
    <3> QED BY <1>5, <3>1, <3>2, CommitShows
  <2>2. Snapshot' = [r \in Rows |->
                       IF Feed!About(r, new) = {} THEN Snapshot[r]
                       ELSE Feed!Effect(CHOOSE e \in Feed!About(r, new) :
                              Feed!IsLatest(e, Feed!About(r, new)))]
    BY <1>6, <2>1
  <2>3. \A e \in new, d \in new : e.id = d.id => e = d
    BY <1>5 DEF CursorInv
  <2>4. feed \subseteq feed' /\ (\A e \in new, d \in feed : d.id < e.id)
    BY <1>1, <1>3, <1>5
  <2> QED BY <1>8, <2>2, <2>3, <2>4 DEF Feed!Publish, Feed!Rows, Rows
<1> QED BY <1>7, <1>8

(* A commit that changes roles publishes an event of the row it changes. *)
LEMMA CommitTells ==
    ASSUME LockInv, FamilyInv, CursorInv, NEW t \in Txs, Commit(t),
           NEW r \in Rows, access'[r] # access[r]
    PROVE  \E e \in feed' \ feed : <<e.user, e.project>> = r
<1> DEFINE n == tx[t]
<1>1. n.pc = "commit" /\ OperationOK(t) /\ n \in TxState /\ feed' = feed \cup n.events
  BY DEF Commit, At, FamilyInv, LockInv, TypeInv, TxTypeOK
<1>2. \A e \in n.events : e \in feed' \ feed
  <2>1. \A e \in n.events : e.id \in Nat /\ (\A d \in feed : d.id < e.id)
    BY <1>1 DEF TxState, Events, CursorInv
  <2> QED BY <1>1, <2>1
<1>3. r[1] \in Users /\ r[2] \in Projects /\ r = <<r[1], r[2]>>
  BY DEF Rows
<1>4. CASE n.op \in Writers /\ r = RowOfTx(t)
  <2>1. PICK e \in n.events : e.user = n.user /\ e.project = n.project
    BY <1>1, <1>4 DEF OperationOK, WriterOK
  <2> QED BY <1>2, <1>4, <2>1 DEF RowOfTx
<1>5. CASE n.op = "DisableAccount" /\ r[1] = n.user /\ access'[r] = n.roles
  <2>1. /\ Told(n) = ProjectsWithAccess(n.user) /\ n.roles = NoAccess
        /\ \A e \in n.events : EventOK(e, n)
    BY <1>1, <1>5 DEF OperationOK, VisitsOK, Rewriters
  <2>2. r[2] \in ProjectsWithAccess(n.user)
    BY <1>3, <1>5, <2>1 DEF ProjectsWithAccess
  <2>3. PICK e \in n.events : e.project = r[2]
    BY <2>1, <2>2 DEF Told
  <2>4. e.user = n.user
    BY <2>1 DEF EventOK
  <2> QED BY <1>2, <1>3, <1>5, <2>3, <2>4
<1> QED BY <1>4, <1>5, CommittedAccess

(* The latest event about a row is the one just published. *)
LEMMA CommitMatches ==
    ASSUME OneFamily, LockInv, FamilyInv, CursorInv, FeedMatchesTable, NEW t \in Txs, Commit(t)
    PROVE  FeedMatchesTable'
<1> SUFFICES ASSUME NEW r \in Rows PROVE Feed!Replica(r)' = Snapshot'[r]
  BY DEF FeedMatchesTable
<1> DEFINE old == Feed!About(r, feed)
           new == Feed!About(r, tx[t].events)
           all == Feed!About(r, feed')
<1>1. feed' = feed \cup tx[t].events /\ tx[t] \in TxState /\ feed \in SUBSET Events
  BY DEF Commit, LockInv, TypeInv, TxTypeOK, DataTypeOK
<1>2. all = old \cup new
  BY <1>1 DEF Feed!About
<1>3. /\ Feed!Replica(r) = IF old = {} THEN InitialSnapshot[r]
                           ELSE Feed!Effect(CHOOSE e \in old : Feed!IsLatest(e, old))
      /\ Feed!Replica(r)' = IF all = {} THEN InitialSnapshot[r]
                            ELSE Feed!Effect(CHOOSE e \in all : Feed!IsLatest(e, all))
  BY DEF Feed!Replica
<1>4. CASE new = {} /\ Snapshot'[r] = Snapshot[r]
  <2>1. all = old
    BY <1>2, <1>4
  <2> QED BY <1>3, <1>4, <2>1 DEF FeedMatchesTable
<1>5. CASE \E e : new = {e} /\ Snapshot'[r] = Feed!Effect(e)
  <2>1. PICK e : new = {e} /\ Snapshot'[r] = Feed!Effect(e)
    BY <1>5
  <2>2. e \in tx[t].events /\ old \subseteq feed
    BY <2>1 DEF Feed!About
  <2>3. e.id \in Nat /\ (\A d \in old : d.id \in Nat /\ d.id < e.id)
    BY <1>1, <2>2 DEF TxState, Events, CursorInv
  <2>4. Feed!IsLatest(e, all)
    BY <1>2, <2>1, <2>3 DEF Feed!IsLatest
  <2>5. \A d \in all : Feed!IsLatest(d, all) => d = e
    BY <1>2, <2>1, <2>3 DEF Feed!IsLatest
  <2>6. (CHOOSE d \in all : Feed!IsLatest(d, all)) = e
    <3> HIDE DEF all
    <3>1. e \in all
      BY <2>4 DEF Feed!IsLatest
    <3> QED BY <2>4, <2>5, <3>1
  <2>7. all # {}
    BY <1>2, <2>1
  <2> QED BY <1>3, <2>1, <2>6, <2>7
<1> QED BY <1>4, <1>5, CommitShows

LEMMA NextShows ==
    ASSUME OneFamily, LockInv, FamilyInv, CursorInv, [Next]_vars
    PROVE  /\ Feed!Publish \/ UNCHANGED <<Snapshot, feed>>
           /\ FeedMatchesTable => FeedMatchesTable'
<1>1. CASE UNCHANGED <<account, access, feed>>
  <2>1. UNCHANGED <<Snapshot, feed>>
    BY <1>1, ShownStays
  <2>2. \A r \in Rows : Feed!Replica(r)' = Feed!Replica(r)
    BY <1>1 DEF Feed!Replica
  <2> QED BY <2>1, <2>2 DEF FeedMatchesTable
<1>2. CASE \E t \in Txs : Commit(t)
  BY <1>2, CommitPublishes, CommitMatches
<1>3. CASE UNCHANGED vars
  BY <1>1, <1>3 DEF vars, tables
<1> QED BY <1>1, <1>2, <1>3, OnlyCommitsShow DEF Next

LEMMA InitShows ==
    ASSUME Init PROVE Feed!Init /\ FeedMatchesTable
<1>1. ASSUME NEW r \in Rows PROVE Snapshot[r] = InitialSnapshot[r]
  <2>1. r[1] \in Users
    BY DEF Rows
  <2>2. account[r[1]].profile = FirstProfile /\ access = InitialAccess
    BY <2>1 DEF Init
  <2>3. Snapshot[r] = Entry(r)
    BY InitFamily, SnapshotIs DEF FamilyInv
  <2> QED BY <2>2, <2>3 DEF Entry, InitialSnapshot
<1>2. Snapshot = InitialSnapshot
  <2>1. /\ Snapshot = [r \in Rows |-> Snapshot[r]]
        /\ InitialSnapshot = [r \in Rows |-> InitialSnapshot[r]]
    BY DEF Snapshot, InitialSnapshot
  <2> QED BY <1>1, <2>1
<1>3. feed = {}
  BY DEF Init
<1>4. FeedMatchesTable
  <2>1. \A r \in Rows : Feed!Replica(r) = InitialSnapshot[r]
    BY <1>3 DEF Feed!Replica, Feed!About
  <2> QED BY <1>1, <2>1 DEF FeedMatchesTable
<1> QED BY <1>2, <1>3, <1>4 DEF Feed!Init

(* The invariant of the operations of one family, for any number of users,  *)
(* projects and transactions: who has access is active, and the events each *)
(* operation has queued describe the rows its commit will make visible.     *)
THEOREM FamiliesAgree == OneFamily /\ Spec => []FamilyInv
<1> SUFFICES ASSUME OneFamily PROVE Spec => []FamilyInv
  OBVIOUS
<1>1. LockInv /\ FamilyInv /\ [Next]_vars => FamilyInv'
  BY NextFamily
<1> QED BY <1>1, InitFamily, LocksHeld, PTL DEF Spec

(* A client that has applied the journal up to its end shows what a fresh   *)
(* snapshot shows, for every interleaving of the operations of one family:  *)
(* those that grant and revoke, or those that rewrite and disable accounts. *)
THEOREM ReplicasFollow == OneFamily /\ Spec => []FeedMatchesTable
<1> SUFFICES ASSUME OneFamily PROVE Spec => []FeedMatchesTable
  OBVIOUS
<1>1. LockInv /\ CursorInv /\ [Next]_vars => CursorInv'
  BY NextCursor
<1>2. LockInv /\ FamilyInv /\ CursorInv /\ FeedMatchesTable /\ [Next]_vars => FeedMatchesTable'
  BY NextShows
<1>3. Init => FeedMatchesTable
  BY InitShows
<1> QED BY <1>1, <1>2, <1>3, InitCursor, LocksHeld, FamiliesAgree, PTL DEF Spec

(* Within a family the tables and the journal implement the abstract feed:  *)
(* every commit is one step of Publish, or changes nothing a client sees.   *)
THEOREM FeedIsImplemented == OneFamily /\ Spec => ImplementsSyncFeed
<1> SUFFICES ASSUME OneFamily PROVE Spec => ImplementsSyncFeed
  OBVIOUS
<1>1. LockInv /\ CursorInv /\ [Next]_vars => CursorInv'
  BY NextCursor
<1>2. LockInv /\ FamilyInv /\ CursorInv /\ [Next]_vars => [Feed!Next]_<<Snapshot, feed>>
  BY NextShows DEF Feed!Next
<1>3. Init => Feed!Init
  BY InitShows
<1> QED
  BY <1>1, <1>2, <1>3, InitCursor, LocksHeld, FamiliesAgree, PTL
     DEF Spec, ImplementsSyncFeed, Feed!Spec

(* Rule 4 of docs/code-architecture.ru.md, within a family: whatever changes *)
(* the roles of a row writes an event of that row in the same transaction.  *)
THEOREM RolesChangeWithTheirEvent == OneFamily /\ Spec => RolesChangeWithEvent
<1> SUFFICES ASSUME OneFamily PROVE Spec => RolesChangeWithEvent
  OBVIOUS
<1>1. LockInv /\ CursorInv /\ [Next]_vars => CursorInv'
  BY NextCursor
<1>2. LockInv /\ FamilyInv /\ CursorInv /\ [Next]_vars
        => [\A r \in Rows : access'[r] # access[r] =>
              \E e \in feed' \ feed : <<e.user, e.project>> = r]_vars
  <2> SUFFICES ASSUME LockInv, FamilyInv, CursorInv, NEW t \in Txs,
                      Begin(t) \/ Step(t) \/ Fail(t) \/ DeadlockAbort(t),
                      NEW r \in Rows, access'[r] # access[r]
               PROVE  \E e \in feed' \ feed : <<e.user, e.project>> = r
    BY DEF Next
  <2> QED BY OnlyCommitsShow, CommitTells
<1> QED
  BY <1>1, <1>2, InitCursor, LocksHeld, FamiliesAgree, PTL DEF Spec, RolesChangeWithEvent

(* Whoever is disabled is gone from every replica that has read the whole   *)
(* journal, and so from every client project (DisableAccount).              *)
THEOREM DisabledAreReported == OneFamily /\ Spec => []DisabledIsReported
<1> SUFFICES ASSUME OneFamily PROVE Spec => []DisabledIsReported
  OBVIOUS
<1>1. FeedMatchesTable => DisabledIsReported
  BY DEF FeedMatchesTable, DisabledIsReported, Snapshot
<1> QED BY <1>1, ReplicasFollow, PTL
=============================================================================
