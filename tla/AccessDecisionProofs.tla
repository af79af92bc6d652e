------------------------ MODULE AccessDecisionProofs ------------------------
(***************************************************************************)
(* Theorems about the decisions AccessSync takes: requests are decided     *)
(* once, and global administrators stay active.                            *)
(***************************************************************************)
EXTENDS AccessSyncProofs

(***************************************************************************)
(* Access requests.                                                        *)
(***************************************************************************)

(* A step that decides nothing may only give a lock back. *)
DecidesNothing ==
    /\ UNCHANGED request
    /\ \A r \in Rows : requestLock'[r] \in {None, requestLock[r]}

LEMMA RollbackDecidesNothing ==
    ASSUME LockInv, NEW t \in Txs, Rollback(t), UNCHANGED <<tables, nextId>>
    PROVE  DecidesNothing
  BY DEF LockInv, TypeInv, LocksTypeOK, Rollback, ReleaseLocks, Freed, tables,
         DecidesNothing

LEMMA FewStepsDecide ==
    ASSUME LockInv, NEW t \in Txs, Begin(t) \/ Step(t) \/ Fail(t) \/ DeadlockAbort(t)
    PROVE  \/ ClaimRequest(t) \/ CloseRequest(t) \/ Commit(t) \/ InsertRequest(t)
           \/ DecidesNothing
<1> USE DEF tables, locks
<1>1. CASE Fail(t) \/ DeadlockAbort(t)
  BY <1>1, RollbackDecidesNothing DEF Fail, DeadlockAbort
<1>2. CASE CheckActive(t) \/ AccountPayload(t) \/ UpdateAccount(t) \/ ReadRoles(t)
           \/ UpdateRoles(t) \/ DeleteAccess(t)
  BY <1>2, RollbackDecidesNothing
     DEF CheckActive, Require, AccountPayload, UpdateAccount, ReadRoles,
         UpdateRoles, DeleteAccess, LockExisting, DecidesNothing
<1>3. CASE Begin(t) \/ ProbeAccess(t) \/ UpsertAccess(t) \/ MergeAdmin(t)
           \/ ProfileProjects(t) \/ QueueEvent(t) \/ ScanAccess(t) \/ WipeAccess(t)
           \/ ReadAccess(t) \/ BootstrapAdmin(t) \/ BootstrapAccess(t)
  BY <1>3
     DEF Begin, ProbeAccess, UpsertAccess, MergeAdmin, ProfileProjects,
         QueueEvent, ScanAccess, WipeAccess, ReadAccess, BootstrapAdmin,
         BootstrapAccess, DecidesNothing
<1> QED BY <1>1, <1>2, <1>3 DEF Step

LEMMA NextDecidedOnce ==
    ASSUME LockInv, DecidedOnce, [Next]_vars PROVE DecidedOnce'
<1>1. CASE UNCHANGED vars
  BY <1>1 DEF vars, tables, locks, DecidedOnce
<1>2. ASSUME NEW t \in Txs, Begin(t) \/ Step(t) \/ Fail(t) \/ DeadlockAbort(t)
      PROVE  DecidedOnce'
  <2>1. CASE DecidesNothing
    BY <2>1 DEF DecidesNothing, DecidedOnce
  <2>2. CASE ClaimRequest(t)
    <3>1. CASE Rollback(t)
      BY <2>2, <3>1, RollbackDecidesNothing
         DEF ClaimRequest, DecidesNothing, DecidedOnce
    <3>2. CASE ~Rollback(t)
      BY <2>2, <3>2
         DEF ClaimRequest, DecidedOnce, tables, LockInv, TypeInv, LocksTypeOK
    <3> QED BY <3>1, <3>2
  <2>3. CASE CloseRequest(t)
    BY <2>3 DEF CloseRequest, DecidedOnce, tables, LockInv, TypeInv, LocksTypeOK
  <2>4. CASE Commit(t)
    <3>1. \A r \in Rows : requestLock'[r] = IF requestLock[r] = t THEN None
                                            ELSE requestLock[r]
      BY <2>4 DEF Commit, ReleaseLocks, Freed, LockInv, TypeInv, LocksTypeOK
    <3>2. \A r \in Rows : requestLock[r] # t => request'[r] = request[r]
      BY <2>4 DEF Commit
    <3> QED BY <3>1, <3>2 DEF DecidedOnce
  <2>5. CASE InsertRequest(t)
    BY <2>5 DEF InsertRequest, locks, DecidedOnce, LockInv, TypeInv, DataTypeOK
  <2> QED BY <1>2, <2>1, <2>2, <2>3, <2>4, <2>5, FewStepsDecide
<1> QED BY <1>1, <1>2 DEF Next

(* However approvals, direct grants and new requests interleave, the        *)
(* transaction that decides a request finds it pending until it commits.    *)
THEOREM RequestsDecidedOnce == Spec => []DecidedOnce
<1>1. Init => DecidedOnce
  BY DEF Init, DecidedOnce
<1>2. LockInv /\ DecidedOnce /\ [Next]_vars => DecidedOnce'
  BY NextDecidedOnce
<1> QED BY <1>1, <1>2, LocksHeld, PTL DEF Spec

-----------------------------------------------------------------------------
(***************************************************************************)
(* Administrators.  The version of an account row that a transaction has   *)
(* prepared satisfies the invariant too: it was computed from a committed  *)
(* row that nobody could change meanwhile.                                 *)
(***************************************************************************)
ActiveIfAdmin(a) == a.admin => a.status = "active"

AdminInv ==
    /\ \A u \in Users : ActiveIfAdmin(account[u])
    /\ \A u \in Users, t \in Txs : accountLock[u] = t => ActiveIfAdmin(tx[t].row)

(* A step that promotes, disables and prepares nothing. *)
AccountsKept ==
    /\ UNCHANGED account
    /\ \A u \in Users, s \in Txs : accountLock'[u] = s =>
         accountLock[u] = s /\ tx'[s].row = tx[s].row

LEMMA RollbackKeepsAccounts ==
    ASSUME LockInv, NEW t \in Txs, Rollback(t), UNCHANGED <<tables, nextId>>
    PROVE  AccountsKept
<1>1. \A u \in Users : accountLock'[u] = IF accountLock[u] = t THEN None
                                         ELSE accountLock[u]
  BY DEF Rollback, ReleaseLocks, Freed, LockInv, TypeInv, LocksTypeOK
<1> QED
  BY <1>1, ValuesAssumption
     DEF Rollback, tables, AccountsKept, LockInv, TypeInv, TxTypeOK

LEMMA AdvanceKeepsAccounts ==
    ASSUME LockInv, NEW t \in Txs, Advance(t), UNCHANGED <<account, accountLock>>
    PROVE  AccountsKept
  BY DEF Advance, AccountsKept, LockInv, TypeInv, TxTypeOK, TxState

LEMMA VisitKeepsAccounts ==
    ASSUME LockInv, NEW t \in Txs, NEW n, NEW S, NEW each, NEW done,
           n \in TxState, n.row = tx[t].row,
           \E m \in Visits(n, S, each, done) : tx' = [tx EXCEPT ![t] = m],
           UNCHANGED <<account, accountLock>>
    PROVE  AccountsKept
<1>1. PICK m \in Visits(n, S, each, done) : tx' = [tx EXCEPT ![t] = m]
  OBVIOUS
<1>2. m.row = tx[t].row
  <2>1. CASE S = {}
    BY <2>1 DEF Visits, TxState
  <2>2. CASE S # {}
    <3>1. PICK p \in S : m = [n EXCEPT !.pc = each, !.project = p,
                                       !.todo = S \ {p}]
      BY <2>2 DEF Visits
    <3> QED BY <3>1 DEF TxState
  <2> QED BY <2>1, <2>2
<1> QED BY <1>1, <1>2 DEF AccountsKept, LockInv, TypeInv, TxTypeOK

(* The end of an operation outside a transaction, which holds no lock. *)
LEMMA AutocommitKeepsAccounts ==
    ASSUME LockInv, NEW t \in Txs, tx[t].op \in AutoOps,
           tx' = [tx EXCEPT ![t] = Idle], UNCHANGED <<account, accountLock>>
    PROVE  AccountsKept
  BY DEF AccountsKept, LockInv, TypeInv, TxTypeOK, HeldByTransactions, InTransaction

LEMMA FewStepsChangeAccounts ==
    ASSUME LockInv, NEW t \in Txs, Begin(t) \/ Step(t) \/ Fail(t) \/ DeadlockAbort(t)
    PROVE  UpdateAccount(t) \/ Commit(t) \/ BootstrapAdmin(t) \/ AccountsKept
<1> USE DEF tables, locks
<1>1. CASE Begin(t)
  <2>1. \A u \in Users : accountLock[u] # t
    BY <1>1 DEF Begin, LockInv, HeldByTransactions, InTransaction
  <2>2. \A s \in Txs \ {t} : tx'[s] = tx[s]
    BY <1>1 DEF Begin, LockInv, TypeInv, TxTypeOK
  <2> QED BY <1>1, <2>1, <2>2 DEF Begin, AccountsKept
<1>2. CASE CheckActive(t) \/ ClaimRequest(t) \/ UpdateRoles(t) \/ DeleteAccess(t)
  BY <1>2, RollbackKeepsAccounts, AdvanceKeepsAccounts
     DEF CheckActive, Require, ClaimRequest, UpdateRoles, DeleteAccess, LockExisting
<1>3. CASE UpsertAccess(t) \/ CloseRequest(t)
  BY <1>3, AdvanceKeepsAccounts DEF UpsertAccess, CloseRequest
<1>4. CASE ProbeAccess(t)
  <2>1. CASE Advance(t)
    BY <1>4, <2>1, AdvanceKeepsAccounts DEF ProbeAccess
  <2>2. CASE ~Advance(t)
    BY <1>4, <2>2
       DEF ProbeAccess, AccountsKept, LockInv, TypeInv, TxTypeOK, TxState
  <2> QED BY <2>1, <2>2
<1>5. CASE MergeAdmin(t)
  BY <1>5 DEF MergeAdmin, AccountsKept, LockInv, TypeInv, TxTypeOK, TxState
<1>6. CASE AccountPayload(t)
  <2>1. CASE Rollback(t)
    BY <1>6, <2>1, RollbackKeepsAccounts DEF AccountPayload
  <2>2. CASE ~Rollback(t)
    BY <1>6, <2>2
       DEF AccountPayload, AccountsKept, LockInv, TypeInv, TxTypeOK, TxState
  <2> QED BY <2>1, <2>2
<1>7. CASE ReadRoles(t)
  <2>1. CASE Rollback(t)
    BY <1>7, <2>1, RollbackKeepsAccounts DEF ReadRoles
  <2>2. CASE ~Rollback(t)
    BY <1>7, <2>2
       DEF ReadRoles, AccountsKept, LockInv, TypeInv, TxTypeOK, TxState
  <2> QED BY <2>1, <2>2
<1>8. CASE ProfileProjects(t) \/ ScanAccess(t) \/ WipeAccess(t)
  <2>1. tx[t] \in TxState
    BY DEF LockInv, TypeInv, TxTypeOK
  <2> QED
    BY <1>8, <2>1, VisitKeepsAccounts DEF ProfileProjects, ScanAccess, WipeAccess
<1>9. CASE QueueEvent(t)
  <2> DEFINE n == [tx[t] EXCEPT !.events = @ \cup {Event(t)}]
  <2>1. Running(tx[t]) /\ tx[t].project \in Projects
    BY <1>9, AtStatement DEF QueueEvent, LockInv, Running, AtProject
  <2>2. n \in TxState /\ n.row = tx[t].row
    BY <2>1, EventType DEF LockInv, TypeInv, Running, TxState
  <2> DEFINE each == IF n.kind = "profile.updated" THEN "roles" ELSE "insert"
  <2>3. \E m \in Visits(n, n.todo, each, After(t)) : tx' = [tx EXCEPT ![t] = m]
    BY <1>9 DEF QueueEvent, Queued
  <2>4. UNCHANGED <<account, accountLock>>
    BY <1>9 DEF QueueEvent
  <2> DEFINE S == n.todo
             done == After(t)
  <2>5. \E m \in Visits(n, S, each, done) : tx' = [tx EXCEPT ![t] = m]
    BY <2>3
  <2> HIDE DEF n, each, S, done
  <2>6. AccountsKept
    BY <2>2, <2>4, <2>5, VisitKeepsAccounts
  <2> QED BY <2>6
<1>10. CASE ReadAccess(t)
  <2>1. tx[t].op \in AutoOps
    BY <1>10, AtStatement DEF ReadAccess, LockInv, AutoStatements
  <2> QED
    BY <1>10, <2>1, AdvanceKeepsAccounts, AutocommitKeepsAccounts DEF ReadAccess
<1>11. CASE InsertRequest(t) \/ BootstrapAccess(t)
  <2>1. tx[t].op \in AutoOps
    BY <1>11, AtStatement DEF InsertRequest, BootstrapAccess, LockInv, AutoStatements
  <2> QED BY <1>11, <2>1, AutocommitKeepsAccounts DEF InsertRequest, BootstrapAccess
<1>12. CASE Fail(t) \/ DeadlockAbort(t)
  BY <1>12, RollbackKeepsAccounts DEF Fail, DeadlockAbort
<1> QED
  BY <1>1, <1>2, <1>3, <1>4, <1>5, <1>6, <1>7, <1>8, <1>9, <1>10, <1>11, <1>12
     DEF Step

(* No SET clause whose WHERE clause matches makes an administrator inactive. *)
LEMMA UpdateKeepsAdmins ==
    ASSUME NEW op, NEW a \in Accounts, NEW f, Matches(op, a), ActiveIfAdmin(a)
    PROVE  ActiveIfAdmin(Updated(op, a, f))
  BY DEF Matches, Updated, Accounts, ActiveIfAdmin

LEMMA NextAdminInv ==
    ASSUME LockInv, AdminInv, [Next]_vars PROVE AdminInv'
<1>1. CASE UNCHANGED vars
  BY <1>1 DEF vars, tables, locks, AdminInv, ActiveIfAdmin
<1>2. ASSUME NEW t \in Txs, Begin(t) \/ Step(t) \/ Fail(t) \/ DeadlockAbort(t)
      PROVE  AdminInv'
  <2>1. CASE AccountsKept
    BY <2>1 DEF AccountsKept, AdminInv, ActiveIfAdmin
  <2>2. CASE UpdateAccount(t)
    <3> DEFINE u == tx[t].user
               v == Updated(tx[t].op, account[u], tx[t].profile)
    <3>1. CASE Rollback(t)
      BY <2>2, <3>1, RollbackKeepsAccounts
         DEF UpdateAccount, AccountsKept, AdminInv, ActiveIfAdmin
    <3>2. CASE ~Rollback(t)
      <4>1. u \in Users
        BY <2>2, AtStatement DEF UpdateAccount, LockInv, Running
      <4>2. ActiveIfAdmin(v)
        BY <2>2, <3>2, <4>1, UpdateKeepsAdmins
           DEF UpdateAccount, AdminInv, LockInv, TypeInv, DataTypeOK
      <4>3. /\ accountLock' = [accountLock EXCEPT ![u] = t] /\ UNCHANGED account
            /\ tx' = [tx EXCEPT ![t].pc = After(t), ![t].row = v]
        BY <2>2, <3>2 DEF UpdateAccount, tables
      <4> HIDE DEF v, u
      <4>4. tx'[t].row = v /\ \A s \in Txs \ {t} : tx'[s] = tx[s]
        BY <4>3 DEF LockInv, TypeInv, TxTypeOK, TxState
      <4>5. \A w \in Users, s \in Txs \ {t} : accountLock'[w] = s => accountLock[w] = s
        BY <4>3 DEF LockInv, TypeInv, LocksTypeOK
      <4>6. \A w \in Users, s \in Txs : accountLock'[w] = s =>
               tx'[s].row = v \/ (accountLock[w] = s /\ tx'[s].row = tx[s].row)
        BY <4>4, <4>5
      <4>7. \A w \in Users : ActiveIfAdmin(account'[w])
        BY <4>3 DEF AdminInv
      <4>8. ASSUME NEW w \in Users, NEW s \in Txs, accountLock'[w] = s
            PROVE  ActiveIfAdmin(tx'[s].row)
        <5>1. CASE tx'[s].row = v
          BY <4>2, <5>1
        <5>2. CASE accountLock[w] = s /\ tx'[s].row = tx[s].row
          BY <5>2 DEF AdminInv
        <5> QED BY <4>6, <4>8, <5>1, <5>2
      <4> QED BY <4>7, <4>8 DEF AdminInv, ActiveIfAdmin
    <3> QED BY <3>1, <3>2
  <2>3. CASE Commit(t)
    <3>1. \A u \in Users : accountLock'[u] = IF accountLock[u] = t THEN None
                                             ELSE accountLock[u]
      BY <2>3 DEF Commit, ReleaseLocks, Freed, LockInv, TypeInv, LocksTypeOK
    <3>2. \A s \in Txs \ {t} : tx'[s] = tx[s]
      BY <2>3 DEF Commit, LockInv, TypeInv, TxTypeOK
    <3>3. \A u \in Users : account'[u] = IF accountLock[u] = t THEN tx[t].row
                                         ELSE account[u]
      BY <2>3 DEF Commit
    <3> QED
      BY <3>1, <3>2, <3>3, ValuesAssumption DEF AdminInv, ActiveIfAdmin
  <2>4. CASE BootstrapAdmin(t)
    <3>1. /\ \A u \in Users : account'[u] = account[u]
                              \/ account'[u].status = "active"
          /\ UNCHANGED accountLock
      BY <2>4 DEF BootstrapAdmin, locks, LockInv, TypeInv, DataTypeOK, Accounts
    <3>2. \A s \in Txs : tx'[s].row = tx[s].row
      BY <2>4 DEF BootstrapAdmin, Advance, LockInv, TypeInv, TxTypeOK, TxState
    <3> QED BY <3>1, <3>2 DEF AdminInv, ActiveIfAdmin
  <2> QED BY <1>2, <2>1, <2>2, <2>3, <2>4, FewStepsChangeAccounts
<1> QED BY <1>1, <1>2 DEF Next

(* No interleaving of disabling, promoting and bootstrapping leaves a       *)
(* global administrator that is not active.                                 *)
THEOREM AdministratorsStayActive == Spec => []AdminsStayActive
<1>1. Init => AdminInv
  BY ValuesAssumption DEF Init, AdminInv, ActiveIfAdmin
<1>2. LockInv /\ AdminInv /\ [Next]_vars => AdminInv'
  BY NextAdminInv
<1>3. AdminInv => AdminsStayActive
  BY DEF AdminInv, ActiveIfAdmin, AdminsStayActive
<1> QED BY <1>1, <1>2, <1>3, LocksHeld, PTL DEF Spec
=============================================================================
