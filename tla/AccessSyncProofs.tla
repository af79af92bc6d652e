-------------------------- MODULE AccessSyncProofs --------------------------
(***************************************************************************)
(* Theorems about AccessSync, for every set of users, projects, concurrent *)
(* transactions, roles and enabled operations.                             *)
(***************************************************************************)
EXTENDS AccessSync, TLAPS

(* The statements an operation goes through, those that end one, and those  *)
(* that work on the project at hand.                                        *)
StatementsOf(op) == {Program[op][l] : l \in DOMAIN Program[op]}

Endings == {"commit", "request", "adminAccess"}

AtProject == {"insert", "ownInsert", "roles", "ownRoles", "wipe"}

(* Every statement of an operation that does not end it has a successor,    *)
(* which is a statement of the same operation; an account-wide operation    *)
(* comes to work on a project by listing the projects.                      *)
LEMMA FlowIsClosed ==
    ASSUME NEW op \in AllOps, NEW l \in StatementsOf(op), l \notin Endings
    PROVE  /\ Program[op][l] \in StatementsOf(op)
           /\ op \in RowOps \/ l \in AtProject \cup {"projects", "scan"}
                \/ Program[op][l] \notin AtProject
<1> USE DEF StatementsOf, Endings, Program, AtProject, RowOps
<1>1. CASE op = "GrantAccess" BY <1>1 DEF GrantAccess
<1>2. CASE op = "RevokeAccess" BY <1>2 DEF RevokeAccess
<1>3. CASE op = "RevokeProjectAccess" BY <1>3 DEF RevokeProjectAccess
<1>4. CASE op = "SetProjectRoles" BY <1>4 DEF SetProjectRoles
<1>5. CASE op = "ApproveRequest" BY <1>5 DEF ApproveRequest
<1>6. CASE op = "GrantProjectAdmin" BY <1>6 DEF GrantProjectAdmin
<1>7. CASE op = "UpdateProfile" BY <1>7 DEF UpdateProfile
<1>8. CASE op = "UpdateLegacyProfile" BY <1>8 DEF UpdateLegacyProfile
<1>9. CASE op = "DisableAccount" BY <1>9 DEF DisableAccount
<1>10. CASE op = "ActivateAccount" BY <1>10 DEF ActivateAccount
<1>11. CASE op = "GrantGlobalAdmin" BY <1>11 DEF GrantGlobalAdmin
<1>12. CASE op = "ResetPassword" BY <1>12 DEF ResetPassword
<1>13. CASE op = "ChangePassword" BY <1>13 DEF ChangePassword
<1>14. CASE op = "RequestAccess" BY <1>14 DEF RequestAccess
<1>15. CASE op = "EnsureBootstrap" BY <1>15 DEF EnsureBootstrap
<1>16. QED
  BY <1>1, <1>2, <1>3, <1>4, <1>5, <1>6, <1>7, <1>8, <1>9, <1>10, <1>11,
     <1>12, <1>13, <1>14, <1>15 DEF AllOps

(* An operation starts with one of its statements, and passes through known *)
(* statements only.                                                         *)
LEMMA FlowStarts ==
    ASSUME NEW op \in AllOps
    PROVE  /\ Program[op].start \in StatementsOf(op)
           /\ op \in RowOps \/ Program[op].start \notin AtProject
           /\ StatementsOf(op) \subseteq Statements \ {"idle"}
<1> USE DEF StatementsOf, Program, AtProject, RowOps, Statements
<1>1. CASE op = "GrantAccess" BY <1>1 DEF GrantAccess
<1>2. CASE op = "RevokeAccess" BY <1>2 DEF RevokeAccess
<1>3. CASE op = "RevokeProjectAccess" BY <1>3 DEF RevokeProjectAccess
<1>4. CASE op = "SetProjectRoles" BY <1>4 DEF SetProjectRoles
<1>5. CASE op = "ApproveRequest" BY <1>5 DEF ApproveRequest
<1>6. CASE op = "GrantProjectAdmin" BY <1>6 DEF GrantProjectAdmin
<1>7. CASE op = "UpdateProfile" BY <1>7 DEF UpdateProfile
<1>8. CASE op = "UpdateLegacyProfile" BY <1>8 DEF UpdateLegacyProfile
<1>9. CASE op = "DisableAccount" BY <1>9 DEF DisableAccount
<1>10. CASE op = "ActivateAccount" BY <1>10 DEF ActivateAccount
<1>11. CASE op = "GrantGlobalAdmin" BY <1>11 DEF GrantGlobalAdmin
<1>12. CASE op = "ResetPassword" BY <1>12 DEF ResetPassword
<1>13. CASE op = "ChangePassword" BY <1>13 DEF ChangePassword
<1>14. CASE op = "RequestAccess" BY <1>14 DEF RequestAccess
<1>15. CASE op = "EnsureBootstrap" BY <1>15 DEF EnsureBootstrap
<1>16. QED
  BY <1>1, <1>2, <1>3, <1>4, <1>5, <1>6, <1>7, <1>8, <1>9, <1>10, <1>11,
     <1>12, <1>13, <1>14, <1>15 DEF AllOps

(* The statements that follow the queueing of events. *)
LEMMA FlowOfEvents ==
    ASSUME NEW op \in AllOps
    PROVE  /\ "projects" \in StatementsOf(op) =>
                 /\ Program[op].insert \in StatementsOf(op) \ AtProject
                 /\ Program[op].projects \in AtProject
           /\ "insert" \in StatementsOf(op) /\ KindOf(op) = "profile.updated"
                 => "roles" \in StatementsOf(op)
           /\ "ownInsert" \in StatementsOf(op) =>
                 {"roles", "insert"} \subseteq StatementsOf(op)
           /\ "scan" \in StatementsOf(op) =>
                 {"wipe", "commit"} \subseteq StatementsOf(op)
           /\ "probe" \in StatementsOf(op) => op = "GrantAccess"
<1> USE DEF StatementsOf, Program, AtProject, KindOf
<1>1. CASE op = "GrantAccess" BY <1>1 DEF GrantAccess
<1>2. CASE op = "RevokeAccess" BY <1>2 DEF RevokeAccess
<1>3. CASE op = "RevokeProjectAccess" BY <1>3 DEF RevokeProjectAccess
<1>4. CASE op = "SetProjectRoles" BY <1>4 DEF SetProjectRoles
<1>5. CASE op = "ApproveRequest" BY <1>5 DEF ApproveRequest
<1>6. CASE op = "GrantProjectAdmin" BY <1>6 DEF GrantProjectAdmin
<1>7. CASE op = "UpdateProfile" BY <1>7 DEF UpdateProfile
<1>8. CASE op = "UpdateLegacyProfile" BY <1>8 DEF UpdateLegacyProfile
<1>9. CASE op = "DisableAccount" BY <1>9 DEF DisableAccount
<1>10. CASE op = "ActivateAccount" BY <1>10 DEF ActivateAccount
<1>11. CASE op = "GrantGlobalAdmin" BY <1>11 DEF GrantGlobalAdmin
<1>12. CASE op = "ResetPassword" BY <1>12 DEF ResetPassword
<1>13. CASE op = "ChangePassword" BY <1>13 DEF ChangePassword
<1>14. CASE op = "RequestAccess" BY <1>14 DEF RequestAccess
<1>15. CASE op = "EnsureBootstrap" BY <1>15 DEF EnsureBootstrap
<1>16. QED
  BY <1>1, <1>2, <1>3, <1>4, <1>5, <1>6, <1>7, <1>8, <1>9, <1>10, <1>11,
     <1>12, <1>13, <1>14, <1>15 DEF AllOps

(* RequestAccess and EnsureBootstrap commit statement by statement: theirs  *)
(* are the only operations outside a transaction.                           *)
AutoOps == {"RequestAccess", "EnsureBootstrap"}

AutoStatements == {"read", "request", "admin", "adminAccess"}

LEMMA FlowOfAutocommit ==
    ASSUME NEW op \in AllOps
    PROVE  IF op \in AutoOps THEN StatementsOf(op) \subseteq AutoStatements
           ELSE StatementsOf(op) \cap AutoStatements = {}
<1> USE DEF StatementsOf, Program, AutoOps, AutoStatements
<1>1. CASE op = "GrantAccess" BY <1>1 DEF GrantAccess
<1>2. CASE op = "RevokeAccess" BY <1>2 DEF RevokeAccess
<1>3. CASE op = "RevokeProjectAccess" BY <1>3 DEF RevokeProjectAccess
<1>4. CASE op = "SetProjectRoles" BY <1>4 DEF SetProjectRoles
<1>5. CASE op = "ApproveRequest" BY <1>5 DEF ApproveRequest
<1>6. CASE op = "GrantProjectAdmin" BY <1>6 DEF GrantProjectAdmin
<1>7. CASE op = "UpdateProfile" BY <1>7 DEF UpdateProfile
<1>8. CASE op = "UpdateLegacyProfile" BY <1>8 DEF UpdateLegacyProfile
<1>9. CASE op = "DisableAccount" BY <1>9 DEF DisableAccount
<1>10. CASE op = "ActivateAccount" BY <1>10 DEF ActivateAccount
<1>11. CASE op = "GrantGlobalAdmin" BY <1>11 DEF GrantGlobalAdmin
<1>12. CASE op = "ResetPassword" BY <1>12 DEF ResetPassword
<1>13. CASE op = "ChangePassword" BY <1>13 DEF ChangePassword
<1>14. CASE op = "RequestAccess" BY <1>14 DEF RequestAccess
<1>15. CASE op = "EnsureBootstrap" BY <1>15 DEF EnsureBootstrap
<1>16. QED
  BY <1>1, <1>2, <1>3, <1>4, <1>5, <1>6, <1>7, <1>8, <1>9, <1>10, <1>11,
     <1>12, <1>13, <1>14, <1>15 DEF AllOps

(* The statements about the row of one user in one project. *)
RowStatements == {"probe", "upsert", "merge", "update", "delete", "claim",
                  "close", "read", "request", "adminAccess", "admin"}

LEMMA FlowOfRows ==
    ASSUME NEW op \in AllOps, RowStatements \cap StatementsOf(op) # {}
    PROVE  op \in RowOps
<1> USE DEF StatementsOf, Program, RowOps, RowStatements
<1>1. CASE op = "GrantAccess" BY <1>1 DEF GrantAccess
<1>2. CASE op = "RevokeAccess" BY <1>2 DEF RevokeAccess
<1>3. CASE op = "RevokeProjectAccess" BY <1>3 DEF RevokeProjectAccess
<1>4. CASE op = "SetProjectRoles" BY <1>4 DEF SetProjectRoles
<1>5. CASE op = "ApproveRequest" BY <1>5 DEF ApproveRequest
<1>6. CASE op = "GrantProjectAdmin" BY <1>6 DEF GrantProjectAdmin
<1>7. CASE op = "UpdateProfile" BY <1>7 DEF UpdateProfile
<1>8. CASE op = "UpdateLegacyProfile" BY <1>8 DEF UpdateLegacyProfile
<1>9. CASE op = "DisableAccount" BY <1>9 DEF DisableAccount
<1>10. CASE op = "ActivateAccount" BY <1>10 DEF ActivateAccount
<1>11. CASE op = "GrantGlobalAdmin" BY <1>11 DEF GrantGlobalAdmin
<1>12. CASE op = "ResetPassword" BY <1>12 DEF ResetPassword
<1>13. CASE op = "ChangePassword" BY <1>13 DEF ChangePassword
<1>14. CASE op = "RequestAccess" BY <1>14 DEF RequestAccess
<1>15. CASE op = "EnsureBootstrap" BY <1>15 DEF EnsureBootstrap
<1>16. QED
  BY <1>1, <1>2, <1>3, <1>4, <1>5, <1>6, <1>7, <1>8, <1>9, <1>10, <1>11,
     <1>12, <1>13, <1>14, <1>15 DEF AllOps

-----------------------------------------------------------------------------
(***************************************************************************)
(* Types.  An operation under way is at one of its own statements, knows   *)
(* its user, and has a project at hand whenever the statement needs one.   *)
(***************************************************************************)
Running(n) ==
    /\ n \in TxState
    /\ n.op \in AllOps
    /\ n.pc \in StatementsOf(n.op)
    /\ n.user \in Users
    /\ n.op \in RowOps => n.project \in Projects
    /\ n.pc \in AtProject => n.project \in Projects
    /\ n.op \in {"UpdateProfile", "UpdateLegacyProfile"} => n.profile \in Profiles
    /\ \/ n.kind = KindOf(n.op)
       \/ n.op = "GrantAccess" /\ n.kind = "roles.changed"

WellFormed(n) == n = Idle \/ Running(n)

DataTypeOK ==
    /\ account \in [Users -> Accounts]
    /\ access \in [Rows -> SUBSET RoleNames]
    /\ request \in [Rows -> Requests]
    /\ feed \in SUBSET Events
    /\ nextId \in Nat

LocksTypeOK ==
    /\ accountLock \in [Users -> Txs \cup {None}]
    /\ accessLock \in [Rows -> Txs \cup {None}]
    /\ requestLock \in [Rows -> Txs \cup {None}]
    /\ syncLock \in Txs \cup {None}

TxTypeOK ==
    /\ tx \in [Txs -> TxState]
    /\ \A t \in Txs : WellFormed(tx[t])

TypeInv == DataTypeOK /\ LocksTypeOK /\ TxTypeOK

(* A lock is held by a transaction under way, and the one that holds an     *)
(* account has prepared the new version of the row.                         *)
InTransaction(t) == tx[t].pc # "idle" /\ tx[t].op \notin AutoOps

HeldByTransactions ==
    /\ \A u \in Users, t \in Txs : accountLock[u] = t =>
         InTransaction(t) /\ tx[t].user = u /\ tx[t].row \in Accounts
    /\ \A r \in Rows, t \in Txs : accessLock[r] = t => InTransaction(t)
    /\ \A r \in Rows, t \in Txs : requestLock[r] = t => InTransaction(t)
    /\ \A t \in Txs : syncLock = t => InTransaction(t)

LockInv == TypeInv /\ HeldByTransactions

LEMMA IdleType == Idle \in TxState
  BY DEF Idle, TxState, AccessKinds, Statements, NoAccess

LEMMA KindType == ASSUME NEW op \in AllOps PROVE KindOf(op) \in AccessKinds
  BY DEF AllOps, Program, KindOf, AccessKinds, SilentOps

(* Going on to the next statement. *)
LEMMA NextRunning ==
    ASSUME NEW n, Running(n), n.pc \notin Endings \cup {"projects", "scan"}
    PROVE  Running([n EXCEPT !.pc = Program[n.op][n.pc]])
<1> DEFINE l == Program[n.op][n.pc]
<1>1. /\ l \in StatementsOf(n.op)
      /\ n.op \in RowOps \/ n.pc \in AtProject \/ l \notin AtProject
  BY FlowIsClosed DEF Running
<1>2. l \in Statements
  BY <1>1, FlowStarts DEF Running
<1> QED BY <1>1, <1>2 DEF Running, TxState

(* Going through a set of projects. *)
LEMMA VisitsRunning ==
    ASSUME NEW n, Running(n), NEW S \in SUBSET Projects, NEW each, NEW done,
           each \in StatementsOf(n.op), done \in StatementsOf(n.op),
           done \notin AtProject \/ n.project \in Projects
    PROVE  \A m \in Visits(n, S, each, done) : Running(m)
<1>1. each \in Statements /\ done \in Statements
  BY FlowStarts DEF Running
<1> SUFFICES ASSUME NEW m \in Visits(n, S, each, done) PROVE Running(m)
  OBVIOUS
<1>2. CASE S = {}
  BY <1>1, <1>2 DEF Visits, Running, TxState
<1>3. CASE S # {}
  <2>1. PICK p \in S : m = [n EXCEPT !.pc = each, !.project = p,
                                      !.todo = S \ {p}]
    BY <1>3 DEF Visits
  <2> QED BY <1>1, <2>1 DEF Running, TxState
<1> QED BY <1>2, <1>3

(* A step of t replaces the state of t, and of no other operation. *)
LEMMA OneTransaction ==
    ASSUME TxTypeOK, NEW t \in Txs, NEW n, WellFormed(n),
           tx' = [tx EXCEPT ![t] = n]
    PROVE  TxTypeOK'
<1>1. n \in TxState
  BY IdleType DEF WellFormed, Running
<1> QED BY <1>1 DEF TxTypeOK, WellFormed, Running

LEMMA RollbackType ==
    ASSUME LocksTypeOK, TxTypeOK, NEW t \in Txs, Rollback(t)
    PROVE  LocksTypeOK' /\ TxTypeOK'
<1>1. TxTypeOK'
  BY OneTransaction DEF Rollback, WellFormed
<1>2. LocksTypeOK'
  BY DEF Rollback, ReleaseLocks, Freed, LocksTypeOK
<1> QED BY <1>1, <1>2

(* The operation goes on, keeps its locks and its version of the account.   *)
LEMMA LocksKept ==
    ASSUME HeldByTransactions, TxTypeOK, NEW t \in Txs, NEW n,
           tx' = [tx EXCEPT ![t] = n], UNCHANGED locks,
           tx[t].op \notin AutoOps => n.op \notin AutoOps,
           n.user = tx[t].user, n.row = tx[t].row, n.pc # "idle"
    PROVE  HeldByTransactions'
  BY DEF HeldByTransactions, TxTypeOK, InTransaction, locks

(* ... or takes one more: a row, a request or the journal. *)
MayTake(t) ==
    /\ UNCHANGED accountLock
    /\ \/ UNCHANGED accessLock
       \/ \E r \in Rows : accessLock' = [accessLock EXCEPT ![r] = t]
    /\ \/ UNCHANGED requestLock
       \/ \E r \in Rows : requestLock' = [requestLock EXCEPT ![r] = t]
    /\ syncLock' \in {syncLock, t}

LEMMA LockTaken ==
    ASSUME LockInv, NEW t \in Txs, NEW n, tx' = [tx EXCEPT ![t] = n], MayTake(t),
           n.op \notin AutoOps, n.pc # "idle",
           n.user = tx[t].user, n.row = tx[t].row
    PROVE  HeldByTransactions' /\ LocksTypeOK'
<1>1. LocksTypeOK'
  BY DEF LockInv, TypeInv, LocksTypeOK, MayTake
<1>2. /\ \A r \in Rows, s \in Txs : accessLock'[r] = s => s = t \/ accessLock[r] = s
      /\ \A r \in Rows, s \in Txs : requestLock'[r] = s => s = t \/ requestLock[r] = s
      /\ \A s \in Txs : syncLock' = s => s = t \/ syncLock = s
  BY DEF MayTake, LockInv, TypeInv, LocksTypeOK
<1>3. HeldByTransactions'
  BY <1>2 DEF MayTake, LockInv, HeldByTransactions, TypeInv, TxTypeOK, InTransaction
<1> QED BY <1>1, <1>3

LEMMA LocksReleased ==
    ASSUME LockInv, NEW t \in Txs, tx' = [tx EXCEPT ![t] = Idle], ReleaseLocks(t)
    PROVE  HeldByTransactions' /\ LocksTypeOK' /\ TxTypeOK'
<1>1. \A lock, k : k \in DOMAIN lock =>
         /\ Freed(lock, t)[k] # t
         /\ \A s \in Txs \ {t} : Freed(lock, t)[k] = s => lock[k] = s
  BY ValuesAssumption DEF Freed
<1>2. TxTypeOK' /\ LocksTypeOK'
  BY RollbackType DEF LockInv, TypeInv, Rollback
<1>3. \A s \in Txs \ {t} : tx'[s] = tx[s]
  BY DEF LockInv, TypeInv, TxTypeOK
<1>4. \A u \in Users, s \in Txs : accountLock'[u] = s =>
         s # t /\ accountLock[u] = s
  BY <1>1 DEF ReleaseLocks, LockInv, TypeInv, LocksTypeOK
<1>5. \A r \in Rows, s \in Txs : accessLock'[r] = s =>
         s # t /\ accessLock[r] = s
  BY <1>1 DEF ReleaseLocks, LockInv, TypeInv, LocksTypeOK
<1>6. \A r \in Rows, s \in Txs : requestLock'[r] = s =>
         s # t /\ requestLock[r] = s
  BY <1>1 DEF ReleaseLocks, LockInv, TypeInv, LocksTypeOK
<1>7. \A s \in Txs : syncLock' = s => s # t /\ syncLock = s
  BY ValuesAssumption DEF ReleaseLocks
<1>8. HeldByTransactions'
  BY <1>3, <1>4, <1>5, <1>6, <1>7 DEF LockInv, HeldByTransactions, InTransaction
<1> QED BY <1>2, <1>8

(* What an operation at a given statement is. *)
LEMMA AtStatement ==
    ASSUME TypeInv, NEW t \in Txs, NEW l, At(t, l), l # "idle"
    PROVE  /\ Running(tx[t]) /\ tx[t].pc = l /\ l \in StatementsOf(tx[t].op)
           /\ l # "idle"
           /\ l \in AutoStatements <=> tx[t].op \in AutoOps
           /\ RowOfTx(t) \in Rows \/ ~(tx[t].op \in RowOps \/ l \in AtProject)
<1>1. Running(tx[t])
  BY DEF TypeInv, TxTypeOK, WellFormed, At, Idle
<1> QED
  BY <1>1, FlowOfAutocommit DEF At, Running, RowOfTx, Rows, AutoOps, AutoStatements

(* A statement after which t continues as n. *)
LEMMA GoOn ==
    ASSUME LockInv, NEW t \in Txs, NEW n, Running(tx[t]), Running(n),
           tx' = [tx EXCEPT ![t] = n], DataTypeOK',
           n.op = tx[t].op, n.user = tx[t].user, n.row = tx[t].row,
           UNCHANGED locks \/ (n.op \notin AutoOps /\ MayTake(t))
    PROVE  LockInv'
<1>1. TxTypeOK'
  BY OneTransaction DEF WellFormed, LockInv, TypeInv
<1>2. n.pc # "idle"
  BY FlowStarts DEF Running
<1>3. CASE UNCHANGED locks
  <2>1. HeldByTransactions'
    BY <1>2, <1>3, LocksKept DEF LockInv, TypeInv
  <2>2. LocksTypeOK'
    BY <1>3 DEF LockInv, TypeInv, LocksTypeOK, locks
  <2> QED BY <1>1, <2>1, <2>2 DEF LockInv, TypeInv
<1>4. CASE n.op \notin AutoOps /\ MayTake(t)
  BY <1>1, <1>2, <1>4, LockTaken DEF LockInv, TypeInv
<1> QED BY <1>3, <1>4

(* A statement after which t has given up. *)
LEMMA GiveUp ==
    ASSUME LockInv, NEW t \in Txs, Rollback(t), UNCHANGED <<tables, nextId>>
    PROVE  LockInv'
<1>1. DataTypeOK'
  BY DEF LockInv, TypeInv, DataTypeOK, tables
<1> QED BY <1>1, LocksReleased DEF Rollback, LockInv, TypeInv

(* Nothing but the operations and the locks changes. *)
LEMMA DataKept ==
    ASSUME DataTypeOK, UNCHANGED <<tables, nextId>> PROVE DataTypeOK'
  BY DEF DataTypeOK, tables

(* Going on with the next statement, with one more lock at most. *)
LEMMA AdvanceInv ==
    ASSUME LockInv, NEW t \in Txs, NEW l, At(t, l), Advance(t), DataTypeOK',
           l \notin Endings \cup {"projects", "scan", "idle"},
           UNCHANGED locks \/ (l \notin AutoStatements /\ MayTake(t))
    PROVE  LockInv'
<1> DEFINE n == [tx[t] EXCEPT !.pc = After(t)]
<1>1. /\ Running(tx[t]) /\ tx[t].pc = l
      /\ l \notin AutoStatements => tx[t].op \notin AutoOps
  BY AtStatement DEF LockInv
<1>2. Running(n)
  BY <1>1, NextRunning DEF After
<1>3. n.op = tx[t].op /\ n.user = tx[t].user /\ n.row = tx[t].row
  BY <1>1 DEF Running, TxState
<1>4. tx' = [tx EXCEPT ![t] = n]
  BY DEF Advance
<1> HIDE DEF n
<1> QED BY <1>1, <1>2, <1>3, <1>4, GoOn

LEMMA ProbeAccessInv ==
    ASSUME LockInv, NEW t \in Txs, ProbeAccess(t) PROVE LockInv'
<1> DEFINE m == [tx[t] EXCEPT !.pc = After(t)]
           n == [tx[t] EXCEPT !.pc = After(t), !.kind = "roles.changed"]
<1>1. /\ Running(tx[t]) /\ tx[t].pc = "probe"
      /\ tx[t].op = "GrantAccess" /\ tx[t].op \notin AutoOps
      /\ RowOfTx(t) \in Rows
  BY AtStatement, FlowOfEvents
     DEF ProbeAccess, LockInv, RowOps, AutoOps, Running, AutoStatements
<1>2. Running(m)
  BY <1>1, NextRunning DEF After, Endings
<1>3. Running(n)
  BY <1>1, <1>2 DEF Running, TxState, AccessKinds
<1>4. /\ m.op = tx[t].op /\ m.user = tx[t].user /\ m.row = tx[t].row
      /\ n.op = tx[t].op /\ n.user = tx[t].user /\ n.row = tx[t].row
  BY <1>1 DEF Running, TxState
<1>5. DataTypeOK'
  BY DataKept DEF ProbeAccess, LockInv, TypeInv
<1>6. MayTake(t) /\ (tx' = [tx EXCEPT ![t] = m] \/ tx' = [tx EXCEPT ![t] = n])
  BY <1>1 DEF ProbeAccess, MayTake, Advance
<1> HIDE DEF m, n
<1> QED BY <1>1, <1>2, <1>3, <1>4, <1>5, <1>6, GoOn

LEMMA CheckActiveInv ==
    ASSUME LockInv, NEW t \in Txs, CheckActive(t) PROVE LockInv'
<1>1. DataTypeOK'
  BY DataKept DEF CheckActive, LockInv, TypeInv
<1>2. CASE Advance(t) /\ UNCHANGED locks
  BY <1>1, <1>2, AdvanceInv DEF CheckActive, Endings
<1>3. CASE Rollback(t)
  BY <1>3, GiveUp DEF CheckActive
<1> QED BY <1>2, <1>3 DEF CheckActive, Require

LEMMA UpsertAccessInv ==
    ASSUME LockInv, NEW t \in Txs, UpsertAccess(t) PROVE LockInv'
<1>1. DataTypeOK'
  BY DataKept DEF UpsertAccess, LockInv, TypeInv
<1>2. RowOfTx(t) \in Rows
  BY AtStatement, FlowOfRows DEF RowStatements, UpsertAccess, LockInv, Running
<1>3. MayTake(t)
  BY <1>2 DEF UpsertAccess, MayTake
<1> QED BY <1>1, <1>3, AdvanceInv DEF UpsertAccess, Endings, AutoStatements

LEMMA MergeAdminInv ==
    ASSUME LockInv, NEW t \in Txs, MergeAdmin(t) PROVE LockInv'
<1> DEFINE m == [tx[t] EXCEPT !.pc = After(t)]
           n == [tx[t] EXCEPT !.pc = After(t),
                              !.roles = access[RowOfTx(t)] \cup {AdminRole}]
<1>1. /\ Running(tx[t]) /\ tx[t].pc = "merge"
      /\ tx[t].op \notin AutoOps /\ RowOfTx(t) \in Rows
  BY AtStatement, FlowOfRows DEF RowStatements, MergeAdmin, LockInv, AutoStatements, Running
<1>2. Running(m)
  BY <1>1, NextRunning DEF After, Endings
<1>3. access[RowOfTx(t)] \cup {AdminRole} \in SUBSET RoleNames
  BY <1>1, ValuesAssumption DEF LockInv, TypeInv, DataTypeOK
<1>4. Running(n)
  BY <1>1, <1>2, <1>3 DEF Running, TxState
<1>5. n.op = tx[t].op /\ n.user = tx[t].user /\ n.row = tx[t].row
  BY <1>1 DEF Running, TxState
<1>6. DataTypeOK' /\ MayTake(t) /\ tx' = [tx EXCEPT ![t] = n]
  BY <1>1, DataKept DEF MergeAdmin, MayTake, LockInv, TypeInv
<1> HIDE DEF n
<1> QED BY <1>1, <1>4, <1>5, <1>6, GoOn

LEMMA LockExistingInv ==
    ASSUME LockInv, NEW t \in Txs, NEW l \in {"update", "delete"}, At(t, l),
           LockExisting(t), UNCHANGED <<tables, nextId>>
    PROVE  LockInv'
<1>1. DataTypeOK'
  BY DataKept DEF LockInv, TypeInv
<1>2. RowOfTx(t) \in Rows
  BY AtStatement, FlowOfRows DEF RowStatements, LockInv, Running
<1>3. CASE Advance(t) /\ MayTake(t)
  BY <1>1, <1>3, AdvanceInv DEF Endings, AutoStatements
<1>4. CASE Rollback(t)
  BY <1>4, GiveUp
<1> QED BY <1>2, <1>3, <1>4 DEF LockExisting, MayTake

LEMMA ClaimRequestInv ==
    ASSUME LockInv, NEW t \in Txs, ClaimRequest(t) PROVE LockInv'
<1>1. DataTypeOK'
  BY DataKept DEF ClaimRequest, LockInv, TypeInv
<1>2. RowOfTx(t) \in Rows
  BY AtStatement, FlowOfRows DEF RowStatements, ClaimRequest, LockInv, Running
<1>3. CASE Advance(t) /\ MayTake(t)
  BY <1>1, <1>3, AdvanceInv DEF ClaimRequest, Endings, AutoStatements
<1>4. CASE Rollback(t)
  BY <1>4, GiveUp DEF ClaimRequest
<1> QED BY <1>2, <1>3, <1>4 DEF ClaimRequest, MayTake

LEMMA CloseRequestInv ==
    ASSUME LockInv, NEW t \in Txs, CloseRequest(t) PROVE LockInv'
<1>1. DataTypeOK'
  BY DataKept DEF CloseRequest, LockInv, TypeInv
<1>2. RowOfTx(t) \in Rows
  BY AtStatement, FlowOfRows DEF RowStatements, CloseRequest, LockInv, Running
<1>3. MayTake(t) /\ Advance(t) /\ At(t, "close")
  BY <1>2 DEF CloseRequest, MayTake
<1> QED BY <1>1, <1>3, AdvanceInv DEF Endings, AutoStatements

LEMMA AccountPayloadInv ==
    ASSUME LockInv, NEW t \in Txs, AccountPayload(t) PROVE LockInv'
<1> DEFINE f == account[tx[t].user].profile
           m == [tx[t] EXCEPT !.pc = After(t)]
           n == [tx[t] EXCEPT !.pc = After(t), !.profile = f]
<1>1. Running(tx[t]) /\ tx[t].pc = "payload"
  BY AtStatement DEF AccountPayload, LockInv
<1>2. Running(m)
  BY <1>1, NextRunning DEF After, Endings
<1>3. f \in Profiles
  BY <1>1 DEF Running, LockInv, TypeInv, DataTypeOK, Accounts
<1>4. Running(n)
  BY <1>1, <1>2, <1>3 DEF Running, TxState
<1>5. n.op = tx[t].op /\ n.user = tx[t].user /\ n.row = tx[t].row
  BY <1>1 DEF Running, TxState
<1>6. DataTypeOK'
  BY DataKept DEF AccountPayload, LockInv, TypeInv
<1>7. CASE UNCHANGED locks /\ tx' = [tx EXCEPT ![t] = n]
  <2> HIDE DEF n
  <2> QED BY <1>1, <1>4, <1>5, <1>6, <1>7, GoOn
<1>8. CASE Rollback(t)
  BY <1>8, GiveUp DEF AccountPayload
<1> QED BY <1>7, <1>8 DEF AccountPayload

LEMMA UpdatedType ==
    ASSUME NEW op, NEW a \in Accounts, NEW f \in Profiles \cup {None},
           op \in {"UpdateProfile", "UpdateLegacyProfile"} => f \in Profiles
    PROVE  Updated(op, a, f) \in Accounts
  BY DEF Updated, Accounts, Statuses

LEMMA UpdateAccountInv ==
    ASSUME LockInv, NEW t \in Txs, UpdateAccount(t) PROVE LockInv'
<1> DEFINE u == tx[t].user
           v == Updated(tx[t].op, account[u], tx[t].profile)
           m == [tx[t] EXCEPT !.pc = After(t)]
           n == [tx[t] EXCEPT !.pc = After(t), !.row = v]
<1>1. /\ Running(tx[t]) /\ tx[t].pc = "account" /\ u \in Users
      /\ tx[t].op \notin AutoOps
  BY AtStatement DEF UpdateAccount, LockInv, AutoStatements, Running
<1>2. v \in Accounts
  BY <1>1, UpdatedType DEF Running, TxState, LockInv, TypeInv, DataTypeOK
<1> HIDE DEF v
<1>3. Running(m)
  BY <1>1, NextRunning DEF After, Endings
<1>4. Running(n)
  BY <1>1, <1>2, <1>3 DEF Running, TxState
<1>5. n.op = tx[t].op /\ n.user = u /\ n.row = v /\ n.pc # "idle"
  BY <1>1, <1>4, FlowStarts DEF Running, TxState
<1>6. DataTypeOK'
  BY DataKept DEF UpdateAccount, LockInv, TypeInv
<1>7. CASE /\ accountLock' = [accountLock EXCEPT ![u] = t]
           /\ tx' = [tx EXCEPT ![t] = n]
           /\ UNCHANGED <<accessLock, requestLock, syncLock>>
  <2> HIDE DEF n
  <2>1. LocksTypeOK'
    BY <1>7 DEF LockInv, TypeInv, LocksTypeOK
  <2>2. TxTypeOK'
    BY <1>4, <1>7, OneTransaction DEF WellFormed, LockInv, TypeInv
  <2>3. \A w \in Users, s \in Txs : accountLock'[w] = s =>
           (s = t /\ w = u) \/ accountLock[w] = s
    BY <1>7 DEF LockInv, TypeInv, LocksTypeOK
  <2>4. BlockedBy(t) = {}
    BY DEF UpdateAccount, At
  <2>5. \A w \in Users : accountLock[w] = t => w = u
    BY DEF LockInv, HeldByTransactions
  <2>6. HeldByTransactions'
    BY <1>1, <1>2, <1>5, <1>7, <2>3, <2>5
       DEF LockInv, HeldByTransactions, TypeInv, TxTypeOK, InTransaction
  <2> QED BY <1>6, <2>1, <2>2, <2>6 DEF LockInv, TypeInv
<1>8. CASE Rollback(t)
  BY <1>8, GiveUp DEF UpdateAccount
<1> QED BY <1>7, <1>8 DEF UpdateAccount, v

(* The statements that start a loop over projects, or go on with one. *)
LEMMA VisitInv ==
    ASSUME LockInv, NEW t \in Txs, NEW n, Running(tx[t]), Running(n),
           n.op = tx[t].op, n.user = tx[t].user, n.row = tx[t].row,
           NEW S \in SUBSET Projects, NEW each, NEW done,
           each \in StatementsOf(n.op), done \in StatementsOf(n.op),
           done \notin AtProject \/ n.project \in Projects,
           \E m \in Visits(n, S, each, done) : tx' = [tx EXCEPT ![t] = m],
           DataTypeOK', UNCHANGED locks \/ (n.op \notin AutoOps /\ MayTake(t))
    PROVE  LockInv'
<1>1. PICK m \in Visits(n, S, each, done) : tx' = [tx EXCEPT ![t] = m]
  OBVIOUS
<1>2. Running(m)
  BY VisitsRunning
<1>3. m.op = tx[t].op /\ m.user = tx[t].user /\ m.row = tx[t].row
  <2>1. CASE S = {}
    BY <2>1 DEF Visits, Running, TxState
  <2>2. CASE S # {}
    <3>1. PICK p \in S : m = [n EXCEPT !.pc = each, !.project = p,
                                        !.todo = S \ {p}]
      BY <2>2 DEF Visits
    <3> QED BY <3>1 DEF Running, TxState
  <2> QED BY <2>1, <2>2
<1> QED BY <1>1, <1>2, <1>3, GoOn

LEMMA ProfileProjectsInv ==
    ASSUME LockInv, NEW t \in Txs, ProfileProjects(t) PROVE LockInv'
<1>1. Running(tx[t]) /\ tx[t].pc = "projects" /\ "projects" \in StatementsOf(tx[t].op)
  BY AtStatement DEF ProfileProjects, LockInv
<1>2. After(t) \in StatementsOf(tx[t].op)
  BY <1>1, FlowIsClosed DEF Running, After, Endings
<1>3. Program[tx[t].op].insert \in StatementsOf(tx[t].op) \ AtProject
  BY <1>1, FlowOfEvents DEF Running
<1>4. ProjectsWithAccess(tx[t].user) \ {tx[t].project} \in SUBSET Projects
  BY DEF ProjectsWithAccess
<1>5. DataTypeOK' /\ UNCHANGED locks
  BY DataKept DEF ProfileProjects, LockInv, TypeInv
<1> QED BY <1>1, <1>2, <1>3, <1>4, <1>5, VisitInv DEF ProfileProjects

LEMMA ReadRolesInv ==
    ASSUME LockInv, NEW t \in Txs, ReadRoles(t) PROVE LockInv'
<1> DEFINE R == access[RowOfTx(t)]
           m == [tx[t] EXCEPT !.pc = After(t)]
           n == [tx[t] EXCEPT !.pc = After(t), !.roles = R]
<1>1. /\ Running(tx[t]) /\ tx[t].pc \in {"roles", "ownRoles"}
      /\ RowOfTx(t) \in Rows
  BY AtStatement DEF ReadRoles, LockInv, AtProject
<1>2. Running(m)
  BY <1>1, NextRunning DEF After, Endings
<1>3. R \in SUBSET RoleNames
  BY <1>1 DEF LockInv, TypeInv, DataTypeOK
<1>4. Running(n)
  BY <1>1, <1>2, <1>3 DEF Running, TxState
<1>5. n.op = tx[t].op /\ n.user = tx[t].user /\ n.row = tx[t].row
  BY <1>1 DEF Running, TxState
<1>6. DataTypeOK'
  BY DataKept DEF ReadRoles, LockInv, TypeInv
<1>7. CASE UNCHANGED locks /\ tx' = [tx EXCEPT ![t] = n]
  <2> HIDE DEF n
  <2> QED BY <1>1, <1>4, <1>5, <1>6, <1>7, GoOn
<1>8. CASE Rollback(t)
  BY <1>8, GiveUp DEF ReadRoles
<1> QED BY <1>7, <1>8 DEF ReadRoles

LEMMA EventType ==
    ASSUME TypeInv, NEW t \in Txs, Running(tx[t]), tx[t].project \in Projects
    PROVE  Event(t) \in Events
  BY DEF Event, Events, TypeInv, DataTypeOK, Running, TxState

LEMMA QueueEventInv ==
    ASSUME LockInv, NEW t \in Txs, QueueEvent(t) PROVE LockInv'
<1> DEFINE n == [tx[t] EXCEPT !.events = @ \cup {Event(t)}]
           each == IF n.kind = "profile.updated" THEN "roles" ELSE "insert"
<1>1. /\ Running(tx[t]) /\ tx[t].pc \in {"insert", "ownInsert"}
      /\ tx[t].pc \in StatementsOf(tx[t].op)
      /\ tx[t].op \notin AutoOps
  BY AtStatement DEF QueueEvent, LockInv, AutoStatements
<1>2. tx[t].project \in Projects
  BY <1>1 DEF Running, AtProject
<1>3. tx[t].events \cup {Event(t)} \in SUBSET Events
  BY <1>1, <1>2, EventType DEF LockInv, TypeInv, Running, TxState
<1>4. Running(n)
  BY <1>1, <1>3 DEF Running, TxState
<1>5. /\ n.op = tx[t].op /\ n.user = tx[t].user /\ n.row = tx[t].row
      /\ n.kind = tx[t].kind /\ n.project = tx[t].project /\ n.todo = tx[t].todo
  BY <1>1 DEF Running, TxState
<1>6. After(t) \in StatementsOf(n.op)
  BY <1>1, <1>5, FlowIsClosed DEF Running, After, Endings
<1>7. each \in StatementsOf(n.op)
  BY <1>1, <1>5, FlowOfEvents DEF Running
<1>8. n.todo \in SUBSET Projects
  BY <1>4 DEF Running, TxState
<1>9. DataTypeOK' /\ MayTake(t)
  BY DEF QueueEvent, LockInv, TypeInv, DataTypeOK, tables, MayTake
<1>10. \E m \in Visits(n, n.todo, each, After(t)) : tx' = [tx EXCEPT ![t] = m]
  BY DEF QueueEvent, Queued
<1> HIDE DEF n, each
<1> QED BY <1>1, <1>2, <1>4, <1>5, <1>6, <1>7, <1>8, <1>9, <1>10, VisitInv

LEMMA ScanAccessInv ==
    ASSUME LockInv, NEW t \in Txs, ScanAccess(t) PROVE LockInv'
<1>1. Running(tx[t]) /\ {"wipe", "commit"} \subseteq StatementsOf(tx[t].op)
  BY AtStatement, FlowOfEvents DEF ScanAccess, LockInv, Running
<1>2. ProjectsWithAccess(tx[t].user) \in SUBSET Projects
  BY DEF ProjectsWithAccess
<1>3. DataTypeOK' /\ UNCHANGED locks
  BY DataKept DEF ScanAccess, LockInv, TypeInv
<1>4. "commit" \notin AtProject
  BY DEF AtProject
<1> QED BY <1>1, <1>2, <1>3, <1>4, VisitInv DEF ScanAccess

LEMMA WipeAccessInv ==
    ASSUME LockInv, NEW t \in Txs, WipeAccess(t) PROVE LockInv'
<1>1. /\ Running(tx[t]) /\ tx[t].pc = "wipe" /\ "wipe" \in StatementsOf(tx[t].op)
      /\ tx[t].op \notin AutoOps /\ tx[t].project \in Projects
      /\ RowOfTx(t) \in Rows
  BY AtStatement DEF WipeAccess, LockInv, AutoStatements, AtProject, Running
<1>2. After(t) \in StatementsOf(tx[t].op)
  BY <1>1, FlowIsClosed DEF Running, After, Endings
<1>3. tx[t].todo \in SUBSET Projects
  BY <1>1 DEF Running, TxState
<1>4. DataTypeOK' /\ MayTake(t)
  BY <1>1, DataKept DEF WipeAccess, LockInv, TypeInv, MayTake
<1> QED BY <1>1, <1>2, <1>3, <1>4, VisitInv DEF WipeAccess

LEMMA CommitInv ==
    ASSUME LockInv, NEW t \in Txs, Commit(t) PROVE LockInv'
<1>1. Running(tx[t])
  BY AtStatement DEF Commit, LockInv
<1>2. account' \in [Users -> Accounts]
  BY DEF Commit, LockInv, TypeInv, DataTypeOK, HeldByTransactions
<1>3. access' \in [Rows -> SUBSET RoleNames]
  BY <1>1 DEF Commit, LockInv, TypeInv, DataTypeOK, Running, TxState
<1>4. request' \in [Rows -> Requests]
  BY DEF Commit, LockInv, TypeInv, DataTypeOK, Requests
<1>5. feed' \in SUBSET Events /\ nextId' \in Nat
  BY <1>1 DEF Commit, LockInv, TypeInv, DataTypeOK, Running, TxState
<1>6. DataTypeOK'
  BY <1>2, <1>3, <1>4, <1>5 DEF DataTypeOK
<1>7. tx' = [tx EXCEPT ![t] = Idle] /\ ReleaseLocks(t)
  BY DEF Commit
<1> QED BY <1>6, <1>7, LocksReleased DEF LockInv, TypeInv

(* The statements that end an operation outside a transaction. *)
LEMMA AutocommitEnds ==
    ASSUME LockInv, NEW t \in Txs, tx[t].op \in AutoOps, DataTypeOK',
           tx' = [tx EXCEPT ![t] = Idle], UNCHANGED locks
    PROVE  LockInv'
<1>1. TxTypeOK'
  BY OneTransaction DEF WellFormed, LockInv, TypeInv
<1>2. LocksTypeOK'
  BY DEF LockInv, TypeInv, LocksTypeOK, locks
<1>3. HeldByTransactions'
  BY DEF LockInv, HeldByTransactions, TypeInv, TxTypeOK, InTransaction, locks
<1> QED BY <1>1, <1>2, <1>3 DEF LockInv, TypeInv

LEMMA ReadAccessInv ==
    ASSUME LockInv, NEW t \in Txs, ReadAccess(t) PROVE LockInv'
<1>1. tx[t].op \in AutoOps
  BY AtStatement DEF ReadAccess, LockInv, AutoStatements
<1>2. DataTypeOK' /\ UNCHANGED locks
  BY DataKept DEF ReadAccess, LockInv, TypeInv
<1>3. CASE Advance(t)
  BY <1>2, <1>3, AdvanceInv DEF ReadAccess, Endings
<1>4. CASE tx' = [tx EXCEPT ![t] = Idle]
  BY <1>1, <1>2, <1>4, AutocommitEnds
<1> QED BY <1>3, <1>4 DEF ReadAccess

LEMMA InsertRequestInv ==
    ASSUME LockInv, NEW t \in Txs, InsertRequest(t) PROVE LockInv'
<1>1. tx[t].op \in AutoOps
  BY AtStatement DEF InsertRequest, LockInv, AutoStatements
<1>2. DataTypeOK'
  BY DEF InsertRequest, LockInv, TypeInv, DataTypeOK, Requests
<1> QED BY <1>1, <1>2, AutocommitEnds DEF InsertRequest

LEMMA BootstrapAdminInv ==
    ASSUME LockInv, NEW t \in Txs, BootstrapAdmin(t) PROVE LockInv'
<1>1. account' \in [Users -> Accounts]
  BY DEF BootstrapAdmin, LockInv, TypeInv, DataTypeOK, Accounts, Statuses
<1>2. DataTypeOK' /\ UNCHANGED locks
  BY <1>1 DEF BootstrapAdmin, LockInv, TypeInv, DataTypeOK
<1> QED BY <1>2, AdvanceInv DEF BootstrapAdmin, Endings

LEMMA BootstrapAccessInv ==
    ASSUME LockInv, NEW t \in Txs, BootstrapAccess(t) PROVE LockInv'
<1>1. tx[t].op \in AutoOps
  BY AtStatement DEF BootstrapAccess, LockInv, AutoStatements
<1>2. access' \in [Rows -> SUBSET RoleNames]
  BY ValuesAssumption DEF BootstrapAccess, LockInv, TypeInv, DataTypeOK
<1>3. DataTypeOK' /\ UNCHANGED locks
  BY <1>2 DEF BootstrapAccess, LockInv, TypeInv, DataTypeOK
<1> QED BY <1>1, <1>3, AutocommitEnds DEF BootstrapAccess

LEMMA BeginInv ==
    ASSUME LockInv, NEW t \in Txs, Begin(t) PROVE LockInv'
<1>1. PICK op \in Ops, u \in Users :
        \E p \in ProjectsOf(op), R \in RolesOf(op), f \in ProfilesOf(op) :
          tx' = [tx EXCEPT ![t] = Started(op, u, p, R, f)]
  BY DEF Begin
<1>2. PICK p \in ProjectsOf(op), R \in RolesOf(op), f \in ProfilesOf(op) :
          tx' = [tx EXCEPT ![t] = Started(op, u, p, R, f)]
  BY <1>1
<1> DEFINE n == Started(op, u, p, R, f)
<1>3. op \in AllOps /\ KindOf(op) \in AccessKinds
  BY OpsAssumption, KindType
<1>4. p \in Projects \cup {None} /\ (op \in RowOps => p \in Projects)
  BY DEF ProjectsOf
<1>5. R \in SUBSET RoleNames
  BY DEF RolesOf, ValidRoles, NoAccess
<1>6. /\ f \in Profiles \cup {None}
      /\ op \in {"UpdateProfile", "UpdateLegacyProfile"} => f \in Profiles
  BY DEF ProfilesOf
<1>7. /\ Program[op].start \in StatementsOf(op)
      /\ Program[op].start \in Statements \ {"idle"}
      /\ op \in RowOps \/ Program[op].start \notin AtProject
  BY <1>3, FlowStarts
<1>8. Running(n) /\ n.pc # "idle"
  BY <1>3, <1>4, <1>5, <1>6, <1>7, IdleType DEF Started, Running, TxState, Idle
<1>9. tx' = [tx EXCEPT ![t] = n] /\ UNCHANGED locks /\ tx[t].pc = "idle"
  BY <1>2 DEF Begin, locks
<1>10. DataTypeOK'
  BY DataKept DEF Begin, LockInv, TypeInv
<1> HIDE DEF n
<1>11. TxTypeOK'
  BY <1>8, <1>9, OneTransaction DEF WellFormed, LockInv, TypeInv
<1>12. LocksTypeOK'
  BY <1>9 DEF LockInv, TypeInv, LocksTypeOK, locks
<1>13. HeldByTransactions'
  BY <1>9 DEF LockInv, HeldByTransactions, TypeInv, TxTypeOK, InTransaction, locks
<1> QED BY <1>10, <1>11, <1>12, <1>13 DEF LockInv, TypeInv

LEMMA StepInv ==
    ASSUME LockInv, NEW t \in Txs, Step(t) PROVE LockInv'
<1>1. UpdateRoles(t) \/ DeleteAccess(t) => LockInv'
  BY LockExistingInv DEF UpdateRoles, DeleteAccess
<1> QED
  BY <1>1, CheckActiveInv, ProbeAccessInv, UpsertAccessInv, MergeAdminInv,
     ClaimRequestInv, CloseRequestInv, AccountPayloadInv, UpdateAccountInv,
     ProfileProjectsInv, ReadRolesInv, QueueEventInv, ScanAccessInv,
     WipeAccessInv, CommitInv, ReadAccessInv, InsertRequestInv,
     BootstrapAdminInv, BootstrapAccessInv DEF Step

LEMMA InitLockInv == Init => LockInv
<1> SUFFICES ASSUME Init PROVE LockInv
  OBVIOUS
<1>1. DataTypeOK
  BY ValuesAssumption DEF Init, DataTypeOK, Accounts, Statuses, Requests
<1>2. LocksTypeOK
  BY DEF Init, LocksTypeOK
<1>3. TxTypeOK
  BY IdleType DEF Init, TxTypeOK, WellFormed
<1>4. HeldByTransactions
  BY ValuesAssumption DEF Init, HeldByTransactions
<1> QED BY <1>1, <1>2, <1>3, <1>4 DEF LockInv, TypeInv

LEMMA NextLockInv == LockInv /\ [Next]_vars => LockInv'
<1> SUFFICES ASSUME LockInv, [Next]_vars PROVE LockInv'
  OBVIOUS
<1>1. CASE UNCHANGED vars
  <2>1. UNCHANGED <<tables, nextId>> /\ UNCHANGED locks /\ UNCHANGED tx
    BY <1>1 DEF vars
  <2>2. TypeInv'
    BY <2>1, DataKept
       DEF LockInv, TypeInv, LocksTypeOK, TxTypeOK, WellFormed, Running, locks
  <2>3. HeldByTransactions'
    BY <2>1 DEF LockInv, HeldByTransactions, InTransaction, locks
  <2> QED BY <2>2, <2>3 DEF LockInv
<1>2. ASSUME NEW t \in Txs, Begin(t) \/ Step(t) PROVE LockInv'
  BY <1>2, BeginInv, StepInv
<1>3. ASSUME NEW t \in Txs, Fail(t) \/ DeadlockAbort(t) PROVE LockInv'
  BY <1>3, GiveUp DEF Fail, DeadlockAbort
<1> QED BY <1>1, <1>2, <1>3 DEF Next

(* The inductive invariant the other theorems build on: types, the position *)
(* of every operation in its program, and who may hold a lock.              *)
THEOREM LocksHeld == Spec => []LockInv
  BY InitLockInv, NextLockInv, PTL DEF Spec

(* Every variable keeps its type, whatever operations interleave. *)
THEOREM TypeCorrect == Spec => []TypeOK
<1>1. LockInv => TypeOK
  BY DEF LockInv, TypeInv, DataTypeOK, LocksTypeOK, TxTypeOK, TypeOK
<1> QED BY <1>1, LocksHeld, PTL
=============================================================================
