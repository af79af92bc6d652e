------------------------ MODULE RefreshTokensProofs ------------------------
(***************************************************************************)
(* Theorems about RefreshTokens: one live token for each sign-in, families *)
(* that stay dead, and password changes that end what was issued, for any  *)
(* number of users, clients, tokens and concurrent requests.               *)
(***************************************************************************)
EXTENDS RefreshTokens, TLAPS

StatementsOf(op) ==
    CASE op = "Authorize" -> {"checkAccount", "checkAccess", "code"}
      [] op = "Exchange" -> {"consume", "checkAccount", "checkAccess", "create", "reply"}
      [] op = "Refresh" -> {"present", "scan", "revoke", "commit", "rotate",
                            "commitRotation", "checkAccount", "checkAccess", "reply"}
      [] op = "GrantAccess" -> {"checkAccount", "grant"}
      [] op = "ActivateAccount" -> {"account", "commit"}
      [] op = "RevokeAccess" -> {"delete", "scan", "revoke", "commit"}
      [] op = "DisableAccount" -> {"account", "scan", "revoke", "codes", "scanAccess",
                                   "wipe", "commit"}
      [] op \in {"ChangePassword", "ResetPassword"} ->
           {"account", "scan", "revoke", "codes", "commit"}

(* A request is idle, or at a statement of its operation with what that      *)
(* operation was called with.                                              *)
Running(q) ==
    /\ q.op \in AllOps
    /\ q.pc \in StatementsOf(q.op)
    /\ q.user \in Users
    /\ q.client \in Clients
    /\ q.op = "Exchange" => q.code \in Codes /\ code[q.code] # None
    /\ q.op = "Refresh" => /\ q.key \in Tokens
                           /\ token[q.key] # None
                           /\ token[q.key].user = q.user

RequestsOK == \A r \in Requests : req[r] = Idle \/ Running(req[r])

(* Only rows that exist are locked, to be revoked or delivered, and a token  *)
(* comes from a code that was consumed.                                    *)
RowsOK ==
    /\ \A n \in Tokens : tokenLock[n] # None => token[n] # None
    /\ \A k \in Codes : codeLock[k] # None => code[k] # None
    /\ \A r \in Requests :
         req[r].pc = "revoke" => \A n \in req[r].todo : n \in Tokens /\ token[n] # None
    /\ \A n \in delivered : token[n] # None
    /\ \A n \in Tokens :
         token[n] # None => /\ code[token[n].code] # None
                            /\ code[token[n].code].state # "fresh"

(* The successor of a request that has not inserted it yet. *)
Pending(q) ==
    \/ q.op = "Exchange" /\ q.pc \in {"consume", "checkAccount", "checkAccess", "create"}
    \/ q.op = "Refresh" /\ q.pc \in {"present", "rotate", "commitRotation", "scan",
                                     "revoke", "commit"}

(* Successors are new, one for each request, until they are inserted.       *)
SuccessorsOK ==
    /\ \A r \in Requests :
         req[r].op \in {"Exchange", "Refresh"} =>
           IF Pending(req[r])
           THEN req[r].next # None => token[req[r].next] = None
           ELSE req[r].next # None /\ token[req[r].next] # None
    /\ \A r, s \in Requests :
         r # s /\ req[r].next # None => req[r].next # req[s].next

Unspent(n) == token[n] # None /\ ~token[n].used /\ ~token[n].revoked

(* A rotation holds the row it found unspent.                              *)
RotationsOK ==
    \A r \in Requests :
      req[r].pc \in {"rotate", "commitRotation"} =>
        /\ tokenLock[req[r].key] = r
        /\ Unspent(req[r].key)
        /\ req[r].next # None

(* An exchange that has consumed its code and not yet created its token.    *)
Spending(q, k) ==
    q.op = "Exchange" /\ q.code = k /\ q.pc \in {"checkAccount", "checkAccess", "create"}

(* A consumed code belongs to one exchange until its family exists.         *)
ExchangesOK ==
    /\ \A r \in Requests, k \in Codes :
         Spending(req[r], k) =>
           /\ code[k].state # "fresh"
           /\ \A n \in Tokens : token[n] # None => token[n].code # k
    /\ \A r, s \in Requests, k \in Codes :
         Spending(req[r], k) /\ Spending(req[s], k) => r = s

(* The tokens of a code form one line, spent but for the last.              *)
OneUnspent ==
    \A m, n \in Tokens :
      Unspent(m) /\ Unspent(n) /\ token[m].code = token[n].code => m = n

Types == TypeOK /\ RequestsOK /\ RowsOK /\ SuccessorsOK

FamilyInv == Types /\ RotationsOK /\ ExchangesOK /\ OneUnspent

-----------------------------------------------------------------------------
(***************************************************************************)
(* What a step of request r may do to the others' requests, rows and locks. *)
(***************************************************************************)
Act(r) == Begin(r) \/ BeginToken(r) \/ Step(r) \/ Fail(r) \/ DeadlockAbort(r)

LEMMA IdleType == Idle \in ReqState /\ Idle.next = None /\ Idle.op = "none"
  BY DEF Idle, ReqState, Statements, AllOps

LEMMA AtStatement ==
    ASSUME RequestsOK, NEW r \in Requests, req[r].pc # "idle"
    PROVE  Running(req[r])
  BY DEF RequestsOK, Idle

LEMMA CodesChange ==
    ASSUME NEW r \in Requests, Act(r)
    PROVE  \/ CreateAuthorizationCode(r) \/ ConsumeAuthorizationCode(r) \/ Commit(r)
           \/ UNCHANGED code
<1>1. Begin(r) \/ BeginToken(r) \/ Fail(r) \/ DeadlockAbort(r) => UNCHANGED code
  BY DEF Begin, BeginToken, Fail, DeadlockAbort, tables
<1>2. Step(r) => \/ CreateAuthorizationCode(r) \/ ConsumeAuthorizationCode(r)
                 \/ Commit(r) \/ UNCHANGED code
  BY DEF Step, CheckAccount, CheckAccess, CreateRefresh, PresentToken, RotateToken,
         CommitRotation, Reply, LockAccount, DeleteAccess, ScanTokens, RevokeToken,
         TokensRevoked, DeleteCodes, ScanAccess, WipeAccess, AccessWiped,
         InsertAccess, tables
<1> QED BY <1>1, <1>2 DEF Act

LEMMA TokensChange ==
    ASSUME NEW r \in Requests, Act(r)
    PROVE  \/ CreateRefresh(r) \/ CommitRotation(r) \/ Commit(r)
           \/ UNCHANGED token
<1>1. Begin(r) \/ BeginToken(r) \/ Fail(r) \/ DeadlockAbort(r) => UNCHANGED token
  BY DEF Begin, BeginToken, Fail, DeadlockAbort, tables
<1>2. Step(r) => \/ CreateRefresh(r) \/ CommitRotation(r)
                 \/ Commit(r) \/ UNCHANGED token
  BY DEF Step, CheckAccount, CheckAccess, PresentToken, RotateToken, Reply,
         CreateAuthorizationCode, ConsumeAuthorizationCode,
         LockAccount, DeleteAccess, ScanTokens, RevokeToken,
         TokensRevoked, DeleteCodes, ScanAccess, WipeAccess, AccessWiped,
         InsertAccess, tables
<1> QED BY <1>1, <1>2 DEF Act

LEMMA CodesGrow ==
    ASSUME Types, NEW r \in Requests, Act(r), NEW k \in Codes, code[k] # None
    PROVE  /\ code'[k] # None
           /\ code'[k].user = code[k].user /\ code'[k].client = code[k].client
           /\ code[k].state # "fresh" => code'[k].state # "fresh"
<1>1. code[k] \in CodeRows
  BY DEF Types, TypeOK
<1>2. CASE CreateAuthorizationCode(r)
  BY <1>2 DEF CreateAuthorizationCode, Types, TypeOK
<1>3. CASE ConsumeAuthorizationCode(r)
  <2>1. code' = code \/ code' = [code EXCEPT ![req[r].code].state = "used"]
    BY <1>3 DEF ConsumeAuthorizationCode
  <2>2. [code[k] EXCEPT !.state = "used"] \in CodeRows
    BY <1>1 DEF CodeRows
  <2> QED BY <1>1, <2>1, <2>2, ConstantsAssumption DEF Types, TypeOK, CodeRows
<1>4. CASE Commit(r)
  <2>1. code'[k] = code[k] \/ code'[k] = [code[k] EXCEPT !.state = "deleted"]
    BY <1>4 DEF Commit
  <2>2. [code[k] EXCEPT !.state = "deleted"] \in CodeRows
    BY <1>1 DEF CodeRows
  <2> QED BY <1>1, <2>1, <2>2, ConstantsAssumption DEF CodeRows
<1> QED BY <1>2, <1>3, <1>4, CodesChange

(* What a commit makes of a row. *)
LEMMA UsedRow ==
    ASSUME NEW x \in TokenRows, NEW y, y = [x EXCEPT !.used = TRUE]
    PROVE  /\ y \in TokenRows /\ y # None
           /\ y.family = x.family /\ y.code = x.code
           /\ y.user = x.user /\ y.client = x.client
           /\ y.used = TRUE /\ y.revoked = x.revoked
  BY ConstantsAssumption DEF TokenRows

LEMMA RevokedRow ==
    ASSUME NEW x \in TokenRows, NEW y, y = [x EXCEPT !.revoked = TRUE]
    PROVE  /\ y \in TokenRows /\ y # None
           /\ y.family = x.family /\ y.code = x.code
           /\ y.user = x.user /\ y.client = x.client
           /\ y.revoked = TRUE /\ y.used = x.used
  BY ConstantsAssumption DEF TokenRows

LEMMA SuccessorRow ==
    ASSUME NEW x \in TokenRows, NEW y,
           y = [x EXCEPT !.used = FALSE, !.revoked = FALSE]
    PROVE  /\ y \in TokenRows /\ y # None
           /\ y.family = x.family /\ y.code = x.code
           /\ y.user = x.user /\ y.client = x.client
           /\ y.used = FALSE /\ y.revoked = FALSE
  BY ConstantsAssumption DEF TokenRows

(* The token that a sign-in or a rotation inserts.                         *)
LEMMA Creation ==
    ASSUME Types, NEW r \in Requests, CreateRefresh(r), req[r].next # None
    PROVE  /\ Running(req[r]) /\ req[r].op = "Exchange" /\ req[r].pc = "create"
           /\ req[r].next \in Tokens
           /\ token[req[r].next] = None
           /\ token' = [token EXCEPT ![req[r].next] =
                          [family |-> req[r].next, code |-> req[r].code,
                           user |-> req[r].user, client |-> req[r].client,
                           used |-> FALSE, revoked |-> FALSE]]
           /\ token'[req[r].next] \in TokenRows
<1>1. req[r].pc = "create" /\ req[r] \in ReqState
  BY DEF CreateRefresh, At, Types, TypeOK
<1>2. Running(req[r])
  BY <1>1, AtStatement DEF Types
<1>3. req[r].op = "Exchange"
  BY <1>1, <1>2 DEF Running, StatementsOf, AllOps
<1>4. req[r].next \in Tokens /\ token[req[r].next] = None
  BY <1>1, <1>3 DEF ReqState, Types, SuccessorsOK, Pending
<1>5. token' = [token EXCEPT ![req[r].next] =
                          [family |-> req[r].next, code |-> req[r].code,
                           user |-> req[r].user, client |-> req[r].client,
                           used |-> FALSE, revoked |-> FALSE]]
  BY DEF CreateRefresh
<1>6. token'[req[r].next] \in TokenRows
  BY <1>2, <1>3, <1>4, <1>5 DEF Running, TokenRows, Types, TypeOK
<1> QED BY <1>1, <1>2, <1>3, <1>4, <1>5, <1>6

LEMMA Rotation ==
    ASSUME Types, RotationsOK, NEW r \in Requests, CommitRotation(r)
    PROVE  /\ Running(req[r]) /\ req[r].op = "Refresh" /\ req[r].pc = "commitRotation"
           /\ req[r].key \in Tokens /\ req[r].next \in Tokens
           /\ token[req[r].next] = None /\ Unspent(req[r].key)
           /\ tokenLock[req[r].key] = r /\ token[req[r].key].user = req[r].user
           /\ token[req[r].key] \in TokenRows
           /\ token' \in [Tokens -> TokenRows \cup {None}]
           /\ token'[req[r].key] = [token[req[r].key] EXCEPT !.used = TRUE]
           /\ token'[req[r].next] = [token[req[r].key] EXCEPT !.used = FALSE,
                                                              !.revoked = FALSE]
           /\ \A x \in Tokens \ {req[r].key, req[r].next} : token'[x] = token[x]
<1> DEFINE k == req[r].key
           n == req[r].next
<1>1. req[r].pc = "commitRotation" /\ req[r] \in ReqState
  BY DEF CommitRotation, At, Types, TypeOK
<1>2. Running(req[r])
  BY <1>1, AtStatement DEF Types
<1>3. req[r].op = "Refresh"
  BY <1>1, <1>2 DEF Running, StatementsOf, AllOps
<1>4. n \in Tokens /\ token[n] = None
  BY <1>1, <1>3 DEF ReqState, Types, SuccessorsOK, Pending, RotationsOK
<1>5. Unspent(k) /\ tokenLock[k] = r
  BY <1>1 DEF RotationsOK
<1>6. k \in Tokens /\ token[k].user = req[r].user
  BY <1>2, <1>3 DEF Running
<1>7. token[k] \in TokenRows
  BY <1>5, <1>6 DEF Types, TypeOK, Unspent
<1>8. token \in [Tokens -> TokenRows \cup {None}]
  BY DEF Types, TypeOK
<1>9. token' = [token EXCEPT ![k].used = TRUE,
                             ![n] = [token[k] EXCEPT !.used = FALSE, !.revoked = FALSE]]
  BY DEF CommitRotation
<1>10. k # n
  BY <1>4, <1>5 DEF Unspent
<1> HIDE DEF k, n
<1> DEFINE old == [token[k] EXCEPT !.used = TRUE]
           new == [token[k] EXCEPT !.used = FALSE, !.revoked = FALSE]
<1>11. old \in TokenRows /\ new \in TokenRows
  BY <1>7, UsedRow, SuccessorRow
<1>12. token' = [[token EXCEPT ![k] = old] EXCEPT ![n] = new]
  BY <1>9
<1> HIDE DEF old, new
<1>13. /\ token' \in [Tokens -> TokenRows \cup {None}]
       /\ token'[k] = old /\ token'[n] = new
       /\ \A x \in Tokens \ {k, n} : token'[x] = token[x]
  BY <1>4, <1>6, <1>8, <1>10, <1>11, <1>12
<1> QED BY <1>1, <1>2, <1>3, <1>4, <1>5, <1>6, <1>7, <1>13 DEF k, n, old, new

(* The rows of a rotation, field by field. *)
LEMMA RotatedRows ==
    ASSUME Types, RotationsOK, NEW r \in Requests, CommitRotation(r)
    PROVE  /\ token'[req[r].key] # None
           /\ token'[req[r].key].code = token[req[r].key].code
           /\ token'[req[r].key].used = TRUE
           /\ token'[req[r].next] # None
           /\ token'[req[r].next].family = token[req[r].key].family
           /\ token'[req[r].next].code = token[req[r].key].code
           /\ token'[req[r].next].user = token[req[r].key].user
           /\ token'[req[r].next].client = token[req[r].key].client
           /\ token'[req[r].next].used = FALSE
           /\ token'[req[r].next].revoked = FALSE
<1>1. PICK x, y, z : /\ x = token[req[r].key]
                     /\ y = token'[req[r].key]
                     /\ z = token'[req[r].next]
  OBVIOUS
<1>2. /\ x \in TokenRows /\ y = [x EXCEPT !.used = TRUE]
      /\ z = [x EXCEPT !.used = FALSE, !.revoked = FALSE]
  BY <1>1, Rotation
<1>3. y # None /\ y.code = x.code /\ y.used = TRUE
  BY <1>2, UsedRow
<1>4. /\ z # None /\ z.family = x.family /\ z.code = x.code
      /\ z.user = x.user /\ z.client = x.client
      /\ z.used = FALSE /\ z.revoked = FALSE
  BY <1>2, SuccessorRow
<1> QED BY <1>1, <1>3, <1>4

LEMMA TokensGrow ==
    ASSUME FamilyInv, NEW r \in Requests, Act(r), NEW n \in Tokens, token[n] # None
    PROVE  /\ token'[n] # None
           /\ token'[n].family = token[n].family
           /\ token'[n].code = token[n].code
           /\ token'[n].user = token[n].user
           /\ token'[n].client = token[n].client
           /\ token[n].used => token'[n].used
           /\ token[n].revoked => token'[n].revoked
<1>1. token[n] \in TokenRows
  BY DEF FamilyInv, Types, TypeOK
<1>2. CASE CreateRefresh(r)
  <2>1. CASE req[r].next = None
    BY <1>2, <2>1 DEF CreateRefresh
  <2>2. CASE req[r].next # None
    BY <1>2, <2>2, Creation DEF FamilyInv, Types, TypeOK
  <2> QED BY <2>1, <2>2
<1>3. CASE CommitRotation(r)
  <2>1. token'[n] = token[n] \/ token'[n] = [token[n] EXCEPT !.used = TRUE]
    BY <1>3, Rotation DEF FamilyInv
  <2> QED BY <1>1, <2>1, UsedRow
<1>4. CASE Commit(r)
  <2>1. token'[n] = token[n] \/ token'[n] = [token[n] EXCEPT !.revoked = TRUE]
    BY <1>4 DEF Commit
  <2> QED BY <1>1, <2>1, RevokedRow
<1> QED BY <1>2, <1>3, <1>4, TokensChange

(* A step takes free locks for its own request and gives its own away.      *)
Moved(lock, next, r) ==
    \A x \in DOMAIN lock :
      /\ next[x] \in {lock[x], r, None}
      /\ lock[x] \notin {None, r} => next[x] = lock[x]

LocksMoved(r) ==
    /\ Moved(accountLock, accountLock', r)
    /\ Moved(tokenLock, tokenLock', r)

LEMMA ReleaseMoves ==
    ASSUME TypeOK, NEW r \in Requests, ReleaseLocks(r)
    PROVE  /\ LocksMoved(r)
           /\ \A n \in Tokens : tokenLock'[n] # r
           /\ \A n \in Tokens : tokenLock'[n] \in {tokenLock[n], None}
  BY ConstantsAssumption DEF TypeOK, ReleaseLocks, Freed, LocksMoved, Moved

LEMMA LocksMove ==
    ASSUME Types, NEW r \in Requests, Act(r)
    PROVE  LocksMoved(r)
<1> USE DEF Types
<1>1. CASE UNCHANGED <<accountLock, tokenLock>>
  BY <1>1 DEF LocksMoved, Moved
<1>2. CASE ReleaseLocks(r)
  BY <1>2, ReleaseMoves
<1>3. CASE PresentToken(r)
  <2>1. CASE UNCHANGED accountLock /\ tokenLock' = [tokenLock EXCEPT ![req[r].key] = r]
    <3>1. Others(r, tokenLock[req[r].key]) = {}
      BY <1>3 DEF PresentToken, At, BlockedBy
    <3> QED BY <2>1, <3>1 DEF LocksMoved, Moved, Others, TypeOK
  <2> QED BY <1>2, <1>3, <2>1 DEF PresentToken, End
<1>4. CASE LockAccount(r)
  <2>1. CASE UNCHANGED tokenLock /\ accountLock' = [accountLock EXCEPT ![req[r].user] = r]
    <3>1. Others(r, accountLock[req[r].user]) = {}
      BY <1>4 DEF LockAccount, At, BlockedBy
    <3> QED BY <2>1, <3>1 DEF LocksMoved, Moved, Others, TypeOK
  <2> QED BY <1>2, <1>4, <2>1 DEF LockAccount, End
<1>5. CASE RevokeToken(r)
  <2>1. PICK n : /\ Others(r, tokenLock[n]) = {}
                 /\ tokenLock' = [tokenLock EXCEPT ![n] = r]
                 /\ UNCHANGED accountLock
    BY <1>5 DEF RevokeToken
  <2> QED BY <2>1 DEF LocksMoved, Moved, Others, TypeOK
<1>6. CASE Begin(r) \/ BeginToken(r) \/ Fail(r) \/ DeadlockAbort(r)
  BY <1>1, <1>2, <1>6 DEF Begin, BeginToken, Fail, DeadlockAbort, End, locks
<1>7. CASE CheckAccount(r) \/ CheckAccess(r) \/ CreateAuthorizationCode(r)
           \/ ConsumeAuthorizationCode(r) \/ CreateRefresh(r) \/ RotateToken(r)
           \/ CommitRotation(r) \/ Reply(r) \/ DeleteAccess(r) \/ ScanTokens(r)
  BY <1>1, <1>2, <1>7
     DEF CheckAccount, CheckAccess, CreateAuthorizationCode, ConsumeAuthorizationCode,
         CreateRefresh, RotateToken, CommitRotation, Reply, DeleteAccess, ScanTokens,
         End, locks
<1>8. CASE TokensRevoked(r) \/ DeleteCodes(r) \/ ScanAccess(r) \/ WipeAccess(r)
           \/ AccessWiped(r) \/ Commit(r) \/ InsertAccess(r)
  BY <1>1, <1>2, <1>8
     DEF TokensRevoked, DeleteCodes, ScanAccess, WipeAccess, AccessWiped, Commit,
         InsertAccess, End, locks
<1> QED BY <1>3, <1>4, <1>5, <1>6, <1>7, <1>8 DEF Act, Step

(* Each action is the statement its request is at.                          *)
LEMMA Statement ==
    ASSUME NEW r \in Requests
    PROVE  /\ CheckAccount(r) => req[r].pc = "checkAccount"
           /\ CheckAccess(r) => req[r].pc = "checkAccess"
           /\ CreateAuthorizationCode(r) => req[r].pc = "code"
           /\ ConsumeAuthorizationCode(r) => req[r].pc = "consume"
           /\ CreateRefresh(r) => req[r].pc = "create"
           /\ PresentToken(r) => req[r].pc = "present"
           /\ RotateToken(r) => req[r].pc = "rotate"
           /\ CommitRotation(r) => req[r].pc = "commitRotation"
           /\ Reply(r) => req[r].pc = "reply"
           /\ LockAccount(r) => req[r].pc = "account"
           /\ DeleteAccess(r) => req[r].pc = "delete"
           /\ ScanTokens(r) => req[r].pc = "scan"
           /\ RevokeToken(r) \/ TokensRevoked(r) => req[r].pc = "revoke"
           /\ DeleteCodes(r) => req[r].pc = "codes"
           /\ ScanAccess(r) => req[r].pc = "scanAccess"
           /\ WipeAccess(r) \/ AccessWiped(r) => req[r].pc = "wipe"
           /\ Commit(r) => req[r].pc = "commit"
           /\ InsertAccess(r) => req[r].pc = "grant"
  BY DEF CheckAccount, CheckAccess, CreateAuthorizationCode, ConsumeAuthorizationCode,
         CreateRefresh, PresentToken, RotateToken, CommitRotation, Reply, LockAccount,
         DeleteAccess, ScanTokens, RevokeToken, TokensRevoked, DeleteCodes, ScanAccess,
         WipeAccess, AccessWiped, Commit, InsertAccess, At

(* The statements of an operation in their order.                           *)
Follows(op, a, b) ==
    \/ a = "checkAccount" /\ op = "GrantAccess" /\ b = "grant"
    \/ a = "checkAccount" /\ op # "GrantAccess" /\ b = "checkAccess"
    \/ a = "checkAccess" /\ op = "Authorize" /\ b = "code"
    \/ a = "checkAccess" /\ op = "Exchange" /\ b = "create"
    \/ a = "checkAccess" /\ op \notin {"Authorize", "Exchange"} /\ b = "reply"
    \/ a = "consume" /\ b = "checkAccount"
    \/ a = "create" /\ b = "reply"
    \/ a = "present" /\ b \in {"scan", "rotate"}
    \/ a = "rotate" /\ b = "commitRotation"
    \/ a = "commitRotation" /\ b = "checkAccount"
    \/ a = "account" /\ op = "ActivateAccount" /\ b = "commit"
    \/ a = "account" /\ op # "ActivateAccount" /\ b = "scan"
    \/ a = "delete" /\ b = "scan"
    \/ a = "scan" /\ b = "revoke"
    \/ a = "revoke" /\ b = "revoke"
    \/ a = "revoke" /\ op \in {"Refresh", "RevokeAccess"} /\ b = "commit"
    \/ a = "revoke" /\ op \notin {"Refresh", "RevokeAccess"} /\ b = "codes"
    \/ a = "codes" /\ op = "DisableAccount" /\ b = "scanAccess"
    \/ a = "codes" /\ op # "DisableAccount" /\ b = "commit"
    \/ a = "scanAccess" /\ b = "wipe"
    \/ a = "wipe" /\ b \in {"wipe", "commit"}

LEMMA FollowsStays ==
    ASSUME NEW op \in AllOps, NEW a \in StatementsOf(op), NEW b, Follows(op, a, b)
    PROVE  b \in StatementsOf(op) /\ b \in Statements \ {"idle"}
  BY DEF AllOps, StatementsOf, Follows, Statements

(* The request goes on: it has reached a statement that follows, with what   *)
(* it was called with.                                                     *)
GoesOn(r) ==
    /\ Follows(req[r].op, req[r].pc, req'[r].pc)
    /\ \E pc \in Statements, S \in SUBSET (Tokens \cup Rows) :
         req' = [req EXCEPT ![r] = [req[r] EXCEPT !.pc = pc, !.todo = S]]

LEMMA GoToGoesOn ==
    ASSUME Types, NEW r \in Requests, NEW pc \in Statements, GoTo(r, pc),
           Follows(req[r].op, req[r].pc, pc)
    PROVE  GoesOn(r)
<1>1. req[r] \in ReqState
  BY DEF Types, TypeOK
<1>2. req' = [req EXCEPT ![r] = [req[r] EXCEPT !.pc = pc]]
  BY DEF GoTo
<1>3. [req[r] EXCEPT !.pc = pc] = [req[r] EXCEPT !.pc = pc, !.todo = req[r].todo]
  BY <1>1 DEF ReqState
<1>4. req'[r].pc = pc
  BY <1>1, <1>2 DEF Types, TypeOK, ReqState
<1>5. req[r].todo \in SUBSET (Tokens \cup Rows)
  BY <1>1 DEF ReqState
<1> QED BY <1>2, <1>3, <1>4, <1>5 DEF GoesOn

LEMMA StepGoesOn ==
    ASSUME Types, NEW r \in Requests, Step(r)
    PROVE  GoesOn(r) \/ End(r)
<1> USE DEF Follows, Statements
<1>1. CASE CheckAccount(r)
  <2>1. PICK pc \in {"grant", "checkAccess"} :
          End(r) \/ (GoTo(r, pc) /\ Follows(req[r].op, req[r].pc, pc))
    BY <1>1, Statement DEF CheckAccount
  <2> QED BY <2>1, GoToGoesOn
<1>2. CASE CheckAccess(r)
  <2>1. PICK pc \in {"code", "create", "reply"} :
          End(r) \/ (GoTo(r, pc) /\ Follows(req[r].op, req[r].pc, pc))
    BY <1>2, Statement DEF CheckAccess
  <2> QED BY <2>1, GoToGoesOn
<1>3. CASE CreateAuthorizationCode(r) \/ Reply(r) \/ Commit(r) \/ InsertAccess(r)
  BY <1>3 DEF CreateAuthorizationCode, Reply, Commit, InsertAccess
<1>4. CASE ConsumeAuthorizationCode(r)
  BY <1>4, Statement, GoToGoesOn DEF ConsumeAuthorizationCode
<1>5. CASE CreateRefresh(r)
  BY <1>5, Statement, GoToGoesOn DEF CreateRefresh
<1>6. CASE PresentToken(r)
  BY <1>6, Statement, GoToGoesOn DEF PresentToken
<1>7. CASE RotateToken(r)
  BY <1>7, Statement, GoToGoesOn DEF RotateToken
<1>8. CASE CommitRotation(r)
  BY <1>8, Statement, GoToGoesOn DEF CommitRotation
<1>9. CASE LockAccount(r)
  <2>1. PICK pc \in {"scan", "commit"} :
          End(r) \/ (GoTo(r, pc) /\ Follows(req[r].op, req[r].pc, pc))
    BY <1>9, Statement DEF LockAccount
  <2> QED BY <2>1, GoToGoesOn
<1>10. CASE DeleteAccess(r)
  BY <1>10, Statement, GoToGoesOn DEF DeleteAccess
<1>11. CASE ScanTokens(r)
  <2>1. req' = [req EXCEPT ![r].pc = "revoke",
                           ![r].todo = {n \in Tokens : Revokes(r, n) /\ ~token[n].revoked}]
    BY <1>11 DEF ScanTokens
  <2> DEFINE S == {n \in Tokens : Revokes(r, n) /\ ~token[n].revoked}
  <2>2. S \in SUBSET (Tokens \cup Rows)
    OBVIOUS
  <2>3. req' = [req EXCEPT ![r] = [req[r] EXCEPT !.pc = "revoke", !.todo = S]]
    BY <2>1 DEF Types, TypeOK
  <2> HIDE DEF S
  <2>4. req'[r].pc = "revoke"
    BY <2>3 DEF Types, TypeOK, ReqState
  <2> QED BY <1>11, <2>2, <2>3, <2>4, Statement DEF GoesOn
<1>12. CASE RevokeToken(r)
  <2>1. PICK n \in req[r].todo : req' = [req EXCEPT ![r].todo = @ \ {n}]
    BY <1>12 DEF RevokeToken
  <2> DEFINE S == req[r].todo \ {n}
  <2>2. S \in SUBSET (Tokens \cup Rows) /\ req[r] = [req[r] EXCEPT !.pc = "revoke"]
    BY <1>12, Statement DEF Types, TypeOK, ReqState
  <2>3. req' = [req EXCEPT ![r] = [req[r] EXCEPT !.pc = "revoke", !.todo = S]]
    BY <2>1, <2>2 DEF Types, TypeOK, ReqState
  <2> HIDE DEF S
  <2>4. req'[r].pc = "revoke"
    BY <2>3 DEF Types, TypeOK, ReqState
  <2> QED BY <1>12, <2>2, <2>3, <2>4, Statement DEF GoesOn
<1>13. CASE TokensRevoked(r)
  <2>1. PICK pc \in {"codes", "commit"} :
          GoTo(r, pc) /\ Follows(req[r].op, req[r].pc, pc)
    BY <1>13, Statement DEF TokensRevoked
  <2> QED BY <2>1, GoToGoesOn
<1>14. CASE DeleteCodes(r)
  <2>1. PICK pc \in {"scanAccess", "commit"} :
          GoTo(r, pc) /\ Follows(req[r].op, req[r].pc, pc)
    BY <1>14, Statement DEF DeleteCodes
  <2> QED BY <2>1, GoToGoesOn
<1>15. CASE ScanAccess(r)
  <2> DEFINE S == {x \in access : x[1] = req[r].user}
  <2>1. req' = [req EXCEPT ![r].pc = "wipe", ![r].todo = S]
    BY <1>15 DEF ScanAccess
  <2>2. S \in SUBSET (Tokens \cup Rows)
    BY DEF Types, TypeOK
  <2> HIDE DEF S
  <2>3. req' = [req EXCEPT ![r] = [req[r] EXCEPT !.pc = "wipe", !.todo = S]]
    BY <2>1 DEF Types, TypeOK
  <2>4. req'[r].pc = "wipe"
    BY <2>3 DEF Types, TypeOK, ReqState
  <2> QED BY <1>15, <2>2, <2>3, <2>4, Statement DEF GoesOn
<1>16. CASE WipeAccess(r)
  <2>1. PICK n \in req[r].todo : req' = [req EXCEPT ![r].todo = @ \ {n}]
    BY <1>16 DEF WipeAccess
  <2> DEFINE S == req[r].todo \ {n}
  <2>2. S \in SUBSET (Tokens \cup Rows) /\ req[r] = [req[r] EXCEPT !.pc = "wipe"]
    BY <1>16, Statement DEF Types, TypeOK, ReqState
  <2>3. req' = [req EXCEPT ![r] = [req[r] EXCEPT !.pc = "wipe", !.todo = S]]
    BY <2>1, <2>2 DEF Types, TypeOK, ReqState
  <2> HIDE DEF S
  <2>4. req'[r].pc = "wipe"
    BY <2>3 DEF Types, TypeOK, ReqState
  <2> QED BY <1>16, <2>2, <2>3, <2>4, Statement DEF GoesOn
<1>17. CASE AccessWiped(r)
  BY <1>17, Statement, GoToGoesOn DEF AccessWiped
<1> QED BY <1>1, <1>2, <1>3, <1>4, <1>5, <1>6, <1>7, <1>8, <1>9, <1>10, <1>11,
           <1>12, <1>13, <1>14, <1>15, <1>16, <1>17 DEF Step

(* What a new request is.                                                   *)
Starting(q) ==
    /\ Running(q)
    /\ q.pc \in {"checkAccount", "delete", "account", "consume", "present"}
    /\ q.op = "Exchange" <=> q.pc = "consume"
    /\ q.op = "Refresh" <=> q.pc = "present"
    /\ q.op = "Exchange" => q.user = code[q.code].user
    /\ q.op \notin {"Exchange", "Refresh"} => q.next = None
    /\ q.next # None => q.next \in UnusedTokens

LEMMA Beginning ==
    ASSUME Types, NEW r \in Requests, Begin(r) \/ BeginToken(r)
    PROVE  \E q \in ReqState :
             req' = [req EXCEPT ![r] = q] /\ Starting(q)
<1>1. CASE Begin(r)
  <2>1. PICK op \in Ops \ {"Exchange", "Refresh"}, u \in Users, c \in Clients :
          req' = [req EXCEPT ![r] = Started(op, u, c)]
    BY <1>1 DEF Begin
  <2> DEFINE q == Started(op, u, c)
  <2>2. op \in AllOps
    BY ConstantsAssumption
  <2>3. FirstStatement(op) \in StatementsOf(op) \cap {"checkAccount", "delete", "account"}
    BY <2>1, <2>2 DEF FirstStatement, StatementsOf, AllOps
  <2>4. q \in ReqState
    BY <2>2, <2>3 DEF Started, Idle, ReqState, Statements
  <2>5. /\ q.op = op /\ q.pc = FirstStatement(op) /\ q.user = u /\ q.client = c
        /\ q.next = None
    BY DEF Started, Idle
  <2> HIDE DEF q
  <2>6. Running(q)
    BY <2>1, <2>2, <2>3, <2>5 DEF Running
  <2>7. Starting(q)
    BY <2>1, <2>3, <2>5, <2>6 DEF Starting
  <2>8. req' = [req EXCEPT ![r] = q]
    BY <2>1 DEF q
  <2> QED BY <2>4, <2>7, <2>8
<1>2. CASE BeginToken(r)
  <2>1. PICK c \in Clients, n \in NewToken :
          \/ \E k \in Codes :
               /\ code[k] # None
               /\ req' = [req EXCEPT ![r] =
                            [op |-> "Exchange", pc |-> "consume",
                             user |-> code[k].user, client |-> c,
                             code |-> k, key |-> None, next |-> n,
                             late |-> FALSE, todo |-> {}]]
          \/ \E k \in delivered :
               req' = [req EXCEPT ![r] =
                         [op |-> "Refresh", pc |-> "present",
                          user |-> token[k].user, client |-> c,
                          code |-> None, key |-> k, next |-> n,
                          late |-> token[k].family \in expired, todo |-> {}]]
    BY <1>2 DEF BeginToken
  <2>2. n \in Tokens \cup {None} /\ (n # None => n \in UnusedTokens)
    BY DEF NewToken, UnusedTokens
  <2>3. ASSUME NEW k \in Codes, code[k] # None,
               req' = [req EXCEPT ![r] =
                            [op |-> "Exchange", pc |-> "consume",
                             user |-> code[k].user, client |-> c,
                             code |-> k, key |-> None, next |-> n,
                             late |-> FALSE, todo |-> {}]]
        PROVE  \E q \in ReqState :
             req' = [req EXCEPT ![r] = q] /\ Starting(q)
    <3> DEFINE q == [op |-> "Exchange", pc |-> "consume", user |-> code[k].user,
                     client |-> c, code |-> k, key |-> None, next |-> n,
                     late |-> FALSE, todo |-> {}]
    <3>1. code[k].user \in Users
      BY <2>3 DEF Types, TypeOK, CodeRows
    <3>2. q \in ReqState
      BY <2>2, <3>1 DEF ReqState, Statements, AllOps
    <3>3. req' = [req EXCEPT ![r] = q]
      BY <2>3
    <3>4. Running(q)
      BY <2>3, <3>1 DEF Running, StatementsOf, AllOps
    <3> QED BY <2>2, <3>2, <3>3, <3>4 DEF Starting
  <2>4. ASSUME NEW k \in delivered,
               req' = [req EXCEPT ![r] =
                         [op |-> "Refresh", pc |-> "present",
                          user |-> token[k].user, client |-> c,
                          code |-> None, key |-> k, next |-> n,
                          late |-> token[k].family \in expired, todo |-> {}]]
        PROVE  \E q \in ReqState :
             req' = [req EXCEPT ![r] = q] /\ Starting(q)
    <3> DEFINE q == [op |-> "Refresh", pc |-> "present", user |-> token[k].user,
                     client |-> c, code |-> None, key |-> k, next |-> n,
                     late |-> token[k].family \in expired, todo |-> {}]
    <3>1. k \in Tokens /\ token[k] # None /\ token[k].user \in Users
      BY DEF Types, TypeOK, RowsOK, TokenRows
    <3>2. (token[k].family \in expired) \in BOOLEAN
      OBVIOUS
    <3>3. q \in ReqState
      BY <2>2, <3>1, <3>2 DEF ReqState, Statements, AllOps
    <3>4. req' = [req EXCEPT ![r] = q]
      BY <2>4
    <3>5. Running(q)
      BY <3>1 DEF Running, StatementsOf, AllOps
    <3> QED BY <2>2, <3>3, <3>4, <3>5 DEF Starting
  <2> QED BY <2>1, <2>3, <2>4
<1> QED BY <1>1, <1>2

(* The requests after a step of r.                                          *)
LEMMA RequestsMove ==
    ASSUME Types, NEW r \in Requests, Act(r)
    PROVE  /\ req' \in [Requests -> ReqState]
           /\ \A s \in Requests \ {r} : req'[s] = req[s]
           /\ \/ req'[r] = Idle
              \/ Begin(r) \/ BeginToken(r)
              \/ /\ Step(r) /\ Running(req[r])
                 /\ Follows(req[r].op, req[r].pc, req'[r].pc)
                 /\ req'[r].pc \in StatementsOf(req[r].op)
                 /\ req'[r].op = req[r].op /\ req'[r].user = req[r].user
                 /\ req'[r].client = req[r].client /\ req'[r].code = req[r].code
                 /\ req'[r].key = req[r].key /\ req'[r].next = req[r].next
<1>0. req \in [Requests -> ReqState]
  BY DEF Types, TypeOK
<1>1. CASE End(r)
  BY <1>0, <1>1, IdleType DEF End
<1>2. CASE Begin(r) \/ BeginToken(r)
  BY <1>0, <1>2, Beginning
<1>3. CASE Step(r) /\ GoesOn(r)
  <2>1. PICK pc \in Statements, S \in SUBSET (Tokens \cup Rows) :
          req' = [req EXCEPT ![r] = [req[r] EXCEPT !.pc = pc, !.todo = S]]
    BY <1>3 DEF GoesOn
  <2> DEFINE q == [req[r] EXCEPT !.pc = pc, !.todo = S]
  <2>2. /\ q \in ReqState
        /\ q.op = req[r].op /\ q.user = req[r].user
        /\ q.client = req[r].client /\ q.code = req[r].code
        /\ q.key = req[r].key /\ q.next = req[r].next
    BY <1>0 DEF ReqState
  <2> HIDE DEF q
  <2>3. /\ req' \in [Requests -> ReqState] /\ req'[r] = q
        /\ \A s \in Requests \ {r} : req'[s] = req[s]
    BY <1>0, <2>1, <2>2 DEF q
  <2>4. req[r].pc # "idle"
    BY <1>3 DEF GoesOn, Follows
  <2>5. Running(req[r])
    BY <2>4, AtStatement DEF Types
  <2>6. Follows(req[r].op, req[r].pc, req'[r].pc)
    BY <1>3 DEF GoesOn
  <2>7. req'[r].pc \in StatementsOf(req[r].op)
    BY <2>5, <2>6, FollowsStays DEF Running
  <2> QED BY <1>3, <2>2, <2>3, <2>5, <2>6, <2>7
<1> QED BY <1>1, <1>2, <1>3, StepGoesOn DEF Act, Fail, DeadlockAbort

-----------------------------------------------------------------------------
(***************************************************************************)
(* Types.                                                                  *)
(***************************************************************************)
LEMMA TokenType ==
    ASSUME FamilyInv, NEW r \in Requests, Act(r)
    PROVE  token' \in [Tokens -> TokenRows \cup {None}]
<1>0. token \in [Tokens -> TokenRows \cup {None}]
  BY DEF FamilyInv, Types, TypeOK
<1>1. CASE CreateRefresh(r)
  <2>1. CASE req[r].next = None
    BY <1>0, <1>1, <2>1 DEF CreateRefresh
  <2>2. CASE req[r].next # None
    <3> DEFINE row == [family |-> req[r].next, code |-> req[r].code,
                       user |-> req[r].user, client |-> req[r].client,
                       used |-> FALSE, revoked |-> FALSE]
    <3>1. /\ req[r].next \in Tokens
          /\ token' = [token EXCEPT ![req[r].next] = row]
          /\ token'[req[r].next] \in TokenRows
      BY <1>1, <2>2, Creation DEF FamilyInv
    <3> HIDE DEF row
    <3> QED BY <1>0, <3>1
  <2> QED BY <2>1, <2>2
<1>2. CASE CommitRotation(r)
  BY <1>2, Rotation DEF FamilyInv
<1>3. CASE Commit(r)
  <2>1. token' = [n \in Tokens |-> IF tokenLock[n] = r
                                   THEN [token[n] EXCEPT !.revoked = TRUE]
                                   ELSE token[n]]
    BY <1>3 DEF Commit
  <2>2. ASSUME NEW n \in Tokens, tokenLock[n] = r
        PROVE  [token[n] EXCEPT !.revoked = TRUE] \in TokenRows
    <3>1. token[n] \in TokenRows
      BY <1>0, <2>2, ConstantsAssumption DEF FamilyInv, Types, RowsOK
    <3> QED BY <3>1, RevokedRow
  <2> QED BY <1>0, <2>1, <2>2
<1> QED BY <1>0, <1>1, <1>2, <1>3, TokensChange

LEMMA CodeType ==
    ASSUME Types, NEW r \in Requests, Act(r)
    PROVE  code' \in [Codes -> CodeRows \cup {None}]
<1>0. code \in [Codes -> CodeRows \cup {None}]
  BY DEF Types, TypeOK
<1>1. CASE CreateAuthorizationCode(r)
  <2>1. Running(req[r])
    BY <1>1, Statement, AtStatement DEF Types
  <2>2. [user |-> req[r].user, client |-> req[r].client, state |-> "fresh"] \in CodeRows
    BY <2>1 DEF Running, CodeRows
  <2> QED BY <1>0, <1>1, <2>2 DEF CreateAuthorizationCode
<1>2. CASE ConsumeAuthorizationCode(r)
  <2>1. CASE UNCHANGED code
    BY <1>0, <2>1
  <2>2. CASE code' = [code EXCEPT ![req[r].code].state = "used"]
    <3>1. Running(req[r])
      BY <1>2, Statement, AtStatement DEF Types
    <3>2. req[r].code \in Codes /\ code[req[r].code] # None
      BY <1>2, <3>1, Statement DEF Running, StatementsOf, AllOps
    <3>3. [code[req[r].code] EXCEPT !.state = "used"] \in CodeRows
      BY <1>0, <3>2 DEF CodeRows
    <3> QED BY <1>0, <2>2, <3>2, <3>3
  <2> QED BY <1>2, <2>1, <2>2 DEF ConsumeAuthorizationCode
<1>3. CASE Commit(r)
  <2>1. code' = [k \in Codes |-> IF codeLock[k] = r
                                 THEN [code[k] EXCEPT !.state = "deleted"]
                                 ELSE code[k]]
    BY <1>3 DEF Commit
  <2>2. ASSUME NEW k \in Codes, codeLock[k] = r
        PROVE  [code[k] EXCEPT !.state = "deleted"] \in CodeRows
    <3>1. code[k] \in CodeRows
      BY <1>0, <2>2, ConstantsAssumption DEF Types, RowsOK
    <3> QED BY <3>1 DEF CodeRows
  <2> QED BY <1>0, <2>1, <2>2
<1> QED BY <1>0, <1>1, <1>2, <1>3, CodesChange

LEMMA OtherTables ==
    ASSUME Types, NEW r \in Requests, Act(r)
    PROVE  /\ status' \in [Users -> {"active", "disabled"}]
           /\ access' \in SUBSET Rows
           /\ expired' = expired
           /\ delivered' = delivered \/ (Reply(r) /\ delivered' = delivered \cup {req[r].next})
<1>0. status \in [Users -> {"active", "disabled"}] /\ access \in SUBSET Rows
  BY DEF Types, TypeOK
<1>1. CASE Commit(r)
  <2>1. req[r].user \in Users
    BY <1>1, Statement, AtStatement DEF Types, Running
  <2>2. StatusAfter(r) \in {"active", "disabled"}
    BY <1>0, <2>1 DEF StatusAfter
  <2> QED BY <1>0, <1>1, <2>2 DEF Commit
<1>2. CASE InsertAccess(r)
  <2>1. req[r].user \in Users /\ req[r].client \in Clients
    BY <1>2, Statement, AtStatement DEF Types, Running
  <2>2. RowOf(r) \in Rows
    BY <2>1, ConstantsAssumption DEF RowOf, Rows
  <2> QED BY <1>0, <1>2, <2>2 DEF InsertAccess
<1>3. CASE Reply(r)
  BY <1>0, <1>3 DEF Reply
<1>4. CASE UNCHANGED <<status, access, expired, delivered>>
  BY <1>0, <1>4
<1>5. CASE Begin(r) \/ BeginToken(r) \/ Fail(r) \/ DeadlockAbort(r)
  BY <1>4, <1>5 DEF Begin, BeginToken, Fail, DeadlockAbort, tables
<1>6. Step(r) => \/ Commit(r) \/ InsertAccess(r) \/ Reply(r)
                 \/ UNCHANGED <<status, access, expired, delivered>>
  BY DEF Step, CheckAccount, CheckAccess, CreateAuthorizationCode,
         ConsumeAuthorizationCode, CreateRefresh, PresentToken, RotateToken,
         CommitRotation, LockAccount, DeleteAccess, ScanTokens, RevokeToken,
         TokensRevoked, DeleteCodes, ScanAccess, WipeAccess, AccessWiped, tables
<1> QED BY <1>1, <1>2, <1>3, <1>4, <1>5, <1>6 DEF Act

LEMMA LockTypes ==
    ASSUME Types, NEW r \in Requests, Act(r)
    PROVE  /\ accountLock' \in [Users -> Requests \cup {None}]
           /\ accessLock' \in [Rows -> Requests \cup {None}]
           /\ codeLock' \in [Codes -> Requests \cup {None}]
           /\ tokenLock' \in [Tokens -> Requests \cup {None}]
<1>0. /\ accountLock \in [Users -> Requests \cup {None}]
      /\ accessLock \in [Rows -> Requests \cup {None}]
      /\ codeLock \in [Codes -> Requests \cup {None}]
      /\ tokenLock \in [Tokens -> Requests \cup {None}]
  BY DEF Types, TypeOK
<1>1. CASE UNCHANGED locks
  BY <1>0, <1>1 DEF locks
<1>2. CASE ReleaseLocks(r)
  BY <1>0, <1>2 DEF ReleaseLocks, Freed
<1>3. CASE PresentToken(r)
  BY <1>0, <1>2, <1>3 DEF PresentToken, End
<1>4. CASE LockAccount(r)
  <2>1. CASE End(r)
    BY <1>2, <2>1 DEF End
  <2>2. CASE ~End(r)
    BY <1>0, <1>4, <2>2 DEF LockAccount
  <2> QED BY <2>1, <2>2
<1>5. CASE DeleteAccess(r)
  BY <1>0, <1>2, <1>5 DEF DeleteAccess, End
<1>6. CASE RevokeToken(r)
  BY <1>0, <1>6 DEF RevokeToken
<1>7. CASE DeleteCodes(r)
  BY <1>0, <1>7 DEF DeleteCodes
<1>8. CASE WipeAccess(r)
  BY <1>0, <1>8 DEF WipeAccess
<1>9. CASE Begin(r) \/ BeginToken(r) \/ Fail(r) \/ DeadlockAbort(r)
  BY <1>1, <1>2, <1>9 DEF Begin, BeginToken, Fail, DeadlockAbort, End
<1>10. CASE CheckAccount(r) \/ CheckAccess(r) \/ CreateAuthorizationCode(r)
            \/ ConsumeAuthorizationCode(r) \/ CreateRefresh(r) \/ RotateToken(r)
            \/ CommitRotation(r) \/ Reply(r) \/ ScanTokens(r) \/ TokensRevoked(r)
            \/ ScanAccess(r) \/ AccessWiped(r) \/ Commit(r) \/ InsertAccess(r)
  BY <1>1, <1>2, <1>10
     DEF CheckAccount, CheckAccess, CreateAuthorizationCode, ConsumeAuthorizationCode,
         CreateRefresh, RotateToken, CommitRotation, Reply, ScanTokens, TokensRevoked,
         ScanAccess, AccessWiped, Commit, InsertAccess, End, locks
<1> QED BY <1>3, <1>4, <1>5, <1>6, <1>7, <1>8, <1>9, <1>10 DEF Act, Step

LEMMA TypeStep ==
    ASSUME FamilyInv, NEW r \in Requests, Act(r)
    PROVE  TypeOK'
<1>1. delivered' \in SUBSET Tokens
  <2>1. CASE Reply(r) /\ delivered' = delivered \cup {req[r].next}
    <3>1. Running(req[r]) /\ req[r].pc = "reply" /\ req[r] \in ReqState
      BY <2>1, Statement, AtStatement DEF FamilyInv, Types, TypeOK
    <3>2. req[r].op \in {"Exchange", "Refresh"} /\ ~Pending(req[r])
      BY <3>1 DEF Running, StatementsOf, AllOps, Pending
    <3> QED BY <2>1, <3>1, <3>2 DEF ReqState, FamilyInv, Types, TypeOK, SuccessorsOK
  <2> QED BY <2>1, OtherTables DEF FamilyInv, Types, TypeOK
<1>2. expired' \in SUBSET Tokens
  BY OtherTables DEF FamilyInv, Types, TypeOK
<1> QED BY <1>1, <1>2, TokenType, CodeType, OtherTables, LockTypes, RequestsMove
        DEF FamilyInv, TypeOK

LEMMA RequestsStep ==
    ASSUME FamilyInv, NEW r \in Requests, Act(r)
    PROVE  RequestsOK'
<1> SUFFICES ASSUME NEW s \in Requests
             PROVE  req'[s] = Idle \/ Running(req[s])'
  BY DEF RequestsOK, Idle
<1>1. ASSUME NEW q, Running(q)
      PROVE  /\ q.op = "Exchange" => q.code \in Codes /\ code'[q.code] # None
             /\ q.op = "Refresh" => /\ q.key \in Tokens
                                    /\ token'[q.key] # None
                                    /\ token'[q.key].user = q.user
  <2>1. CASE q.op = "Exchange"
    BY <1>1, <2>1, CodesGrow DEF Running, FamilyInv
  <2>2. CASE q.op = "Refresh"
    BY <1>1, <2>2, TokensGrow DEF Running
  <2> QED BY <2>1, <2>2
<1>2. ASSUME NEW q, Running(q), req'[s] = q PROVE Running(req[s])'
  BY <1>1, <1>2 DEF Running
<1>3. CASE s # r
  BY <1>2, <1>3, RequestsMove DEF FamilyInv, Types, RequestsOK
<1>4. CASE s = r
  <2>1. CASE Begin(r) \/ BeginToken(r)
    <3>1. PICK q \in ReqState : req' = [req EXCEPT ![r] = q] /\ Starting(q)
      BY <2>1, Beginning DEF FamilyInv
    <3> QED BY <1>2, <1>4, <3>1 DEF Starting, FamilyInv, Types, TypeOK
  <2>2. CASE Running(req[r]) /\ req'[r].pc \in StatementsOf(req[r].op)
                 /\ req'[r].op = req[r].op /\ req'[r].user = req[r].user
                 /\ req'[r].client = req[r].client /\ req'[r].code = req[r].code
                 /\ req'[r].key = req[r].key /\ req'[r].next = req[r].next
    BY <1>1, <1>4, <2>2 DEF Running
  <2> QED BY <1>4, <2>1, <2>2, RequestsMove DEF FamilyInv
<1> QED BY <1>3, <1>4

(* A lock is taken on a row that exists.                                    *)
LEMMA LocksOnRows ==
    ASSUME FamilyInv, NEW r \in Requests, Act(r)
    PROVE  /\ \A n \in Tokens : tokenLock'[n] # None => token[n] # None
           /\ \A k \in Codes : codeLock'[k] # None => code[k] # None
<1> USE DEF FamilyInv, Types
<1>1. CASE UNCHANGED <<codeLock, tokenLock>>
  BY <1>1 DEF RowsOK
<1>2. CASE ReleaseLocks(r)
  BY <1>2 DEF ReleaseLocks, Freed, RowsOK, TypeOK
<1>3. CASE PresentToken(r)
  <2>1. CASE UNCHANGED codeLock /\ tokenLock' = [tokenLock EXCEPT ![req[r].key] = r]
    <3>1. Running(req[r])
      BY <1>3, Statement, AtStatement
    <3>2. req[r].key \in Tokens /\ token[req[r].key] # None
      BY <1>3, <3>1, Statement DEF Running, StatementsOf, AllOps
    <3> QED BY <2>1, <3>2 DEF RowsOK, TypeOK
  <2> QED BY <1>2, <1>3, <2>1 DEF PresentToken, End
<1>4. CASE LockAccount(r)
  BY <1>1, <1>2, <1>4 DEF LockAccount, End
<1>5. CASE RevokeToken(r)
  <2>1. PICK n \in req[r].todo : tokenLock' = [tokenLock EXCEPT ![n] = r] /\ UNCHANGED codeLock
    BY <1>5 DEF RevokeToken
  <2>2. n \in Tokens /\ token[n] # None
    BY <1>5, Statement DEF RowsOK
  <2> QED BY <2>1, <2>2 DEF RowsOK, TypeOK
<1>6. CASE DeleteCodes(r)
  BY <1>6 DEF DeleteCodes, RowsOK, TypeOK
<1>7. CASE Begin(r) \/ BeginToken(r) \/ Fail(r) \/ DeadlockAbort(r)
  BY <1>1, <1>2, <1>7 DEF Begin, BeginToken, Fail, DeadlockAbort, End, locks
<1>8. CASE CheckAccount(r) \/ CheckAccess(r) \/ CreateAuthorizationCode(r)
           \/ ConsumeAuthorizationCode(r) \/ CreateRefresh(r) \/ RotateToken(r)
           \/ CommitRotation(r) \/ Reply(r) \/ DeleteAccess(r) \/ ScanTokens(r)
  BY <1>1, <1>2, <1>8
     DEF CheckAccount, CheckAccess, CreateAuthorizationCode, ConsumeAuthorizationCode,
         CreateRefresh, RotateToken, CommitRotation, Reply, DeleteAccess, ScanTokens,
         End, locks
<1>9. CASE TokensRevoked(r) \/ ScanAccess(r) \/ WipeAccess(r)
           \/ AccessWiped(r) \/ Commit(r) \/ InsertAccess(r)
  BY <1>1, <1>2, <1>9
     DEF TokensRevoked, ScanAccess, WipeAccess, AccessWiped, Commit,
         InsertAccess, End, locks
<1> QED BY <1>3, <1>4, <1>5, <1>6, <1>7, <1>8, <1>9 DEF Act, Step

LEMMA TodoStep ==
    ASSUME FamilyInv, NEW r \in Requests, Act(r), NEW s \in Requests,
           req'[s].pc = "revoke", NEW n \in req'[s].todo
    PROVE  n \in Tokens /\ token[n] # None
<1> USE DEF FamilyInv, Types
<1>1. CASE s # r
  BY <1>1, RequestsMove DEF RowsOK
<1>2. CASE s = r
  <2>1. CASE Begin(r) \/ BeginToken(r)
    BY <1>2, <2>1, Beginning DEF Starting, TypeOK
  <2>2. CASE Step(r) /\ Follows(req[r].op, req[r].pc, "revoke")
    <3>1. req[r].pc \in {"scan", "revoke"}
      BY <2>2 DEF Follows
    <3>2. CASE ScanTokens(r)
      <4>1. req' = [req EXCEPT ![r].pc = "revoke",
                    ![r].todo = {m \in Tokens : Revokes(r, m) /\ ~token[m].revoked}]
        BY <3>2 DEF ScanTokens
      <4>2. n \in {m \in Tokens : Revokes(r, m) /\ ~token[m].revoked}
        BY <1>2, <4>1 DEF TypeOK, ReqState
      <4> QED BY <4>2 DEF Revokes
    <3>3. CASE RevokeToken(r)
      <4>1. PICK m \in req[r].todo : req' = [req EXCEPT ![r].todo = @ \ {m}]
        BY <3>3 DEF RevokeToken
      <4>2. n \in req[r].todo
        BY <1>2, <4>1 DEF TypeOK, ReqState
      <4> QED BY <3>3, <4>2, Statement DEF RowsOK
    <3>4. CASE TokensRevoked(r)
      <4>1. req[r].todo = {} /\ \E pc : req' = [req EXCEPT ![r].pc = pc]
        BY <3>4 DEF TokensRevoked, GoTo
      <4> QED BY <1>2, <4>1 DEF TypeOK, ReqState
    <3> QED BY <2>2, <3>1, <3>2, <3>3, <3>4, Statement DEF Step
  <2>3. req'[r] # Idle
    BY <1>2 DEF Idle
  <2> QED BY <1>2, <2>1, <2>2, <2>3, RequestsMove
<1> QED BY <1>1, <1>2

(* Only a sign-in or a rotation makes a token, and it makes its successor.  *)
LEMMA NewRows ==
    ASSUME FamilyInv, NEW r \in Requests, Act(r), NEW n \in Tokens,
           token[n] = None, token'[n] # None
    PROVE  /\ n = req[r].next
           /\ \/ CreateRefresh(r) /\ token'[n].code = req[r].code
                                  /\ token'[n].user = req[r].user
                                  /\ token'[n].client = req[r].client
                                  /\ token'[n].family = n
              \/ CommitRotation(r) /\ token'[n].code = token[req[r].key].code
                                   /\ token'[n].user = req[r].user
                                   /\ token'[n].client = token[req[r].key].client
                                   /\ token'[n].family = token[req[r].key].family
<1>0. token \in [Tokens -> TokenRows \cup {None}]
  BY DEF FamilyInv, Types, TypeOK
<1>1. CASE CreateRefresh(r)
  <2>1. req[r].next # None
    BY <1>1 DEF CreateRefresh
  <2>2. /\ token' = [token EXCEPT ![req[r].next] =
                          [family |-> req[r].next, code |-> req[r].code,
                           user |-> req[r].user, client |-> req[r].client,
                           used |-> FALSE, revoked |-> FALSE]]
        /\ req[r].next \in Tokens
    BY <1>1, <2>1, Creation DEF FamilyInv
  <2>3. n = req[r].next
    BY <1>0, <2>2
  <2> QED BY <1>0, <1>1, <2>2, <2>3
<1>2. CASE CommitRotation(r)
  <2>1. n = req[r].next
    BY <1>2, Rotation DEF FamilyInv, Unspent
  <2>2. token[req[r].key].user = req[r].user
    BY <1>2, Rotation DEF FamilyInv
  <2> QED BY <1>2, <2>1, <2>2, RotatedRows DEF FamilyInv
<1>3. CASE Commit(r)
  <2>1. tokenLock[n] # r
    BY ConstantsAssumption DEF FamilyInv, Types, RowsOK
  <2> QED BY <1>3, <2>1 DEF Commit
<1> QED BY <1>1, <1>2, <1>3, TokensChange

LEMMA RowsStep ==
    ASSUME FamilyInv, NEW r \in Requests, Act(r)
    PROVE  RowsOK'
<1>1. \A n \in Tokens : tokenLock'[n] # None => token'[n] # None
  BY LocksOnRows, TokensGrow
<1>2. \A k \in Codes : codeLock'[k] # None => code'[k] # None
  BY LocksOnRows, CodesGrow DEF FamilyInv
<1>3. \A s \in Requests :
        req'[s].pc = "revoke" => \A n \in req'[s].todo : n \in Tokens /\ token'[n] # None
  BY TodoStep, TokensGrow
<1>4. \A n \in delivered' : token'[n] # None
  <2>1. CASE Reply(r) /\ delivered' = delivered \cup {req[r].next}
    <3>1. Running(req[r]) /\ req[r].pc = "reply" /\ req[r] \in ReqState
      BY <2>1, Statement, AtStatement DEF FamilyInv, Types, TypeOK
    <3>2. req[r].op \in {"Exchange", "Refresh"} /\ ~Pending(req[r])
      BY <3>1 DEF Running, StatementsOf, AllOps, Pending
    <3>3. req[r].next \in Tokens /\ token[req[r].next] # None
      BY <3>1, <3>2 DEF FamilyInv, Types, SuccessorsOK, ReqState
    <3> QED BY <2>1, <3>3, TokensGrow DEF FamilyInv, Types, TypeOK, RowsOK
  <2>2. CASE delivered' = delivered
    BY <2>2, TokensGrow DEF FamilyInv, Types, TypeOK, RowsOK
  <2> QED BY <2>1, <2>2, OtherTables DEF FamilyInv
<1>5. ASSUME NEW n \in Tokens, token'[n] # None
      PROVE  code'[token'[n].code] # None /\ code'[token'[n].code].state # "fresh"
  <2>1. CASE token[n] # None
    <3>1. token[n].code \in Codes /\ token'[n].code = token[n].code
      BY <2>1, TokensGrow DEF FamilyInv, Types, TypeOK, TokenRows
    <3> QED BY <2>1, <3>1, CodesGrow DEF FamilyInv, Types, RowsOK
  <2>2. CASE token[n] = None /\ CreateRefresh(r) /\ token'[n].code = req[r].code
    <3>1. req[r].next # None
      BY <1>5, <2>2 DEF CreateRefresh
    <3>2. Running(req[r]) /\ req[r].op = "Exchange" /\ req[r].pc = "create"
      BY <2>2, <3>1, Creation DEF FamilyInv
    <3>3. req[r].code \in Codes /\ code[req[r].code] # None
      BY <3>2 DEF Running
    <3>4. code[req[r].code].state # "fresh"
      BY <3>2, <3>3 DEF FamilyInv, ExchangesOK, Spending
    <3> QED BY <2>2, <3>3, <3>4, CodesGrow DEF FamilyInv
  <2>3. CASE token[n] = None /\ CommitRotation(r)
             /\ token'[n].code = token[req[r].key].code
    <3>1. req[r].key \in Tokens /\ token[req[r].key] # None
      BY <2>3, Rotation DEF FamilyInv, Unspent
    <3>2. token[req[r].key].code \in Codes
      BY <3>1 DEF FamilyInv, Types, TypeOK, TokenRows
    <3> QED BY <2>3, <3>1, <3>2, CodesGrow DEF FamilyInv, Types, RowsOK
  <2> QED BY <1>5, <2>1, <2>2, <2>3, NewRows
<1> QED BY <1>1, <1>2, <1>3, <1>4, <1>5 DEF RowsOK

(* When the successor of a request is no longer pending, it was inserted.   *)
LEMMA PendingStep ==
    ASSUME FamilyInv, NEW r \in Requests, Step(r), Running(req[r]),
           Follows(req[r].op, req[r].pc, req'[r].pc),
           req'[r].op = req[r].op, req[r].op \in {"Exchange", "Refresh"}
    PROVE  \/ CreateRefresh(r) \/ CommitRotation(r)
           \/ Pending(req'[r]) <=> Pending(req[r])
<1>1. req[r].pc = "create" => CreateRefresh(r)
  BY Statement DEF Step
<1>2. req[r].pc = "commitRotation" => CommitRotation(r)
  BY Statement DEF Step
<1>3. CASE req[r].op = "Exchange"
  BY <1>1, <1>3 DEF Running, StatementsOf, AllOps, Follows, Pending
<1>4. CASE req[r].op = "Refresh"
  BY <1>2, <1>4 DEF Running, StatementsOf, AllOps, Follows, Pending
<1> QED BY <1>3, <1>4

LEMMA SuccessorsStep ==
    ASSUME FamilyInv, NEW r \in Requests, Act(r)
    PROVE  SuccessorsOK'
<1> USE DEF FamilyInv, Types
<1>1. ASSUME NEW s \in Requests, NEW t \in Requests, s # t, req'[s].next # None
      PROVE  req'[s].next # req'[t].next
  <2>1. CASE \A q \in Requests : req'[q].next \in {req[q].next, None}
    BY <1>1, <2>1 DEF SuccessorsOK
  <2>2. CASE Begin(r) \/ BeginToken(r)
    <3>1. PICK q \in ReqState : req' = [req EXCEPT ![r] = q] /\ Starting(q)
      BY <2>2, Beginning
    <3>2. q.next # None => \A x \in Requests : req[x].next # q.next
      BY <3>1 DEF Starting, UnusedTokens
    <3> QED BY <1>1, <3>1, <3>2 DEF SuccessorsOK, TypeOK
  <2> QED BY <2>1, <2>2, RequestsMove, IdleType
<1>2. ASSUME NEW s \in Requests, req'[s].op \in {"Exchange", "Refresh"}
      PROVE  IF Pending(req'[s])
             THEN req'[s].next # None => token'[req'[s].next] = None
             ELSE req'[s].next # None /\ token'[req'[s].next] # None
  <2>0. req[s] \in ReqState /\ (req[s].next # None => req[s].next \in Tokens)
    BY DEF TypeOK, ReqState
  <2>1. CASE s # r
    <3>1. req'[s] = req[s]
      BY <2>1, RequestsMove
    <3>2. req[s].next # None => req[s].next # req[r].next
      BY <2>1 DEF SuccessorsOK
    <3> QED BY <1>2, <2>0, <3>1, <3>2, NewRows, TokensGrow DEF SuccessorsOK
  <2>2. CASE s = r /\ (Begin(r) \/ BeginToken(r))
    <3>1. PICK q \in ReqState : req' = [req EXCEPT ![r] = q] /\ Starting(q)
      BY <2>2, Beginning
    <3>2. UNCHANGED token
      BY <2>2 DEF Begin, BeginToken, tables
    <3>3. req'[s] = q
      BY <2>2, <3>1 DEF TypeOK
    <3>4. Pending(q)
      BY <1>2, <3>1, <3>3 DEF Starting, Pending
    <3> QED BY <3>1, <3>2, <3>3, <3>4 DEF Starting, UnusedTokens
  <2>3. CASE s = r /\ Step(r) /\ Running(req[r])
             /\ Follows(req[r].op, req[r].pc, req'[r].pc)
             /\ req'[r].op = req[r].op /\ req'[r].next = req[r].next
    <3>1. CASE CreateRefresh(r)
      <4>1. req[r].next # None
        <5>1. CASE req[r].next = None
          BY <1>2, <2>3, <3>1, <5>1, IdleType DEF CreateRefresh, End, TypeOK
        <5> QED BY <5>1
      <4>2. req[r].pc = "create" /\ req[r].op = "Exchange"
            /\ token'[req[r].next] \in TokenRows
        BY <3>1, <4>1, Creation
      <4>3. ~Pending(req'[s])
        BY <2>3, <4>2 DEF Pending, Follows
      <4> QED BY <2>3, <4>1, <4>2, <4>3, ConstantsAssumption
    <3>2. CASE CommitRotation(r)
      <4>1. req[r].pc = "commitRotation" /\ req[r].op = "Refresh"
            /\ req[r].next \in Tokens
            /\ token[req[r].key] \in TokenRows
            /\ token'[req[r].next] = [token[req[r].key] EXCEPT !.used = FALSE,
                                                               !.revoked = FALSE]
        BY <3>2, Rotation
      <4>2. ~Pending(req'[s])
        BY <2>3, <4>1 DEF Pending, Follows
      <4>3. token'[req[r].next] # None
        BY <4>1, SuccessorRow
      <4> QED BY <2>3, <4>1, <4>2, <4>3, ConstantsAssumption
    <3>3. CASE ~CreateRefresh(r) /\ ~CommitRotation(r)
      <4>1. Pending(req'[s]) <=> Pending(req[s])
        BY <1>2, <2>3, <3>3, PendingStep
      <4> QED BY <1>2, <2>0, <2>3, <3>3, <4>1, NewRows, TokensGrow DEF SuccessorsOK
    <3> QED BY <3>1, <3>2, <3>3
  <2>4. req'[s] # Idle
    BY <1>2, IdleType
  <2> QED BY <2>1, <2>2, <2>3, <2>4, RequestsMove
<1> QED BY <1>1, <1>2 DEF SuccessorsOK, Pending

-----------------------------------------------------------------------------
(***************************************************************************)
(* Families.                                                               *)
(***************************************************************************)

(* Nobody changes a row that another request has locked.                    *)
LEMMA LockedRowKept ==
    ASSUME FamilyInv, NEW r \in Requests, Act(r), NEW n \in Tokens,
           tokenLock[n] \notin {None, r}
    PROVE  token'[n] = token[n] /\ tokenLock'[n] = tokenLock[n]
<1> USE DEF FamilyInv, Types
<1>1. tokenLock'[n] = tokenLock[n]
  BY LocksMove DEF LocksMoved, Moved, TypeOK
<1>2. token[n] # None
  BY DEF RowsOK
<1>3. CASE CreateRefresh(r)
  <2>1. CASE req[r].next = None
    BY <1>1, <1>3, <2>1 DEF CreateRefresh
  <2>2. CASE req[r].next # None
    BY <1>1, <1>2, <1>3, <2>2, Creation DEF TypeOK
  <2> QED BY <2>1, <2>2
<1>4. CASE CommitRotation(r)
  BY <1>1, <1>2, <1>4, Rotation
<1>5. CASE Commit(r)
  BY <1>1, <1>5 DEF Commit
<1> QED BY <1>1, <1>3, <1>4, <1>5, TokensChange

LEMMA RotationsStep ==
    ASSUME FamilyInv, NEW r \in Requests, Act(r)
    PROVE  RotationsOK'
<1> USE DEF FamilyInv, Types
<1> SUFFICES ASSUME NEW s \in Requests, req'[s].pc \in {"rotate", "commitRotation"}
             PROVE  /\ tokenLock'[req'[s].key] = s
                    /\ Unspent(req[s].key)'
                    /\ req'[s].next # None
  BY DEF RotationsOK
<1>1. CASE s # r
  <2>1. req'[s] = req[s]
    BY <1>1, RequestsMove
  <2>2. Running(req[s])
    BY <2>1, AtStatement
  <2>3. req[s].key \in Tokens
    BY <2>1, <2>2 DEF Running, StatementsOf, AllOps
  <2>4. tokenLock[req[s].key] \notin {None, r}
    BY <1>1, <2>1, ConstantsAssumption DEF RotationsOK
  <2>5. /\ token'[req[s].key] = token[req[s].key]
        /\ tokenLock'[req[s].key] = tokenLock[req[s].key]
    BY <2>3, <2>4, LockedRowKept
  <2> QED BY <2>1, <2>5 DEF RotationsOK, Unspent
<1>2. CASE s = r
  <2>1. CASE Begin(r) \/ BeginToken(r)
    BY <1>2, <2>1, Beginning DEF Starting, TypeOK
  <2>2. CASE Step(r) /\ Running(req[r]) /\ Follows(req[r].op, req[r].pc, req'[r].pc)
             /\ req'[r].key = req[r].key /\ req'[r].next = req[r].next
    <3>1. req[r].pc \in {"present", "rotate"}
      BY <1>2, <2>2 DEF Follows
    <3>2. req[r].key \in Tokens /\ token[req[r].key] # None
      BY <2>2, <3>1 DEF Running, StatementsOf, AllOps
    <3>3. CASE PresentToken(r)
      <4>1. req'[r].pc \in {"rotate", "commitRotation"}
        BY <1>2
      <4>2. /\ UNCHANGED token /\ Rotates(r)
            /\ tokenLock' = [tokenLock EXCEPT ![req[r].key] = r]
        BY <3>3, <4>1 DEF PresentToken, GoTo, End, Idle, tables, TypeOK, ReqState
      <4> QED BY <1>2, <2>2, <3>2, <4>2 DEF Rotates, Spent, Unspent, TypeOK
    <3>4. CASE RotateToken(r)
      <4>1. UNCHANGED <<token, tokenLock>>
        BY <3>4 DEF RotateToken, tables, locks
      <4>2. req[r].pc = "rotate"
        BY <3>4, Statement
      <4> QED BY <1>2, <2>2, <4>1, <4>2 DEF RotationsOK, Unspent
    <3> QED BY <2>2, <3>1, <3>3, <3>4, Statement DEF Step
  <2>3. req'[r] # Idle
    BY <1>2 DEF Idle
  <2> QED BY <2>1, <2>2, <2>3, RequestsMove
<1> QED BY <1>1, <1>2

LEMMA SpendingStep ==
    ASSUME FamilyInv, NEW r \in Requests, Act(r), NEW k \in Codes,
           Spending(req'[r], k)
    PROVE  \/ Spending(req[r], k) /\ ~CreateRefresh(r)
           \/ /\ ConsumeAuthorizationCode(r) /\ UNCHANGED token
              /\ code[k] # None
              /\ code[k].state = "fresh" /\ code'[k].state # "fresh"
<1> USE DEF FamilyInv, Types
<1>1. CASE Begin(r) \/ BeginToken(r)
  BY <1>1, Beginning DEF Starting, Spending, TypeOK
<1>2. CASE Step(r) /\ Running(req[r]) /\ Follows(req[r].op, req[r].pc, req'[r].pc)
             /\ req'[r].op = req[r].op /\ req'[r].code = req[r].code
  <2>1. CASE req[r].pc = "consume"
    <3>1. ConsumeAuthorizationCode(r)
      BY <1>2, <2>1, Statement DEF Step
    <3>2. code[k] # None
      BY <1>2 DEF Spending, Running
    <3>3. req'[r].pc # "idle"
      BY DEF Spending
    <3>4. code[k].state = "fresh" /\ code' = [code EXCEPT ![k].state = "used"]
          /\ UNCHANGED token
      BY <1>2, <3>1, <3>3 DEF ConsumeAuthorizationCode, Spending, End, Idle, TypeOK
    <3>5. code[k] \in CodeRows
      BY <3>2 DEF TypeOK
    <3>6. code'[k].state = "used"
      BY <3>4, <3>5 DEF TypeOK, CodeRows
    <3> QED BY <3>1, <3>2, <3>4, <3>6
  <2>2. CASE req[r].pc = "create"
    BY <1>2, <2>2 DEF Follows, Spending
  <2>3. CASE req[r].pc \notin {"consume", "create"}
    <3>1. req[r].pc \in {"checkAccount", "checkAccess"}
      BY <1>2, <2>3 DEF Spending, Running, StatementsOf, AllOps, Follows
    <3> QED BY <1>2, <3>1, Statement DEF Spending
  <2> QED BY <2>1, <2>2, <2>3
<1>3. req'[r] # Idle
  BY DEF Idle, Spending
<1> QED BY <1>1, <1>2, <1>3, RequestsMove

LEMMA ExchangesStep ==
    ASSUME FamilyInv, NEW r \in Requests, Act(r)
    PROVE  ExchangesOK'
<1> USE DEF FamilyInv, Types
<1>1. ASSUME NEW s \in Requests, NEW k \in Codes, Spending(req'[s], k)
      PROVE  /\ code'[k].state # "fresh"
             /\ \A n \in Tokens : token'[n] # None => token'[n].code # k
  <2>1. CASE Spending(req[s], k) /\ (s = r => ~CreateRefresh(r))
    <3>1. code[k] # None
      BY <2>1, AtStatement DEF Spending, Running
    <3>2. ASSUME NEW n \in Tokens, token'[n] # None, token'[n].code = k PROVE FALSE
      <4>1. CASE token[n] # None
        BY <2>1, <3>2, <4>1, TokensGrow DEF ExchangesOK
      <4>2. CASE token[n] = None /\ CreateRefresh(r) /\ token'[n].code = req[r].code
        <5>1. req[r].next # None
          BY <3>2, <4>2 DEF CreateRefresh
        <5>2. Spending(req[r], k)
          BY <3>2, <4>2, <5>1, Creation DEF Spending
        <5> QED BY <2>1, <4>2, <5>2 DEF ExchangesOK
      <4>3. CASE CommitRotation(r) /\ token'[n].code = token[req[r].key].code
        <5>1. req[r].key \in Tokens /\ token[req[r].key] # None
          BY <4>3, Rotation DEF Unspent
        <5> QED BY <2>1, <3>2, <4>3, <5>1 DEF ExchangesOK
      <4> QED BY <3>2, <4>1, <4>2, <4>3, NewRows
    <3> QED BY <2>1, <3>1, <3>2, CodesGrow DEF ExchangesOK
  <2>2. CASE /\ ConsumeAuthorizationCode(r) /\ UNCHANGED token
             /\ code[k] # None
             /\ code[k].state = "fresh" /\ code'[k].state # "fresh"
    BY <2>2 DEF RowsOK
  <2> QED BY <1>1, <2>1, <2>2, SpendingStep, RequestsMove
<1>2. ASSUME NEW s \in Requests, NEW t \in Requests, NEW k \in Codes,
             Spending(req'[s], k), Spending(req'[t], k)
      PROVE  s = t
  <2>1. \A x \in Requests : Spending(req'[x], k) =>
             Spending(req[x], k) \/ (x = r /\ code[k].state = "fresh")
    BY SpendingStep, RequestsMove
  <2> QED BY <1>2, <2>1 DEF ExchangesOK
<1> QED BY <1>1, <1>2 DEF ExchangesOK, Spending

LEMMA OneUnspentStep ==
    ASSUME FamilyInv, NEW r \in Requests, Act(r)
    PROVE  OneUnspent'
<1> USE DEF FamilyInv, Types
<1> DEFINE U(n) == token'[n] # None /\ ~token'[n].used /\ ~token'[n].revoked
<1> SUFFICES ASSUME NEW m \in Tokens, NEW n \in Tokens, U(m), U(n),
                    token'[m].code = token'[n].code, m # n
             PROVE  FALSE
  BY DEF OneUnspent, Unspent
<1>1. ASSUME NEW x \in Tokens, U(x), token[x] # None
      PROVE  Unspent(x) /\ token'[x].code = token[x].code
  BY <1>1, TokensGrow DEF Unspent
<1>2. ASSUME NEW x \in Tokens, NEW y \in Tokens, U(x), U(y), token'[x].code = token'[y].code,
             token[x] # None, token[y] = None
      PROVE  FALSE
  <2>1. CASE CreateRefresh(r) /\ token'[y].code = req[r].code
    <3>1. req[r].next # None
      BY <1>2, <2>1 DEF CreateRefresh
    <3>2. Spending(req[r], req[r].code) /\ req[r].code \in Codes
      BY <2>1, <3>1, Creation DEF Spending, Running
    <3> QED BY <1>1, <1>2, <2>1, <3>2 DEF ExchangesOK
  <2>2. CASE CommitRotation(r) /\ token'[y].code = token[req[r].key].code
    <3>1. /\ req[r].key \in Tokens /\ Unspent(req[r].key)
          /\ token[req[r].key] \in TokenRows
          /\ token'[req[r].key] = [token[req[r].key] EXCEPT !.used = TRUE]
      BY <2>2, Rotation
    <3>2. x = req[r].key
      BY <1>1, <1>2, <2>2, <3>1 DEF OneUnspent
    <3> QED BY <1>2, <3>1, <3>2, UsedRow
  <2> QED BY <1>2, <2>1, <2>2, NewRows
<1>3. CASE token[m] # None /\ token[n] # None
  BY <1>1, <1>3 DEF OneUnspent
<1>4. CASE token[m] = None /\ token[n] = None
  BY <1>4, NewRows
<1> QED BY <1>2, <1>3, <1>4

LEMMA InitFamilyInv == Init => FamilyInv
<1> SUFFICES ASSUME Init PROVE FamilyInv
  OBVIOUS
<1>1. TypeOK
  BY IdleType DEF Init, TypeOK
<1>2. \A r \in Requests : req[r] = Idle
  BY DEF Init
<1>3. \A r \in Requests : /\ req[r].op = "none" /\ req[r].pc = "idle"
                          /\ req[r].next = None
  BY <1>2 DEF Idle
<1>4. RequestsOK
  BY <1>2 DEF RequestsOK
<1>5. SuccessorsOK /\ RotationsOK /\ ExchangesOK
  BY <1>3 DEF SuccessorsOK, RotationsOK, ExchangesOK, Spending
<1>6. RowsOK /\ OneUnspent
  BY <1>3 DEF Init, RowsOK, OneUnspent, Unspent
<1> QED BY <1>1, <1>4, <1>5, <1>6 DEF FamilyInv, Types

(* Codes and families expire. *)
LEMMA ExpiryKeeps ==
    ASSUME FamilyInv, NEW k \in Codes, ExpireCode(k)
    PROVE  FamilyInv'
<1> USE DEF FamilyInv, Types
<1>1. /\ UNCHANGED <<status, access, token, expired, delivered, accountLock, accessLock,
                     codeLock, tokenLock, req>>
      /\ code[k] \in CodeRows
      /\ code' = [code EXCEPT ![k].state = "deleted"]
  BY DEF ExpireCode, locks, TypeOK
<1>2. code' \in [Codes -> CodeRows \cup {None}]
  <2>1. [code[k] EXCEPT !.state = "deleted"] \in CodeRows
    BY <1>1 DEF CodeRows
  <2> QED BY <1>1, <2>1 DEF TypeOK
<1>3. \A x \in Codes : code[x] # None =>
        code'[x] # None /\ (code[x].state # "fresh" => code'[x].state # "fresh")
  BY <1>1, ConstantsAssumption DEF TypeOK, CodeRows
<1>4. TypeOK'
  BY <1>1, <1>2 DEF TypeOK
<1>5. RequestsOK'
  <2>1. \A r \in Requests : Running(req[r]) => Running(req[r])'
    BY <1>1, <1>3 DEF Running
  <2> QED BY <1>1, <2>1 DEF RequestsOK
<1>6. RowsOK'
  BY <1>1, <1>3 DEF RowsOK, TypeOK, TokenRows
<1>7. SuccessorsOK' /\ RotationsOK' /\ OneUnspent'
  BY <1>1 DEF SuccessorsOK, Pending, RotationsOK, OneUnspent, Unspent
<1>8. ExchangesOK'
  <2>1. ASSUME NEW r \in Requests, NEW x \in Codes, Spending(req[r], x)
        PROVE  code[x] # None
    BY <2>1, AtStatement DEF Spending, Running
  <2> QED BY <1>1, <1>3, <2>1 DEF ExchangesOK, Spending
<1> QED BY <1>4, <1>5, <1>6, <1>7, <1>8

LEMMA NextFamilyInv == FamilyInv /\ [Next]_vars => FamilyInv'
<1> SUFFICES ASSUME FamilyInv, [Next]_vars PROVE FamilyInv'
  OBVIOUS
<1>1. ASSUME NEW r \in Requests, Act(r) PROVE FamilyInv'
  BY <1>1, TypeStep, RequestsStep, RowsStep, SuccessorsStep, RotationsStep,
     ExchangesStep, OneUnspentStep DEF FamilyInv, Types
<1>2. CASE UNCHANGED <<status, access, code, token, delivered, locks, req>>
           /\ expired' \in SUBSET Tokens
  <2> USE <1>2 DEF FamilyInv, Types, locks
  <2>1. TypeOK'
    BY DEF TypeOK
  <2>2. RequestsOK'
    BY DEF RequestsOK, Running
  <2>3. RowsOK' /\ SuccessorsOK'
    BY DEF RowsOK, SuccessorsOK, Pending
  <2>4. RotationsOK' /\ ExchangesOK' /\ OneUnspent'
    BY DEF RotationsOK, ExchangesOK, Spending, OneUnspent, Unspent
  <2> QED BY <2>1, <2>2, <2>3, <2>4
<1>3. ASSUME NEW f \in Tokens, ExpireFamily(f) PROVE FamilyInv'
  BY <1>2, <1>3 DEF ExpireFamily, FamilyInv, Types, TypeOK
<1>4. CASE UNCHANGED vars
  BY <1>2, <1>4 DEF vars, tables, FamilyInv, Types, TypeOK
<1> QED BY <1>1, <1>3, <1>4, ExpiryKeeps DEF Next, Act

(* The inductive invariant: who holds which row, whose successor is where.  *)
THEOREM FamiliesInvariant == Spec => []FamilyInv
  BY InitFamilyInv, NextFamilyInv, PTL DEF Spec

(* Every variable keeps its type, whatever requests interleave. *)
THEOREM TypeCorrect == Spec => []TypeOK
<1>1. FamilyInv => TypeOK
  BY DEF FamilyInv, Types
<1> QED BY <1>1, FamiliesInvariant, PTL

(* However often a code and its tokens are presented, and whatever revokes   *)
(* them meanwhile, at most one token of a sign-in is live.                  *)
THEOREM AtMostOneLive == Spec => []OneLiveToken
<1>1. FamilyInv => OneLiveToken
  BY DEF FamilyInv, OneUnspent, Unspent, OneLiveToken, Live
<1> QED BY <1>1, FamiliesInvariant, PTL

LEMMA DeadStep ==
    ASSUME FamilyInv, FamilyInv', [Next]_vars, NEW f \in Tokens, DeadFamily(f)
    PROVE  DeadFamily(f)'
<1> DEFINE L(n) == /\ token'[n] # None /\ ~token'[n].used /\ ~token'[n].revoked
                   /\ token'[n].family \notin expired'
<1>1. ASSUME NEW r \in Requests, Act(r),
             NEW n \in Tokens, L(n), token'[n].family = f
      PROVE  FALSE
  <2>1. expired' = expired
    BY <1>1, OtherTables DEF FamilyInv
  <2>2. CASE token[n] # None
    BY <1>1, <2>1, <2>2, TokensGrow DEF DeadFamily, Live
  <2>3. CASE token[n] = None /\ CreateRefresh(r) /\ token'[n].family = n
    BY <1>1, <2>3 DEF DeadFamily
  <2>4. CASE CommitRotation(r) /\ token'[n].family = token[req[r].key].family
    <3>1. req[r].key \in Tokens /\ Unspent(req[r].key)
      BY <2>4, Rotation DEF FamilyInv
    <3>2. Live(req[r].key)
      BY <1>1, <2>1, <2>4, <3>1 DEF Live, Unspent
    <3> QED BY <1>1, <2>4, <3>1, <3>2 DEF DeadFamily
  <2> QED BY <1>1, <2>2, <2>3, <2>4, NewRows
<1>2. ASSUME NEW r \in Requests, Act(r) PROVE DeadFamily(f)'
  <2>1. token'[f] # None
    BY <1>2, TokensGrow DEF DeadFamily
  <2> QED BY <1>1, <1>2, <2>1 DEF DeadFamily, Live
<1>3. CASE token' = token /\ expired \subseteq expired'
  BY <1>3 DEF DeadFamily, Live
<1> QED BY <1>2, <1>3 DEF Next, Act, ExpireCode, ExpireFamily, vars, tables

(* A rotation that found its token live cannot lose to a revocation and      *)
(* still revive the family.                                                *)
THEOREM DeadFamiliesStayDead == Spec => DeadFamilyStaysDead
<1>1. FamilyInv /\ FamilyInv' /\ [Next]_vars =>
        [\A f \in Tokens : DeadFamily(f) => DeadFamily(f)']_vars
  BY DeadStep
<1> QED BY <1>1, FamiliesInvariant, PTL DEF Spec, DeadFamilyStaysDead

-----------------------------------------------------------------------------
(***************************************************************************)
(* A password change leaves no token of the account live, whatever          *)
(* rotations and exchanges run beside it.                                  *)
(***************************************************************************)

(* A password change past its SELECT FOR UPDATE keeps insertions of the      *)
(* account's tokens out, so that what its snapshot showed is all there is.   *)
Guarding(q) == q.op = "ChangePassword" /\ q.pc # "account"

GuardsOK ==
    \A r \in Requests :
      Guarding(req[r]) =>
        /\ accountLock[req[r].user] = r
        /\ \A s \in Requests : req[s].pc = "commitRotation" => req[s].user # req[r].user

SweepsOK ==
    \A r \in Requests :
      Guarding(req[r]) /\ req[r].pc # "scan" =>
        \A n \in Tokens :
          token[n] # None /\ token[n].user = req[r].user /\ ~token[n].revoked =>
            tokenLock[n] = r \/ (req[r].pc = "revoke" /\ n \in req[r].todo)

(* The operations on a whole account, past their lock on it. *)
Holding(q) ==
    q.op \in {"ChangePassword", "ResetPassword", "DisableAccount"} /\ q.pc # "account"

HoldersOK == \A r \in Requests : Holding(req[r]) => accountLock[req[r].user] = r

(* Once a password change is to commit, it has every code of the account.    *)
CodesSweptOK ==
    \A r \in Requests :
      Guarding(req[r]) /\ req[r].pc = "commit" =>
        \A k \in Codes :
          code[k] # None /\ code[k].user = req[r].user => codeLock[k] = r

PasswordInv == GuardsOK /\ SweepsOK /\ HoldersOK /\ CodesSweptOK

(* The statements of a password change, one after the other. *)
LEMMA GuardingStep ==
    ASSUME FamilyInv, NEW r \in Requests, Act(r), Guarding(req'[r])
    PROVE  /\ Running(req[r]) /\ req[r].op = "ChangePassword"
           /\ req'[r].op = "ChangePassword" /\ req'[r].user = req[r].user
           /\ \/ LockAccount(r) /\ req[r].pc = "account" /\ req'[r].pc = "scan"
              \/ ScanTokens(r) /\ req'[r].pc = "revoke"
              \/ RevokeToken(r) /\ req'[r].pc = "revoke"
              \/ TokensRevoked(r) /\ req'[r].pc = "codes"
              \/ DeleteCodes(r) /\ req'[r].pc = "commit"
<1> USE DEF FamilyInv, Types
<1>1. req'[r] # Idle
  BY DEF Idle, Guarding
<1>2. ~(Begin(r) \/ BeginToken(r))
  <2> SUFFICES ASSUME Begin(r) \/ BeginToken(r) PROVE FALSE
    OBVIOUS
  <2>1. PICK q \in ReqState : req' = [req EXCEPT ![r] = q] /\ Starting(q)
    BY Beginning
  <2> QED BY <2>1 DEF Starting, Running, StatementsOf, AllOps, Guarding, TypeOK
<1>3. /\ Step(r) /\ Running(req[r])
      /\ Follows(req[r].op, req[r].pc, req'[r].pc)
      /\ req[r].op = "ChangePassword"
      /\ req'[r].op = "ChangePassword" /\ req'[r].user = req[r].user
  BY <1>1, <1>2, RequestsMove DEF Guarding
<1>4. req[r].pc \in {"account", "scan", "revoke", "codes", "commit"}
  BY <1>3 DEF Running, StatementsOf
<1>5. \/ req[r].pc = "account" /\ req'[r].pc = "scan"
      \/ req[r].pc = "scan" /\ req'[r].pc = "revoke"
      \/ req[r].pc = "revoke" /\ req'[r].pc \in {"revoke", "codes"}
      \/ req[r].pc = "codes" /\ req'[r].pc = "commit"
  BY <1>3, <1>4 DEF Follows
<1>6. CASE req[r].pc = "revoke"
  <2>1. RevokeToken(r) \/ TokensRevoked(r)
    BY <1>3, <1>6, Statement DEF Step
  <2>2. CASE RevokeToken(r)
    <3>1. PICK n \in req[r].todo : req' = [req EXCEPT ![r].todo = @ \ {n}]
      BY <2>2 DEF RevokeToken
    <3>2. req'[r].pc = "revoke"
      BY <1>6, <3>1 DEF TypeOK, ReqState
    <3> QED BY <1>3, <2>2, <3>2
  <2>3. CASE TokensRevoked(r)
    <3>1. req' = [req EXCEPT ![r].pc = "codes"]
      BY <1>3, <2>3 DEF TokensRevoked, GoTo
    <3>2. req'[r].pc = "codes"
      BY <3>1 DEF TypeOK, ReqState
    <3> QED BY <1>3, <2>3, <3>2
  <2> QED BY <2>1, <2>2, <2>3
<1> QED BY <1>3, <1>5, <1>6, Statement DEF Step

(* An insertion of a token or a code of the account waits for the password  *)
(* change.                                                                  *)
LEMMA InsertionWaits ==
    ASSUME FamilyInv, GuardsOK, NEW r \in Requests, NEW s \in Requests, s # r,
           Guarding(req[s]),
           RotateToken(r) \/ CreateRefresh(r) \/ CreateAuthorizationCode(r)
    PROVE  req[r].user # req[s].user
<1>1. Others(r, accountLock[req[s].user]) = {s}
  BY ConstantsAssumption DEF GuardsOK, Others
<1>2. KeyLocked(r) = {}
  BY DEF RotateToken, CreateRefresh, CreateAuthorizationCode, At, BlockedBy
<1> QED BY <1>1, <1>2 DEF KeyLocked, Guarding

LEMMA GuardsStep ==
    ASSUME FamilyInv, GuardsOK, NEW r \in Requests, Act(r)
    PROVE  GuardsOK'
<1> USE DEF FamilyInv, Types
<1> SUFFICES ASSUME NEW s \in Requests, Guarding(req'[s])
             PROVE  /\ accountLock'[req'[s].user] = s
                    /\ \A t \in Requests :
                         req'[t].pc = "commitRotation" => req'[t].user # req'[s].user
  BY DEF GuardsOK, Guarding
<1>1. CASE s # r
  <2>1. req'[s] = req[s]
    BY <1>1, RequestsMove
  <2>2. Running(req[s])
    BY <2>1, AtStatement DEF Guarding, RequestsOK, Idle
  <2>3. accountLock[req[s].user] = s /\ req[s].user \in Users
    BY <2>1, <2>2 DEF GuardsOK, Running
  <2>4. accountLock'[req[s].user] = s
    BY <1>1, <2>3, LocksMove, ConstantsAssumption DEF LocksMoved, Moved, TypeOK
  <2>5. ASSUME NEW t \in Requests, req'[t].pc = "commitRotation"
        PROVE  req'[t].user # req'[s].user
    <3>1. CASE t # r
      BY <2>1, <2>5, <3>1, RequestsMove DEF GuardsOK
    <3>2. CASE t = r
      <4>1. req'[r] # Idle
        BY <2>5, <3>2 DEF Idle
      <4>2. ~(Begin(r) \/ BeginToken(r))
        BY <2>5, <3>2, Beginning DEF Starting, TypeOK
      <4>3. Step(r) /\ req[r].pc = "rotate" /\ req'[r].user = req[r].user
        BY <2>5, <3>2, <4>1, <4>2, RequestsMove DEF Follows
      <4>4. RotateToken(r)
        BY <4>3, Statement DEF Step
      <4> QED BY <1>1, <2>1, <3>2, <4>3, <4>4, InsertionWaits
    <3> QED BY <3>1, <3>2
  <2> QED BY <2>1, <2>4, <2>5
<1>2. CASE s = r
  <2>1. /\ Running(req[r]) /\ req'[r].user = req[r].user
        /\ req'[r].pc # "commitRotation" /\ req[r].user \in Users
    BY <1>2, GuardingStep DEF Running
  <2>2. CASE LockAccount(r) /\ req[r].pc = "account" /\ req'[r].pc = "scan"
    <3>1. accountLock' = [accountLock EXCEPT ![req[r].user] = r]
      BY <2>2, IdleType DEF LockAccount, End, TypeOK, Idle
    <3>2. KeyShared(r) = {}
      BY <2>2 DEF LockAccount, At, BlockedBy
    <3>3. ASSUME NEW t \in Requests, req'[t].pc = "commitRotation"
          PROVE  req'[t].user # req[r].user
      <4>1. t # r /\ req'[t] = req[t]
        BY <2>1, <3>3, RequestsMove
      <4> QED BY <1>2, <3>2, <3>3, <4>1, GuardingStep DEF KeyShared
    <3> QED BY <1>2, <2>1, <3>1, <3>3 DEF TypeOK
  <2>3. CASE ScanTokens(r) \/ RevokeToken(r) \/ TokensRevoked(r) \/ DeleteCodes(r)
    <3>1. UNCHANGED accountLock
      BY <2>3 DEF ScanTokens, RevokeToken, TokensRevoked, DeleteCodes, locks
    <3>2. Guarding(req[r])
      BY <1>2, <2>3, GuardingStep, Statement DEF Guarding
    <3>3. ASSUME NEW t \in Requests, req'[t].pc = "commitRotation"
          PROVE  req'[t].user # req[r].user
      <4>1. t # r /\ req'[t] = req[t]
        BY <2>1, <3>3, RequestsMove
      <4> QED BY <3>2, <3>3, <4>1 DEF GuardsOK
    <3> QED BY <1>2, <2>1, <3>1, <3>2, <3>3 DEF GuardsOK
  <2> QED BY <1>2, <2>2, <2>3, GuardingStep
<1> QED BY <1>1, <1>2

LEMMA SweepsStep ==
    ASSUME FamilyInv, GuardsOK, SweepsOK, NEW r \in Requests, Act(r)
    PROVE  SweepsOK'
<1> USE DEF FamilyInv, Types
<1> SUFFICES ASSUME NEW s \in Requests, Guarding(req'[s]), req'[s].pc # "scan",
                    NEW n \in Tokens, token'[n] # None,
                    token'[n].user = req'[s].user, ~token'[n].revoked
             PROVE  \/ tokenLock'[n] = s
                    \/ req'[s].pc = "revoke" /\ n \in req'[s].todo
  BY DEF SweepsOK, Guarding
<1>1. CASE s # r
  <2>1. req'[s] = req[s]
    BY <1>1, RequestsMove
  <2>2. CASE token[n] # None
    <3>1. token[n].user = req[s].user /\ ~token[n].revoked
      BY <2>1, <2>2, TokensGrow
    <3>2. tokenLock[n] = s \/ (req[s].pc = "revoke" /\ n \in req[s].todo)
      BY <2>1, <2>2, <3>1 DEF SweepsOK
    <3>3. tokenLock[n] = s => tokenLock'[n] = s
      BY <1>1, LocksMove, ConstantsAssumption DEF LocksMoved, Moved, TypeOK
    <3> QED BY <2>1, <3>2, <3>3
  <2>3. CASE token[n] = None
    <3>1. token'[n].user = req[r].user
      BY <2>3, NewRows
    <3>2. CASE CreateRefresh(r)
      BY <1>1, <2>1, <3>1, <3>2, InsertionWaits
    <3>3. CASE CommitRotation(r)
      BY <2>1, <3>1, <3>3, Statement DEF GuardsOK
    <3> QED BY <2>3, <3>2, <3>3, NewRows
  <2> QED BY <2>2, <2>3
<1>2. CASE s = r
  <2>1. /\ req[r].op = "ChangePassword" /\ req'[r].user = req[r].user
    BY <1>2, GuardingStep
  <2>2. CASE ScanTokens(r)
    <3> DEFINE S == {m \in Tokens : Revokes(r, m) /\ ~token[m].revoked}
    <3>1. UNCHANGED token /\ req' = [req EXCEPT ![r].pc = "revoke", ![r].todo = S]
      BY <2>2 DEF ScanTokens, tables
    <3>2. req'[r].pc = "revoke" /\ req'[r].todo = S
      BY <3>1 DEF TypeOK, ReqState
    <3>3. n \in S
      BY <1>2, <2>1, <3>1 DEF Revokes
    <3> QED BY <1>2, <3>2, <3>3
  <2>3. CASE RevokeToken(r)
    <3>1. PICK m \in req[r].todo :
            /\ tokenLock' = [tokenLock EXCEPT ![m] = r]
            /\ req' = [req EXCEPT ![r].todo = @ \ {m}]
            /\ UNCHANGED token
      BY <2>3 DEF RevokeToken, tables
    <3>2. req'[r].pc = "revoke" /\ req[r].pc = "revoke" /\ req'[r].todo = req[r].todo \ {m}
      BY <2>3, <3>1, Statement DEF TypeOK, ReqState
    <3>3. tokenLock[n] = r \/ n \in req[r].todo
      BY <1>2, <2>1, <3>1, <3>2 DEF SweepsOK, Guarding
    <3> QED BY <1>2, <3>1, <3>2, <3>3 DEF TypeOK
  <2>4. CASE TokensRevoked(r) \/ DeleteCodes(r)
    <3>1. UNCHANGED <<token, tokenLock>>
      BY <2>4 DEF TokensRevoked, DeleteCodes, tables, locks
    <3>2. req[r].pc \in {"revoke", "codes"} /\ (req[r].pc = "revoke" => req[r].todo = {})
      BY <2>4, Statement DEF TokensRevoked
    <3> QED BY <1>2, <2>1, <3>1, <3>2 DEF SweepsOK, Guarding
  <2> QED BY <1>2, <2>2, <2>3, <2>4, GuardingStep
<1> QED BY <1>1, <1>2

(* An operation on an account keeps the lock it took. *)
LEMMA HoldersStep ==
    ASSUME FamilyInv, HoldersOK, NEW r \in Requests, Act(r)
    PROVE  HoldersOK'
<1> USE DEF FamilyInv, Types
<1> SUFFICES ASSUME NEW s \in Requests, Holding(req'[s])
             PROVE  accountLock'[req'[s].user] = s
  BY DEF HoldersOK, Holding
<1>1. CASE s # r
  <2>1. req'[s] = req[s]
    BY <1>1, RequestsMove
  <2>2. Running(req[s])
    BY <2>1, AtStatement DEF Holding, RequestsOK, Idle
  <2>3. accountLock[req[s].user] = s /\ req[s].user \in Users
    BY <2>1, <2>2 DEF HoldersOK, Running
  <2> QED BY <1>1, <2>1, <2>3, LocksMove, ConstantsAssumption DEF LocksMoved, Moved, TypeOK
<1>2. CASE s = r
  <2>1. req'[r] # Idle
    BY <1>2 DEF Idle, Holding
  <2>2. ~(Begin(r) \/ BeginToken(r))
    <3> SUFFICES ASSUME Begin(r) \/ BeginToken(r) PROVE FALSE
      OBVIOUS
    <3>1. PICK q \in ReqState : req' = [req EXCEPT ![r] = q] /\ Starting(q)
      BY Beginning
    <3> QED BY <1>2, <3>1 DEF Starting, Running, StatementsOf, AllOps, Holding, TypeOK
  <2>3. /\ Step(r) /\ Running(req[r])
        /\ Follows(req[r].op, req[r].pc, req'[r].pc)
        /\ req'[r].op = req[r].op /\ req'[r].user = req[r].user
    BY <2>1, <2>2, RequestsMove
  <2>4. /\ req[r].op \in {"ChangePassword", "ResetPassword", "DisableAccount"}
        /\ req[r].pc \in {"account", "scan", "revoke", "codes", "scanAccess", "wipe", "commit"}
    BY <1>2, <2>3 DEF Holding, Running, StatementsOf
  <2>5. req[r].pc # "commit"
    BY <2>3 DEF Follows
  <2>6. CASE req[r].pc = "account"
    <3>1. LockAccount(r)
      BY <2>3, <2>6, Statement DEF Step
    <3>2. accountLock' = [accountLock EXCEPT ![req[r].user] = r]
      BY <2>1, <3>1, IdleType DEF LockAccount, End, TypeOK
    <3> QED BY <1>2, <2>3, <3>2 DEF Running, TypeOK
  <2>7. CASE req[r].pc # "account"
    <3>1. \/ ScanTokens(r) \/ RevokeToken(r) \/ TokensRevoked(r) \/ DeleteCodes(r)
          \/ ScanAccess(r) \/ WipeAccess(r) \/ AccessWiped(r)
      BY <2>3, <2>4, <2>5, <2>7, Statement DEF Step
    <3>2. UNCHANGED accountLock
      BY <3>1 DEF ScanTokens, RevokeToken, TokensRevoked, DeleteCodes, ScanAccess,
                  WipeAccess, AccessWiped, locks
    <3> QED BY <1>2, <2>3, <2>4, <2>7, <3>2 DEF HoldersOK, Holding
  <2> QED BY <2>6, <2>7
<1> QED BY <1>1, <1>2

(* Codes are locked by who deletes them. *)
LEMMA CodeLocksMove ==
    ASSUME Types, NEW r \in Requests, Act(r), NEW k \in Codes, codeLock[k] \notin {r, None}
    PROVE  \/ codeLock'[k] = codeLock[k]
           \/ DeleteCodes(r) /\ code[k].user = req[r].user
<1>1. ReleaseLocks(r) => codeLock'[k] = codeLock[k]
  BY DEF ReleaseLocks, Freed, Types, TypeOK
<1>2. DeleteCodes(r) => codeLock'[k] = codeLock[k] \/ code[k].user = req[r].user
  BY DEF DeleteCodes
<1>3. CASE Begin(r) \/ BeginToken(r) \/ Fail(r) \/ DeadlockAbort(r)
  BY <1>1, <1>3 DEF Begin, BeginToken, Fail, DeadlockAbort, End, locks
<1>4. CASE CheckAccount(r) \/ CheckAccess(r) \/ CreateAuthorizationCode(r)
           \/ ConsumeAuthorizationCode(r) \/ CreateRefresh(r) \/ RotateToken(r)
           \/ CommitRotation(r) \/ Reply(r) \/ DeleteAccess(r) \/ ScanTokens(r)
  BY <1>1, <1>4
     DEF CheckAccount, CheckAccess, CreateAuthorizationCode, ConsumeAuthorizationCode,
         CreateRefresh, RotateToken, CommitRotation, Reply, DeleteAccess, ScanTokens,
         End, locks
<1>5. CASE TokensRevoked(r) \/ ScanAccess(r) \/ WipeAccess(r) \/ AccessWiped(r)
           \/ Commit(r) \/ InsertAccess(r) \/ RevokeToken(r) \/ LockAccount(r)
           \/ PresentToken(r)
  BY <1>1, <1>5
     DEF TokensRevoked, ScanAccess, WipeAccess, AccessWiped, Commit, InsertAccess,
         RevokeToken, LockAccount, PresentToken, End, locks
<1> QED BY <1>2, <1>3, <1>4, <1>5 DEF Act, Step

LEMMA CodesSweptStep ==
    ASSUME FamilyInv, PasswordInv, NEW r \in Requests, Act(r)
    PROVE  CodesSweptOK'
<1> USE DEF FamilyInv, Types
<1> SUFFICES ASSUME NEW s \in Requests, Guarding(req'[s]), req'[s].pc = "commit",
                    NEW k \in Codes, code'[k] # None, code'[k].user = req'[s].user
             PROVE  codeLock'[k] = s
  BY DEF CodesSweptOK, Guarding
<1>1. CASE s # r
  <2>1. req'[s] = req[s]
    BY <1>1, RequestsMove
  <2>2. CASE code[k] # None
    <3>1. code[k].user = req[s].user
      BY <2>1, <2>2, CodesGrow
    <3>2. codeLock[k] = s
      BY <2>1, <2>2, <3>1 DEF PasswordInv, CodesSweptOK
    <3>3. ~(DeleteCodes(r) /\ code[k].user = req[r].user)
      <4> SUFFICES ASSUME DeleteCodes(r), code[k].user = req[r].user PROVE FALSE
        OBVIOUS
      <4>1. req[r].pc = "codes"
        BY Statement
      <4>2. Running(req[r])
        BY <4>1, AtStatement
      <4>3. Holding(req[r]) /\ Holding(req[s])
        BY <2>1, <4>1, <4>2
           DEF Holding, Running, StatementsOf, AllOps, Guarding
      <4> QED BY <1>1, <3>1, <4>3 DEF PasswordInv, HoldersOK
    <3> QED BY <1>1, <3>2, <3>3, CodeLocksMove, ConstantsAssumption
  <2>3. CASE code[k] = None
    <3>1. CreateAuthorizationCode(r)
      <4>1. CASE ConsumeAuthorizationCode(r)
        BY <2>3, <4>1, AtStatement, Statement
           DEF ConsumeAuthorizationCode, Running, StatementsOf, AllOps, TypeOK
      <4>2. CASE Commit(r)
        <5>1. codeLock[k] # r
          BY <2>3, ConstantsAssumption DEF RowsOK
        <5> QED BY <2>3, <4>2, <5>1 DEF Commit
      <4> QED BY <2>3, <4>1, <4>2, CodesChange
    <3>2. code'[k].user = req[r].user
      BY <2>3, <3>1 DEF CreateAuthorizationCode, TypeOK
    <3> QED BY <1>1, <2>1, <3>1, <3>2, InsertionWaits DEF PasswordInv
  <2> QED BY <2>2, <2>3
<1>2. CASE s = r
  <2>1. DeleteCodes(r) /\ req'[r].user = req[r].user
    BY <1>2, GuardingStep
  <2>2. UNCHANGED code /\ codeLock' = [x \in Codes |->
                                        IF code[x] # None /\ code[x].user = req[r].user
                                        THEN r ELSE codeLock[x]]
    BY <2>1 DEF DeleteCodes, tables
  <2> QED BY <1>2, <2>1, <2>2
<1> QED BY <1>1, <1>2

LEMMA InitPasswordInv == Init => PasswordInv
<1> SUFFICES ASSUME Init PROVE PasswordInv
  OBVIOUS
<1>1. \A r \in Requests : req[r].op = "none"
  BY IdleType DEF Init
<1> QED BY <1>1 DEF PasswordInv, GuardsOK, SweepsOK, HoldersOK, CodesSweptOK, Guarding,
                    Holding

LEMMA NextPasswordInv == FamilyInv /\ PasswordInv /\ [Next]_vars => PasswordInv'
<1> SUFFICES ASSUME FamilyInv, PasswordInv, [Next]_vars PROVE PasswordInv'
  OBVIOUS
<1>1. ASSUME NEW r \in Requests, Act(r) PROVE PasswordInv'
  BY <1>1, GuardsStep, SweepsStep, HoldersStep, CodesSweptStep DEF PasswordInv
<1>2. CASE UNCHANGED <<code, token, locks, req>>
  BY <1>2 DEF PasswordInv, GuardsOK, SweepsOK, HoldersOK, CodesSweptOK, Guarding, Holding,
              locks
<1>3. ASSUME NEW k \in Codes, ExpireCode(k) PROVE PasswordInv'
  <2>1. UNCHANGED <<token, locks, req>> /\ code[k] # None
    BY <1>3 DEF ExpireCode
  <2>2. \A x \in Codes : code'[x] # None => code[x] # None /\ code'[x].user = code[x].user
    <3>1. code[k] \in CodeRows
      BY <2>1 DEF FamilyInv, Types, TypeOK
    <3> QED BY <1>3, <2>1, <3>1 DEF ExpireCode, CodeRows, FamilyInv, Types, TypeOK
  <2>3. CodesSweptOK'
    BY <2>1, <2>2 DEF PasswordInv, CodesSweptOK, Guarding, locks
  <2>4. GuardsOK' /\ SweepsOK' /\ HoldersOK'
    BY <2>1 DEF PasswordInv, GuardsOK, SweepsOK, HoldersOK, Guarding, Holding, locks
  <2> QED BY <2>3, <2>4 DEF PasswordInv
<1> QED BY <1>1, <1>2, <1>3 DEF Next, Act, ExpireFamily, vars, tables

(* The inductive invariant: a password change keeps insertions out, has      *)
(* locked or is yet to lock every token of the account that is not revoked, *)
(* and has all its codes before it commits.                                 *)
THEOREM PasswordInvariant == Spec => []PasswordInv
  BY FamiliesInvariant, InitPasswordInv, NextPasswordInv, PTL DEF Spec

(* When a password change commits, the families, codes and rotations of the  *)
(* account are over: what was inserted before its SELECT FOR UPDATE is in   *)
(* its snapshots, and nothing is inserted until it commits.                 *)
THEOREM PasswordChangeEndsWhatWasIssued == Spec => PasswordChangeEndsFamilies
<1> DEFINE Over(r) == req[r].op = "ChangePassword" /\ Commit(r) =>
             /\ \A n \in Tokens : Live(n)' => token'[n].user # req[r].user
             /\ \A k \in Codes :
                  code'[k] # None /\ code'[k].user = req[r].user
                    => code'[k].state # "fresh"
             /\ \A s \in Requests :
                  req'[s].pc \in {"rotate", "commitRotation"}
                    => req'[s].user # req[r].user
<1>1. ASSUME FamilyInv, PasswordInv, NEW r \in Requests PROVE Over(r)
  <2> USE <1>1
  <2> SUFFICES ASSUME req[r].op = "ChangePassword", Commit(r)
               PROVE  /\ \A n \in Tokens : Live(n)' => token'[n].user # req[r].user
                      /\ \A k \in Codes :
                           code'[k] # None /\ code'[k].user = req[r].user
                             => code'[k].state # "fresh"
                      /\ \A s \in Requests :
                           req'[s].pc \in {"rotate", "commitRotation"}
                             => req'[s].user # req[r].user
    OBVIOUS
  <2>1. req[r].pc = "commit" /\ Guarding(req[r])
    BY Statement DEF Guarding
  <2>2. ASSUME NEW n \in Tokens, Live(n)', token'[n].user = req[r].user PROVE FALSE
    <3>1. token'[n] = IF tokenLock[n] = r THEN [token[n] EXCEPT !.revoked = TRUE]
                      ELSE token[n]
      BY DEF Commit
    <3>2. CASE tokenLock[n] = r
      <4>1. token[n] \in TokenRows
        BY <3>2, ConstantsAssumption DEF FamilyInv, Types, TypeOK, RowsOK
      <4>2. token'[n].revoked = TRUE
        BY <3>1, <3>2, <4>1, RevokedRow
      <4> QED BY <2>2, <4>2 DEF Live
    <3>3. CASE tokenLock[n] # r
      BY <2>1, <2>2, <3>1, <3>3 DEF PasswordInv, SweepsOK, Live
    <3> QED BY <3>2, <3>3
  <2>3. ASSUME NEW k \in Codes, code'[k] # None, code'[k].user = req[r].user
        PROVE  code'[k].state # "fresh"
    <3>1. code'[k] = IF codeLock[k] = r THEN [code[k] EXCEPT !.state = "deleted"]
                     ELSE code[k]
      BY DEF Commit
    <3>2. codeLock[k] = r
      BY <2>1, <2>3, <3>1 DEF PasswordInv, CodesSweptOK
    <3>3. code[k] \in CodeRows
      BY <3>2, ConstantsAssumption DEF FamilyInv, Types, TypeOK, RowsOK
    <3>4. [code[k] EXCEPT !.state = "deleted"].state = "deleted"
      BY <3>3 DEF CodeRows
    <3> QED BY <3>1, <3>2, <3>4
  <2>4. ASSUME NEW s \in Requests, req'[s].pc \in {"rotate", "commitRotation"},
               req'[s].user = req[r].user
        PROVE  FALSE
    <3>1. req' = [req EXCEPT ![r] = Idle]
      BY DEF Commit, End
    <3>2. s # r /\ req'[s] = req[s]
      BY <2>4, <3>1 DEF Idle, FamilyInv, Types, TypeOK
    <3>3. Running(req[s]) /\ req[s].op = "Refresh"
      BY <2>4, <3>2, AtStatement DEF Running, StatementsOf, AllOps, FamilyInv, Types
    <3>4. /\ tokenLock[req[s].key] = s /\ Unspent(req[s].key)
          /\ req[s].key \in Tokens /\ token[req[s].key].user = req[r].user
      BY <2>4, <3>2, <3>3 DEF FamilyInv, RotationsOK, Running
    <3>5. tokenLock[req[s].key] = r
      BY <2>1, <3>4 DEF PasswordInv, SweepsOK, Unspent
    <3> QED BY <3>2, <3>4, <3>5
  <2> QED BY <2>2, <2>3, <2>4
<1>2. FamilyInv /\ PasswordInv => [\A r \in Requests : Over(r)]_vars
  BY <1>1
<1> QED BY <1>2, FamiliesInvariant, PasswordInvariant, PTL DEF PasswordChangeEndsFamilies
=============================================================================
