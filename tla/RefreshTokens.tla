--------------------------- MODULE RefreshTokens ---------------------------
(***************************************************************************)
(* Authorization codes and refresh tokens: Authorize, Exchange and Refresh *)
(* of internal/service/oauth.go over internal/repository/postgres/oauth.go, *)
(* beside the operations that revoke what they issue.                      *)
(*                                                                         *)
(* A sign-in creates a code; the code is exchanged once for the first      *)
(* token of a family; a refresh marks the presented token used and inserts *)
(* its successor.  Presenting a used or revoked token revokes the family.  *)
(* Requests are interleaved statement by statement as PostgreSQL does at   *)
(* READ COMMITTED; what a request reads between its transactions may be    *)
(* out of date when it uses it.                                            *)
(***************************************************************************)
EXTENDS FiniteSets

CONSTANTS
    Users,      \* accounts with a verified email
    Clients,    \* registered clients
    Projects,
    ProjectOf,  \* the project of a client
    Codes,      \* bound: the codes ever created
    Tokens,     \* bound: the tokens ever created
    Requests,   \* slots for concurrently running requests
    Ops,        \* operations this instance runs
    None        \* no request, no row, no value

AllOps == {"Authorize", "Exchange", "Refresh", "GrantAccess", "ActivateAccount",
           "RevokeAccess", "DisableAccount", "ChangePassword", "ResetPassword"}

Rows == Users \X Projects

(* A family is named by its first token. *)
TokenRows == [family : Tokens, code : Codes, user : Users, client : Clients,
              used : BOOLEAN, revoked : BOOLEAN]

(* "deleted" stands for an expired code as well: both are refused alike. *)
CodeRows == [user : Users, client : Clients, state : {"fresh", "used", "deleted"}]

ASSUME ConstantsAssumption ==
    /\ ProjectOf \in [Clients -> Projects]
    /\ Ops \subseteq AllOps
    /\ None \notin Requests \cup Tokens \cup TokenRows \cup CodeRows

VARIABLES
    status,      \* accounts.status, "pending" not distinguished from "disabled"
    access,      \* the rows of project_access
    code,        \* authorization_codes
    token,       \* refresh_tokens
    expired,     \* families past family_expires_at
    delivered,   \* the tokens their client has received
    accountLock, \* holder of the lock on an accounts row
    accessLock,  \* holder of the lock on a project_access row
    codeLock,    \* holder of the lock on an authorization_codes row
    tokenLock,   \* holder of the lock on a refresh_tokens row
    req          \* the running requests

tables == <<status, access, code, token, expired, delivered>>
locks == <<accountLock, accessLock, codeLock, tokenLock>>
vars == <<tables, locks, req>>

Idle == [op |-> "none", pc |-> "idle", user |-> None, client |-> None,
         code |-> None, key |-> None, next |-> None, late |-> FALSE,
         todo |-> {}]

Init ==
    /\ status = [u \in Users |-> "active"]
    /\ access = Rows
    /\ code = [k \in Codes |-> None]
    /\ token = [n \in Tokens |-> None]
    /\ expired = {}
    /\ delivered = {}
    /\ accountLock = [u \in Users |-> None]
    /\ accessLock = [r \in Rows |-> None]
    /\ codeLock = [k \in Codes |-> None]
    /\ tokenLock = [n \in Tokens |-> None]
    /\ req = [r \in Requests |-> Idle]

Live(n) ==
    /\ token[n] # None
    /\ ~token[n].used
    /\ ~token[n].revoked
    /\ token[n].family \notin expired

(* Token values are random: one not in the table nor under way. *)
UnusedTokens == {n \in Tokens : token[n] = None /\ \A r \in Requests : req[r].next # n}

-----------------------------------------------------------------------------
(***************************************************************************)
(* Waiting, going on, ending.                                              *)
(***************************************************************************)
RowOf(r) == <<req[r].user, ProjectOf[req[r].client]>>

Others(r, holder) == {holder} \ {None, r}

(* An INSERT that refers to the account waits for a SELECT FOR UPDATE of it *)
(* (ChangePassword), not for an UPDATE that leaves the key alone ...        *)
KeyLocked(r) ==
    {s \in Others(r, accountLock[req[r].user]) : req[s].op = "ChangePassword"}

(* ... and the SELECT FOR UPDATE for a transaction with such an INSERT.     *)
KeyShared(r) ==
    {s \in Requests \ {r} : /\ req[r].op = "ChangePassword"
                            /\ req[s].pc = "commitRotation"
                            /\ req[s].user = req[r].user}

(* PostgreSQL: the requests whose locks the pending statement waits for. An *)
(* UPDATE or DELETE of several rows waits once no other row is left to it.  *)
BlockedBy(r) ==
    LET q == req[r]
        holders(lock) == UNION {Others(r, lock[x]) : x \in q.todo}
        stuck(lock) == \A x \in q.todo : Others(r, lock[x]) # {}
    IN  CASE q.pc = "present" -> Others(r, tokenLock[q.key])
          [] q.pc \in {"rotate", "create", "code"} -> KeyLocked(r)
          [] q.pc = "account" -> Others(r, accountLock[q.user]) \cup KeyShared(r)
          [] q.pc = "delete" -> Others(r, accessLock[RowOf(r)])
          [] q.pc = "grant" -> Others(r, accessLock[RowOf(r)]) \cup KeyLocked(r)
          [] q.pc = "consume" -> Others(r, codeLock[q.code])
          [] q.pc = "revoke" -> IF stuck(tokenLock) THEN holders(tokenLock) ELSE {}
          [] q.pc = "wipe" -> IF stuck(accessLock) THEN holders(accessLock) ELSE {}
          [] OTHER -> {}

At(r, statement) == req[r].pc = statement /\ BlockedBy(r) = {}

GoTo(r, statement) == req' = [req EXCEPT ![r].pc = statement]

Freed(lock, r) == [x \in DOMAIN lock |-> IF lock[x] = r THEN None ELSE lock[x]]

ReleaseLocks(r) ==
    /\ accountLock' = Freed(accountLock, r)
    /\ accessLock' = Freed(accessLock, r)
    /\ codeLock' = Freed(codeLock, r)
    /\ tokenLock' = Freed(tokenLock, r)

(* The request is answered; what it has not committed is rolled back. *)
End(r) == req' = [req EXCEPT ![r] = Idle] /\ ReleaseLocks(r)

-----------------------------------------------------------------------------
(***************************************************************************)
(* The statements.                                                         *)
(***************************************************************************)
FirstStatement(op) ==
    CASE op \in {"Authorize", "GrantAccess"} -> "checkAccount"
      [] op = "RevokeAccess" -> "delete"
      [] OTHER -> "account"

Started(op, u, c) ==
    [Idle EXCEPT !.op = op, !.pc = FirstStatement(op), !.user = u, !.client = c]

(* A browser, an administrator or a user with a mailed link. *)
Begin(r) ==
    /\ req[r].pc = "idle"
    /\ \E op \in Ops \ {"Exchange", "Refresh"}, u \in Users, c \in Clients :
         req' = [req EXCEPT ![r] = Started(op, u, c)]
    /\ UNCHANGED <<tables, locks>>

(* Once the bound is reached no value is left for a new token. *)
NewToken == IF UnusedTokens = {} THEN {None} ELSE UnusedTokens

(* A client presents a code or a token it was given; nothing keeps it from  *)
(* presenting it twice, or something given to another client.  Refresh reads *)
(* the clock here, before it waits for the row (oauth.go:129).              *)
BeginToken(r) ==
    /\ req[r].pc = "idle"
    /\ \E c \in Clients, n \in NewToken :
         \/ /\ "Exchange" \in Ops
            /\ \E k \in Codes :
                 /\ code[k] # None
                 /\ req' = [req EXCEPT ![r] =
                              [op |-> "Exchange", pc |-> "consume",
                               user |-> code[k].user, client |-> c,
                               code |-> k, key |-> None, next |-> n,
                               late |-> FALSE, todo |-> {}]]
         \/ /\ "Refresh" \in Ops
            /\ \E k \in delivered :
                 req' = [req EXCEPT ![r] =
                           [op |-> "Refresh", pc |-> "present",
                            user |-> token[k].user, client |-> c,
                            code |-> None, key |-> k, next |-> n,
                            late |-> token[k].family \in expired, todo |-> {}]]
    /\ UNCHANGED <<tables, locks>>

(* Reads of the account and of the access, outside any transaction. *)
CheckAccount(r) ==
    /\ At(r, "checkAccount")
    /\ IF status[req[r].user] # "active"
       THEN End(r)
       ELSE /\ GoTo(r, IF req[r].op = "GrantAccess" THEN "grant" ELSE "checkAccess")
            /\ UNCHANGED locks
    /\ UNCHANGED tables

CheckAccess(r) ==
    /\ At(r, "checkAccess")
    /\ IF RowOf(r) \notin access
       THEN End(r)
       ELSE /\ GoTo(r, CASE req[r].op = "Authorize" -> "code"
                         [] req[r].op = "Exchange" -> "create"
                         [] OTHER -> "reply")
            /\ UNCHANGED locks
    /\ UNCHANGED tables

CreateAuthorizationCode(r) ==
    /\ At(r, "code")
    /\ \/ \E k \in Codes :
            /\ code[k] = None
            /\ code' = [code EXCEPT ![k] = [user |-> req[r].user,
                                            client |-> req[r].client,
                                            state |-> "fresh"]]
       \/ (\A k \in Codes : code[k] # None) /\ UNCHANGED code
    /\ End(r)
    /\ UNCHANGED <<status, access, token, expired, delivered>>

(* A version that does not compare the client. *)
ConsumeAnyClient(r) ==
    /\ At(r, "consume")
    /\ LET k == req[r].code
       IN  IF code[k].state # "fresh"
           THEN End(r) /\ UNCHANGED code
           ELSE /\ code' = [code EXCEPT ![k].state = "used"]
                /\ GoTo(r, "checkAccount")
                /\ UNCHANGED locks
    /\ UNCHANGED <<status, access, token, expired, delivered>>

(* One UPDATE, whose effect is committed only for the code's own client,    *)
(* redirect and challenge.                                                  *)
ConsumeAuthorizationCode(r) ==
    /\ At(r, "consume")
    /\ LET k == req[r].code
       IN  IF code[k].state # "fresh" \/ code[k].client # req[r].client
           THEN End(r) /\ UNCHANGED code
           ELSE /\ code' = [code EXCEPT ![k].state = "used"]
                /\ GoTo(r, "checkAccount")
                /\ UNCHANGED locks
    /\ UNCHANGED <<status, access, token, expired, delivered>>

CreateRefresh(r) ==
    /\ At(r, "create")
    /\ LET n == req[r].next
       IN  IF n = None
           THEN End(r) /\ UNCHANGED token
           ELSE /\ token' = [token EXCEPT ![n] =
                               [family |-> n, code |-> req[r].code,
                                user |-> req[r].user, client |-> req[r].client,
                                used |-> FALSE, revoked |-> FALSE]]
                /\ GoTo(r, "reply")
                /\ UNCHANGED locks
    /\ UNCHANGED <<status, access, code, expired, delivered>>

(* What RotateRefresh decides about the presented token. *)
Own(r) == token[req[r].key].client = req[r].client
Spent(r) == token[req[r].key].used \/ token[req[r].key].revoked
Rotates(r) == ~Spent(r) /\ ~req[r].late /\ req[r].next # None

(* A version of PresentToken that reads the row without FOR UPDATE. *)
PresentUnlocked(r) ==
    /\ At(r, "present")
    /\ \/ Own(r) /\ Spent(r) /\ GoTo(r, "scan") /\ UNCHANGED locks
       \/ Own(r) /\ Rotates(r) /\ GoTo(r, "rotate") /\ UNCHANGED locks
       \/ ~(Own(r) /\ (Spent(r) \/ Rotates(r))) /\ End(r)
    /\ UNCHANGED tables

(* A version that looks at used_at and not at revoked_at. *)
PresentRevoked(r) ==
    /\ At(r, "present")
    /\ LET used == token[req[r].key].used
           Keep(next) ==
             /\ GoTo(r, next)
             /\ tokenLock' = [tokenLock EXCEPT ![req[r].key] = r]
             /\ UNCHANGED <<accountLock, accessLock, codeLock>>
       IN  \/ Own(r) /\ used /\ Keep("scan")
           \/ Own(r) /\ ~used /\ req[r].next # None /\ Keep("rotate")
           \/ (~Own(r) \/ (~used /\ req[r].next = None)) /\ End(r)
    /\ UNCHANGED tables

(* RotateRefresh: the row is locked FOR UPDATE, then its state decides.     *)
PresentToken(r) ==
    /\ At(r, "present")
    /\ LET Keep(next) ==
             /\ GoTo(r, next)
             /\ tokenLock' = [tokenLock EXCEPT ![req[r].key] = r]
             /\ UNCHANGED <<accountLock, accessLock, codeLock>>
       IN  \/ Own(r) /\ Spent(r) /\ Keep("scan")
           \/ Own(r) /\ Rotates(r) /\ Keep("rotate")
           \/ ~(Own(r) /\ (Spent(r) \/ Rotates(r))) /\ End(r)
    /\ UNCHANGED tables

(* The UPDATE of the presented token and the INSERT of the next one.        *)
RotateToken(r) ==
    /\ At(r, "rotate")
    /\ GoTo(r, "commitRotation")
    /\ UNCHANGED <<tables, locks>>

CommitRotation(r) ==
    /\ At(r, "commitRotation")
    /\ LET k == req[r].key
       IN  token' = [token EXCEPT ![k].used = TRUE,
                                  ![req[r].next] = [token[k] EXCEPT !.used = FALSE,
                                                                    !.revoked = FALSE]]
    /\ GoTo(r, "checkAccount")
    /\ ReleaseLocks(r)
    /\ UNCHANGED <<status, access, code, expired, delivered>>

(* The tokens are signed and the answer is received. *)
Reply(r) ==
    /\ At(r, "reply")
    /\ delivered' = delivered \cup {req[r].next}
    /\ End(r)
    /\ UNCHANGED <<status, access, code, token, expired>>

-----------------------------------------------------------------------------
(***************************************************************************)
(* The operations that revoke.                                             *)
(***************************************************************************)
AccountMatches(r) ==
    CASE req[r].op = "DisableAccount" -> status[req[r].user] = "active"
      [] req[r].op = "ChangePassword" -> status[req[r].user] # "disabled"
      [] req[r].op = "ActivateAccount" -> status[req[r].user] # "active"
      [] OTHER -> TRUE

(* A version in which ChangePassword reads the account without FOR UPDATE. *)
ReadAccount(r) ==
    /\ At(r, "account")
    /\ \/ /\ AccountMatches(r)
          /\ req[r].op = "ChangePassword"
          /\ GoTo(r, "scan")
          /\ UNCHANGED locks
       \/ /\ AccountMatches(r)
          /\ req[r].op # "ChangePassword"
          /\ accountLock' = [accountLock EXCEPT ![req[r].user] = r]
          /\ GoTo(r, IF req[r].op = "ActivateAccount" THEN "commit" ELSE "scan")
          /\ UNCHANGED <<accessLock, codeLock, tokenLock>>
       \/ ~AccountMatches(r) /\ End(r)
    /\ UNCHANGED tables

(* The UPDATE (ChangePassword: the SELECT FOR UPDATE) of the account. *)
LockAccount(r) ==
    /\ At(r, "account")
    /\ IF AccountMatches(r)
       THEN /\ accountLock' = [accountLock EXCEPT ![req[r].user] = r]
            /\ GoTo(r, IF req[r].op = "ActivateAccount" THEN "commit" ELSE "scan")
            /\ UNCHANGED <<accessLock, codeLock, tokenLock>>
       ELSE End(r)
    /\ UNCHANGED tables

DeleteAccess(r) ==
    /\ At(r, "delete")
    /\ IF RowOf(r) \in access
       THEN /\ accessLock' = [accessLock EXCEPT ![RowOf(r)] = r]
            /\ GoTo(r, "scan")
            /\ UNCHANGED <<accountLock, codeLock, tokenLock>>
       ELSE End(r)
    /\ UNCHANGED tables

(* The rows of refresh_tokens the operation revokes. *)
Revokes(r, n) ==
    /\ token[n] # None
    /\ CASE req[r].op = "Refresh" -> token[n].family = token[req[r].key].family
         [] req[r].op = "RevokeAccess" ->
              <<token[n].user, ProjectOf[token[n].client]>> = RowOf(r)
         [] OTHER -> token[n].user = req[r].user

(* The UPDATE takes its snapshot: tokens inserted later are not its own ... *)
ScanTokens(r) ==
    /\ At(r, "scan")
    /\ req' = [req EXCEPT ![r].pc = "revoke",
                 ![r].todo = {n \in Tokens : Revokes(r, n) /\ ~token[n].revoked}]
    /\ UNCHANGED <<tables, locks>>

(* ... and it locks the rows it saw, waiting for each one's holder.         *)
RevokeToken(r) ==
    /\ At(r, "revoke")
    /\ \E n \in req[r].todo :
         /\ Others(r, tokenLock[n]) = {}
         /\ tokenLock' = [tokenLock EXCEPT ![n] = r]
         /\ req' = [req EXCEPT ![r].todo = @ \ {n}]
    /\ UNCHANGED <<tables, accountLock, accessLock, codeLock>>

TokensRevoked(r) ==
    /\ At(r, "revoke")
    /\ req[r].todo = {}
    /\ GoTo(r, IF req[r].op \in {"Refresh", "RevokeAccess"} THEN "commit"
               ELSE "codes")
    /\ UNCHANGED <<tables, locks>>

(* DELETE FROM authorization_codes: only holders of the account delete them. *)
DeleteCodes(r) ==
    /\ At(r, "codes")
    /\ codeLock' = [k \in Codes |->
                      IF code[k] # None /\ code[k].user = req[r].user THEN r
                      ELSE codeLock[k]]
    /\ GoTo(r, IF req[r].op = "DisableAccount" THEN "scanAccess" ELSE "commit")
    /\ UNCHANGED <<tables, accountLock, accessLock, tokenLock>>

(* DELETE FROM project_access, row by row like the tokens. *)
ScanAccess(r) ==
    /\ At(r, "scanAccess")
    /\ req' = [req EXCEPT ![r].pc = "wipe",
                          ![r].todo = {x \in access : x[1] = req[r].user}]
    /\ UNCHANGED <<tables, locks>>

WipeAccess(r) ==
    /\ At(r, "wipe")
    /\ \E x \in req[r].todo :
         /\ Others(r, accessLock[x]) = {}
         /\ accessLock' = [accessLock EXCEPT ![x] = r]
         /\ req' = [req EXCEPT ![r].todo = @ \ {x}]
    /\ UNCHANGED <<tables, accountLock, codeLock, tokenLock>>

AccessWiped(r) ==
    /\ At(r, "wipe")
    /\ req[r].todo = {}
    /\ GoTo(r, "commit")
    /\ UNCHANGED <<tables, locks>>

(* A status the schema does not know. *)
StatusBlocked(r) ==
    IF req[r].op = "DisableAccount" THEN "blocked" ELSE status[req[r].user]

StatusAfter(r) ==
    CASE req[r].op = "DisableAccount" -> "disabled"
      [] req[r].op = "ActivateAccount" -> "active"
      [] OTHER -> status[req[r].user]

(* The locked tokens become revoked, the locked codes and access rows go.   *)
Commit(r) ==
    /\ At(r, "commit")
    /\ token' = [n \in Tokens |-> IF tokenLock[n] = r
                                  THEN [token[n] EXCEPT !.revoked = TRUE]
                                  ELSE token[n]]
    /\ code' = [k \in Codes |-> IF codeLock[k] = r
                                THEN [code[k] EXCEPT !.state = "deleted"]
                                ELSE code[k]]
    /\ access' = {x \in access : accessLock[x] # r}
    /\ status' = [status EXCEPT ![req[r].user] = StatusAfter(r)]
    /\ End(r)
    /\ UNCHANGED <<expired, delivered>>

(* GrantAccess, its other tables aside. *)
InsertAccess(r) ==
    /\ At(r, "grant")
    /\ access' = access \cup {RowOf(r)}
    /\ End(r)
    /\ UNCHANGED <<status, code, token, expired, delivered>>

-----------------------------------------------------------------------------
(* Two minutes, or seven days, pass. *)
ExpireCode(k) ==
    /\ code[k] # None /\ code[k].state = "fresh"
    /\ code' = [code EXCEPT ![k].state = "deleted"]
    /\ UNCHANGED <<status, access, token, expired, delivered, locks, req>>

ExpireFamily(f) ==
    /\ token[f] # None /\ token[f].family = f
    /\ expired' = expired \cup {f}
    /\ UNCHANGED <<status, access, code, token, delivered, locks, req>>

(* A statement fails, the client goes away or the process dies; the answer  *)
(* of what was committed is lost with it.                                   *)
Fail(r) == req[r].pc # "idle" /\ End(r) /\ UNCHANGED tables

(* PostgreSQL aborts one transaction of a cycle of waits. *)
DeadlockAbort(r) ==
    /\ \E D \in SUBSET Requests :
         r \in D /\ \A s \in D : BlockedBy(s) \cap D # {}
    /\ End(r)
    /\ UNCHANGED tables

Step(r) ==
    \/ CheckAccount(r)
    \/ CheckAccess(r)
    \/ CreateAuthorizationCode(r)
    \/ ConsumeAuthorizationCode(r)
    \/ CreateRefresh(r)
    \/ PresentToken(r)
    \/ RotateToken(r)
    \/ CommitRotation(r)
    \/ Reply(r)
    \/ LockAccount(r)
    \/ DeleteAccess(r)
    \/ ScanTokens(r)
    \/ RevokeToken(r)
    \/ TokensRevoked(r)
    \/ DeleteCodes(r)
    \/ ScanAccess(r)
    \/ WipeAccess(r)
    \/ AccessWiped(r)
    \/ Commit(r)
    \/ InsertAccess(r)

Next ==
    \/ \E r \in Requests :
         Begin(r) \/ BeginToken(r) \/ Step(r) \/ Fail(r) \/ DeadlockAbort(r)
    \/ \E k \in Codes : ExpireCode(k)
    \/ \E f \in Tokens : ExpireFamily(f)

Spec == Init /\ [][Next]_vars

-----------------------------------------------------------------------------
(***************************************************************************)
(* Properties.                                                             *)
(***************************************************************************)
Statements ==
    {"idle", "checkAccount", "checkAccess", "code", "consume", "create", "reply",
     "present", "rotate", "commitRotation", "account", "delete", "scan", "revoke",
     "codes", "scanAccess", "wipe", "commit", "grant"}

ReqState == [op : AllOps \cup {"none"}, pc : Statements, user : Users \cup {None},
             client : Clients \cup {None}, code : Codes \cup {None},
             key : Tokens \cup {None}, next : Tokens \cup {None}, late : BOOLEAN,
             todo : SUBSET (Tokens \cup Rows)]

(* Every variable has its type; locks are held by requests. *)
TypeOK ==
    /\ status \in [Users -> {"active", "disabled"}]
    /\ access \in SUBSET Rows
    /\ code \in [Codes -> CodeRows \cup {None}]
    /\ token \in [Tokens -> TokenRows \cup {None}]
    /\ expired \in SUBSET Tokens
    /\ delivered \in SUBSET Tokens
    /\ accountLock \in [Users -> Requests \cup {None}]
    /\ accessLock \in [Rows -> Requests \cup {None}]
    /\ codeLock \in [Codes -> Requests \cup {None}]
    /\ tokenLock \in [Tokens -> Requests \cup {None}]
    /\ req \in [Requests -> ReqState]

(* A sign-in can be refreshed in one place only: of all the tokens that     *)
(* descend from a code at most one is live, however often the code and the  *)
(* tokens are presented and whatever revokes them meanwhile.                *)
OneLiveToken ==
    \A m, n \in Tokens :
      Live(m) /\ Live(n) /\ token[m].code = token[n].code => m = n

DeadFamily(f) ==
    /\ token[f] # None
    /\ \A n \in Tokens : Live(n) => token[n].family # f

(* A family without a live token never has one again: a rotation that has   *)
(* found its token live cannot lose to a revocation and still insert.       *)
DeadFamilyStaysDead == [][\A f \in Tokens : DeadFamily(f) => DeadFamily(f)']_vars

(* What the tables say of each sign-in. *)
SignedIn ==
    [k \in {x \in Codes : code[x] # None} |->
       [user |-> code[k].user, client |-> code[k].client,
        spent |-> code[k].state # "fresh",
        issued |-> {n \in Tokens : token[n] # None /\ token[n].code = k},
        live |-> {[token |-> n, user |-> token[n].user, client |-> token[n].client] :
                    n \in {m \in Tokens : Live(m) /\ token[m].code = k}}]]

SignIn == INSTANCE SignIns WITH signIn <- SignedIn

(* Codes and tokens implement sign-ins: a code leads to one first token, of  *)
(* its own user and client, a refresh replaces the live token of a sign-in  *)
(* by a new one in a single step, and nothing else makes a token live.      *)
ImplementsSignIns == SignIn!Spec

(* When a transaction of the operation commits, no token it is to revoke is *)
(* live.                                                                    *)
RevokesAll(op) ==
    \A r \in Requests :
      req[r].op = op /\ Commit(r) =>
        \A n \in Tokens :
          ~(Live(n)' /\ token'[n].user = req[r].user
                     /\ (op = "Refresh" =>
                           token'[n].family = token[req[r].key].family))

(* ChangePassword holds the account FOR UPDATE, which no insertion of a      *)
(* token or a code passes: when it commits no token of the account is live, *)
(* no code of it can be exchanged any more, and no refresh is on its way to *)
(* insert a successor.  What was issued is over.  What waited is not: an    *)
(* exchange that consumed its code before inserts its first token after the *)
(* commit (oauth.go:84), an authorization past its checks inserts its code. *)
PasswordChangeEndsFamilies ==
    [][\A r \in Requests :
         req[r].op = "ChangePassword" /\ Commit(r) =>
           /\ \A n \in Tokens : Live(n)' => token'[n].user # req[r].user
           /\ \A k \in Codes :
                code'[k] # None /\ code'[k].user = req[r].user
                  => code'[k].state # "fresh"
           /\ \A s \in Requests :
                req'[s].pc \in {"rotate", "commitRotation"} => req'[s].user # req[r].user
      ]_vars

(* "Все прежние сессии завершены" (account.go:41), the answer to a reset.   *)
PasswordResetEndsTokens == [][RevokesAll("ResetPassword")]_vars

(* "повторное использование старого значения отзывает семейство"            *)
(* (docs/integration.ru.md:50).                                             *)
ReuseEndsFamily == [][RevokesAll("Refresh")]_vars
=============================================================================
